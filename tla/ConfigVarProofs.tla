--------------------------- MODULE ConfigVarProofs ---------------------------
(***************************************************************************)
(* Listeners, for every number of threads, variables and listeners: no     *)
(* one changes them under the loop of setValue, their keys are their own,  *)
(* those that were removed are not called, and they follow the value.      *)
(***************************************************************************)
EXTENDS ConfigVar, SequenceLemmas

\* Between calls, and in calls that wait for their lock.
Outside == {"idle", "set", "add", "del", "clear"}
PCs == Outside \cup {"notify", "write"} \cup Counting

Frame == [var : Vars, arg : Values, todo : SUBSET Nat]

LoopTypes ==
    /\ pc \in [Threads -> PCs]
    /\ var \in [Threads -> Vars]
    /\ arg \in [Threads -> Values]
    /\ cb \in [Threads -> Callbacks]
    /\ readers \in [Vars -> SUBSET (Threads \X Nat)]
    /\ writer \in [Vars -> Threads \cup {NoThread}]
    /\ todo \in [Threads -> SUBSET Nat]
    /\ stack \in [Threads -> Seq(Frame)]
    /\ DOMAIN m_cbs = Vars
    /\ \A x \in Vars : DOMAIN m_cbs[x] \subseteq Nat
    /\ s_fun_id \in Nat
    /\ reg \in [Threads -> Nat]
    /\ handles \in [Threads -> SUBSET [var : Vars, key : Nat, cb : Callbacks]]
    /\ raced \in BOOLEAN

(***************************************************************************)
(* Why: whoever changes m_cbs holds the lock alone, and every loop that    *)
(* runs, or waits for a listener, holds it for reading.                    *)
(***************************************************************************)
ReadsHeld == \A t \in Threads : pc[t] = "notify" => Hold(t) \in readers[var[t]]
FramesHeld == \A t \in Threads : \A i \in 1..Len(stack[t]) :
    <<t, i - 1>> \in readers[stack[t][i].var]
NoFrames == \A t \in Threads : pc[t] \notin {"notify", "write"} => stack[t] = <<>>
WritesHeld == \A t \in Threads : pc[t] \in Counting => writer[var[t]] = t
Exclusive == \A x \in Vars : writer[x] # NoThread => readers[x] = {}

LockInv == ReadsHeld /\ FramesHeld /\ NoFrames /\ WritesHeld /\ Exclusive

\* IterationStable, loop by loop.
LoopsInv ==
    /\ \A t \in Threads : pc[t] = "notify" => todo[t] \subseteq DOMAIN m_cbs[var[t]]
    /\ \A t \in Threads : \A i \in 1..Len(stack[t]) :
          stack[t][i].todo \subseteq DOMAIN m_cbs[stack[t][i].var]

LoopInv == LoopTypes /\ LockInv /\ LoopsInv

\* What a waiting call of setValue has put on the stack.
LEMMA FrameType ==
    ASSUME LoopTypes, NEW t \in Threads, NEW i \in 1..Len(stack[t])
    PROVE  /\ stack[t][i] \in Frame
           /\ stack[t][i].var \in Vars /\ stack[t][i].todo \subseteq Nat
<1>1. stack[t][i] \in Frame
  BY DEF LoopTypes
<1> QED
  BY <1>1 DEF Frame

\* The threads start with no loop and no lock.
LEMMA LoopInit == Init => LoopInv
<1> SUFFICES ASSUME Init PROVE LoopInv
  OBVIOUS
<1>1. Cardinality(Vars) \in Nat
  BY ConfigVarAssumption, FS_CardinalityType
<1>2. PICK key \in [Vars -> 1..Cardinality(Vars)] :
        m_cbs = [x \in Vars |-> [k \in {key[x]} |-> EarlyCb]]
  BY DEF Init, Injection
<1>3. DOMAIN m_cbs = Vars /\ \A x \in Vars : DOMAIN m_cbs[x] \subseteq Nat
  BY <1>1, <1>2
<1>4. AnyVar \in Vars
  BY ConfigVarAssumption DEF AnyVar
<1>5. stack = [t \in Threads |-> <<>>] /\ pc = [t \in Threads |-> "idle"]
  BY DEF Init
<1>6. LoopTypes
  <2>1. /\ pc \in [Threads -> PCs] /\ var \in [Threads -> Vars]
        /\ arg \in [Threads -> Values] /\ cb \in [Threads -> Callbacks]
    BY <1>4, <1>5, ConfigVarAssumption DEF Init, PCs, Outside, Callbacks
  <2>2. /\ todo \in [Threads -> SUBSET Nat] /\ stack \in [Threads -> Seq(Frame)]
        /\ reg \in [Threads -> Nat] /\ s_fun_id \in Nat
    BY <1>1, <1>5 DEF Init
  <2>3. /\ handles \in [Threads -> SUBSET [var : Vars, key : Nat, cb : Callbacks]]
        /\ raced \in BOOLEAN
    BY DEF Init
  <2>4. /\ readers \in [Vars -> SUBSET (Threads \X Nat)]
        /\ writer \in [Vars -> Threads \cup {NoThread}]
    BY DEF Init
  <2> QED
    BY <1>3, <2>1, <2>2, <2>3, <2>4 DEF LoopTypes
<1>7. LockInv
  BY <1>5 DEF Init, LockInv, ReadsHeld, FramesHeld, NoFrames, WritesHeld, Exclusive, Counting
<1>8. LoopsInv
  BY <1>5 DEF LoopsInv
<1> QED
  BY <1>6, <1>7, <1>8 DEF LoopInv

\* What a thread's return from its call does, to it alone.
LEMMA LeaveTypes ==
    ASSUME LoopTypes, NEW t \in Threads, Leave(t)
    PROVE  /\ pc' \in [Threads -> PCs] /\ var' \in [Threads -> Vars]
           /\ arg' \in [Threads -> Values] /\ cb' \in [Threads -> Callbacks]
           /\ todo' \in [Threads -> SUBSET Nat] /\ reg' \in [Threads -> Nat]
           /\ pc'[t] = "idle" /\ cb'[t] = EarlyCb
           /\ \A u \in Threads \ {t} :
                /\ pc'[u] = pc[u] /\ var'[u] = var[u] /\ arg'[u] = arg[u]
                /\ cb'[u] = cb[u] /\ todo'[u] = todo[u] /\ reg'[u] = reg[u]
<1>1. AnyVar \in Vars /\ Default \in Values /\ EarlyCb \in Callbacks
  BY ConfigVarAssumption DEF AnyVar, Callbacks
<1> QED
  BY <1>1 DEF Leave, Goto, LoopTypes, PCs, Outside

\* A thread makes a call or returns from one that had no lock: the loops and
\* locks are those they were, and no loop is over what it removed.
LEMMA LoopOutside ==
    ASSUME LoopInv, LoopTypes', NEW t \in Threads, pc[t] \in Outside, pc'[t] \in Outside,
           \A u \in Threads \ {t} : pc'[u] = pc[u] /\ var'[u] = var[u] /\ todo'[u] = todo[u],
           UNCHANGED <<readers, writer, stack>>,
           \A x \in Vars : m_cbs'[x] = m_cbs[x] \/ readers[x] = {}
    PROVE  LoopInv'
<1> USE DEF LoopInv
<1>1. \A u \in Threads : Hold(u)' = Hold(u)
  BY DEF Hold
<1>2. ReadsHeld' /\ FramesHeld'
  <2>1. pc'[t] # "notify"
    BY DEF Outside
  <2>2. ReadsHeld'
    BY <1>1, <2>1 DEF LockInv, ReadsHeld
  <2>3. FramesHeld'
    BY DEF LockInv, FramesHeld
  <2> QED
    BY <2>2, <2>3
<1>3. NoFrames' /\ WritesHeld' /\ Exclusive'
  BY DEF LockInv, NoFrames, WritesHeld, Exclusive, Outside, Counting
<1>4. ASSUME NEW u \in Threads, pc'[u] = "notify" PROVE todo'[u] \subseteq DOMAIN m_cbs'[var'[u]]
  <2>1. u # t
    BY <1>4 DEF Outside
  <2>2. /\ pc[u] = "notify" /\ var[u] \in Vars /\ var'[u] = var[u] /\ todo'[u] = todo[u]
        /\ Hold(u) \in readers[var[u]]
    BY <1>4, <2>1 DEF LoopTypes, LockInv, ReadsHeld
  <2> QED
    BY <2>2 DEF LoopsInv
<1>5. ASSUME NEW u \in Threads, NEW i \in 1..Len(stack'[u])
      PROVE  stack'[u][i].todo \subseteq DOMAIN m_cbs'[stack'[u][i].var]
  <2>1. stack[u][i].var \in Vars /\ <<u, i - 1>> \in readers[stack[u][i].var]
    BY FrameType DEF LockInv, FramesHeld
  <2> QED
    BY <2>1 DEF LoopsInv
<1> QED
  BY <1>2, <1>3, <1>4, <1>5 DEF LockInv, LoopsInv

\* setValue starts its loop.
LEMMA LoopBegin ==
    ASSUME LoopInv, NEW t \in Threads, SetBegin(t)
    PROVE  LoopInv'
<1> USE DEF LoopInv
<1>0. PICK x \in Vars : x = var[t]
  BY DEF LoopTypes
<1>1. /\ writer[x] = NoThread /\ pc[t] = "set"
      /\ readers' = [readers EXCEPT ![x] = readers[x] \cup {Hold(t)}]
      /\ todo' = [todo EXCEPT ![t] = DOMAIN m_cbs[x]]
      /\ pc' = [pc EXCEPT ![t] = "notify"]
      /\ UNCHANGED <<m_cbs, s_fun_id, handles, raced, writer, stack, var, arg, cb, reg>>
  BY <1>0 DEF SetBegin, Goto, CanRead, cbVars
<1>2. Hold(t) \in Threads \X Nat /\ \A u \in Threads : Hold(u)' = Hold(u)
  BY <1>1 DEF LoopTypes, Hold
<1> HIDE DEF Hold
<1>3. LoopTypes'
  BY <1>1, <1>2 DEF LoopTypes, PCs
<1>4. \A y \in Vars : readers[y] \subseteq readers'[y]
  BY <1>1 DEF LoopTypes
<1>5. ReadsHeld'
  BY <1>0, <1>1, <1>2, <1>4 DEF LoopTypes, LockInv, ReadsHeld
<1>6. FramesHeld'
  BY <1>1, <1>4, FrameType DEF LockInv, FramesHeld
<1>7. NoFrames' /\ WritesHeld'
  BY <1>1 DEF LoopTypes, LockInv, NoFrames, WritesHeld, Counting
<1>8. Exclusive'
  BY <1>1 DEF LoopTypes, LockInv, Exclusive
<1>9. LoopsInv'
  BY <1>0, <1>1 DEF LoopTypes, LoopsInv
<1> QED
  BY <1>3, <1>5, <1>6, <1>7, <1>8, <1>9 DEF LockInv

\* A listener calls setValue.
LEMMA LoopForward ==
    ASSUME LoopInv, NEW t \in Threads, NotifyForward(t)
    PROVE  LoopInv'
<1> DEFINE y == Forward[<<var[t], Reached(t)>>]
           rest == todo[t] \ {Min(todo[t])}
           f == [var |-> var[t], arg |-> arg[t], todo |-> rest]
<1> USE DEF LoopInv
<1>1. y \in Vars
  BY ConfigVarAssumption DEF NotifyForward, Forwards
<1>2. /\ CanRead(y) /\ pc[t] = "notify" /\ UNCHANGED <<cbVars, writer, pc, arg, cb, reg>>
  BY DEF NotifyForward
<1>3. CASE arg[t] = m_val[y]
  <2>1. todo' = [todo EXCEPT ![t] = rest] /\ UNCHANGED <<readers, var, stack>>
    BY <1>3 DEF NotifyForward
  <2> HIDE DEF rest
  <2>2. rest \subseteq todo[t]
    BY DEF rest
  <2>3. LoopTypes'
    BY <1>2, <2>1, <2>2 DEF LoopTypes, cbVars
  <2>4. LockInv'
    BY <1>2, <2>1
    DEF LockInv, ReadsHeld, FramesHeld, NoFrames, WritesHeld, Exclusive, Hold
  <2>5. LoopsInv'
    BY <1>2, <2>1, <2>2 DEF LoopsInv, LoopTypes, cbVars
  <2> QED
    BY <2>3, <2>4, <2>5
<1>4. CASE arg[t] # m_val[y]
  <2>1. /\ stack' = [stack EXCEPT ![t] = Append(stack[t], f)]
        /\ readers' = [readers EXCEPT ![y] = readers[y] \cup {<<t, Len(stack[t]) + 1>>}]
        /\ var' = [var EXCEPT ![t] = y]
        /\ todo' = [todo EXCEPT ![t] = DOMAIN m_cbs[y]]
    BY <1>4 DEF NotifyForward
  <2>2. f \in Frame /\ rest \subseteq todo[t]
    BY DEF LoopTypes, Frame
  <2> HIDE DEF y, f
  <2>3. /\ stack'[t] = Append(stack[t], f) /\ stack[t] \in Seq(Frame)
        /\ \A u \in Threads \ {t} : stack'[u] = stack[u]
        /\ Len(stack'[t]) = Len(stack[t]) + 1 /\ Len(stack[t]) \in Nat
        /\ \A i \in 1..Len(stack[t]) : stack'[t][i] = stack[t][i]
        /\ stack'[t][Len(stack[t]) + 1] = f
    BY <2>1, <2>2 DEF LoopTypes
  <2>4. LoopTypes'
    BY <1>1, <1>2, <2>1, <2>2, <2>3 DEF LoopTypes, cbVars
  <2>5. f.var = var[t] /\ f.todo = rest
    BY DEF f
  <2> HIDE DEF rest
  <2>6. \A x \in Vars : readers[x] \subseteq readers'[x]
    BY <1>1, <2>1 DEF LoopTypes
  <2>7. LockInv'
    <3>1. /\ Hold(t)' = <<t, Len(stack[t]) + 1>> /\ Hold(t)' \in readers'[y]
          /\ \A u \in Threads \ {t} : Hold(u)' = Hold(u)
      BY <1>1, <2>1, <2>3 DEF LoopTypes, Hold
    <3>2. ReadsHeld'
      <4> SUFFICES ASSUME NEW u \in Threads, pc[u] = "notify"
                   PROVE  Hold(u)' \in readers'[var'[u]]
        BY <1>2 DEF ReadsHeld
      <4>1. CASE u = t
        BY <4>1, <2>1, <3>1 DEF LoopTypes
      <4>2. CASE u # t
        <5>1. var'[u] = var[u] /\ var[u] \in Vars /\ Hold(u) \in readers[var[u]]
          BY <4>2, <2>1 DEF LoopTypes, LockInv, ReadsHeld
        <5> QED
          BY <4>2, <5>1, <2>6, <3>1
      <4> QED
        BY <4>1, <4>2
    <3>3. Hold(t) \in readers'[f.var]
      BY <1>2, <2>5, <2>6 DEF LockInv, ReadsHeld, LoopTypes
    <3>4. \A i \in 1..Len(stack'[t]) : <<t, i - 1>> \in readers'[stack'[t][i].var]
      <4> SUFFICES ASSUME NEW i \in 1..Len(stack'[t])
                   PROVE  <<t, i - 1>> \in readers'[stack'[t][i].var]
        OBVIOUS
      <4>1. CASE i \in 1..Len(stack[t])
        <5>1. stack[t][i].var \in Vars
          BY <4>1, FrameType
        <5> QED
          BY <4>1, <5>1, <2>3, <2>6 DEF LockInv, FramesHeld
      <4>2. CASE i = Len(stack[t]) + 1
        BY <4>2, <3>3, <2>3 DEF Hold
      <4> QED
        BY <4>1, <4>2, <2>3
    <3>5. \A u \in Threads \ {t} : \A i \in 1..Len(stack'[u]) :
             <<u, i - 1>> \in readers'[stack'[u][i].var]
      BY <2>3, <2>6, FrameType DEF LockInv, FramesHeld
    <3>6. NoFrames'
      BY <1>2, <2>3 DEF LockInv, NoFrames, LoopTypes
    <3>7. WritesHeld'
      BY <1>2, <2>1 DEF LockInv, WritesHeld, LoopTypes, Counting
    <3>8. Exclusive'
      BY <1>2, <2>1 DEF LockInv, Exclusive, LoopTypes, CanRead
    <3> QED
      BY <3>2, <3>4, <3>5, <3>6, <3>7, <3>8 DEF LockInv, FramesHeld
  <2>8. LoopsInv'
    <3>1. m_cbs' = m_cbs /\ pc' = pc /\ f.todo \subseteq DOMAIN m_cbs[f.var]
      BY <1>2, <2>2, <2>5 DEF LoopsInv, cbVars
    <3>2. \A u \in Threads : pc'[u] = "notify" => todo'[u] \subseteq DOMAIN m_cbs'[var'[u]]
      BY <2>1, <3>1 DEF LoopsInv, LoopTypes
    <3>3. \A i \in 1..Len(stack'[t]) :
             stack'[t][i].todo \subseteq DOMAIN m_cbs'[stack'[t][i].var]
      <4> SUFFICES ASSUME NEW i \in 1..Len(stack'[t])
                   PROVE  stack'[t][i].todo \subseteq DOMAIN m_cbs'[stack'[t][i].var]
        OBVIOUS
      <4>1. i \in 1..Len(stack[t]) \/ i = Len(stack[t]) + 1
        BY <2>3
      <4> QED
        BY <4>1, <2>3, <3>1 DEF LoopsInv
    <3>4. \A u \in Threads \ {t} : \A i \in 1..Len(stack'[u]) :
             stack'[u][i].todo \subseteq DOMAIN m_cbs'[stack'[u][i].var]
      BY <2>3, <3>1 DEF LoopsInv
    <3> QED
      BY <3>2, <3>3, <3>4 DEF LoopsInv
  <2> QED
    BY <2>4, <2>7, <2>8
<1> QED
  BY <1>3, <1>4

\* setValue returns to the loop that called the listener, or to its caller.
LEMMA LoopReturn ==
    ASSUME LoopInv, NEW t \in Threads, SetWrite(t)
    PROVE  LoopInv'
<1> USE DEF LoopInv
<1>1. pc[t] = "write" /\ Return(t) /\ UNCHANGED <<cbVars, lockVars>>
  BY DEF SetWrite
<1>2. CASE stack[t] = <<>>
  <2>1. Leave(t) /\ stack' = stack
    BY <1>1, <1>2 DEF Return
  <2>2. LoopTypes'
    BY <1>1, <2>1, LeaveTypes DEF LoopTypes, cbVars, lockVars
  <2>3. LockInv'
    <3>1. \A u \in Threads : /\ pc'[u] = IF u = t THEN "idle" ELSE pc[u]
                             /\ u # t => var'[u] = var[u]
      BY <2>1, LeaveTypes
    <3>2. ReadsHeld' /\ FramesHeld'
      BY <1>1, <2>1, <3>1 DEF LockInv, ReadsHeld, FramesHeld, Hold, lockVars
    <3>3. NoFrames' /\ WritesHeld' /\ Exclusive'
      BY <1>1, <1>2, <2>1, <3>1 DEF LockInv, NoFrames, WritesHeld, Exclusive, Counting, lockVars
    <3> QED
      BY <3>2, <3>3 DEF LockInv
  <2>4. LoopsInv'
    <3>1. \A u \in Threads : /\ pc'[u] = IF u = t THEN "idle" ELSE pc[u]
                             /\ u # t => var'[u] = var[u] /\ todo'[u] = todo[u]
      BY <2>1, LeaveTypes
    <3> QED
      BY <1>1, <2>1, <3>1 DEF LoopsInv, cbVars
  <2> QED
    BY <2>2, <2>3, <2>4
<1>3. CASE stack[t] # <<>>
  <2> DEFINE n == Len(stack[t])
             f == stack[t][n]
  <2>1. /\ stack' = [stack EXCEPT ![t] = SubSeq(stack[t], 1, n - 1)]
        /\ var' = [var EXCEPT ![t] = f.var]
        /\ arg' = [arg EXCEPT ![t] = f.arg]
        /\ todo' = [todo EXCEPT ![t] = f.todo]
        /\ pc' = [pc EXCEPT ![t] = "notify"] /\ UNCHANGED <<cb, reg>>
    BY <1>1, <1>3 DEF Return, Goto
  <2>2. stack[t] \in Seq(Frame) /\ n \in Nat \ {0} /\ f \in Frame /\ n \in 1..n
    BY <1>3 DEF LoopTypes
  <2>3. f.var \in Vars /\ f.arg \in Values /\ f.todo \in SUBSET Nat
    BY <2>2 DEF Frame
  <2>4. SubSeq(stack[t], 1, n - 1) \in Seq(Frame)
    BY <2>2
  <2>5. <<t, n - 1>> \in readers[f.var] /\ f.todo \subseteq DOMAIN m_cbs[f.var]
    BY <2>2 DEF LockInv, FramesHeld, LoopsInv
  <2> HIDE DEF f
  <2>6. /\ stack'[t] = SubSeq(stack[t], 1, n - 1)
        /\ \A u \in Threads \ {t} : stack'[u] = stack[u]
    BY <2>1 DEF LoopTypes
  <2>7. /\ Len(stack'[t]) = n - 1
        /\ \A i \in 1..(n - 1) : stack'[t][i] = stack[t][i] /\ i \in 1..Len(stack[t])
    BY <2>2, <2>6
  <2>8. LoopTypes'
    BY <1>1, <2>1, <2>3, <2>4 DEF LoopTypes, PCs, cbVars, lockVars
  <2> HIDE DEF n
  <2>9. LockInv'
    <3>1. Hold(t)' = <<t, n - 1>> /\ \A u \in Threads \ {t} : Hold(u)' = Hold(u)
      BY <2>6, <2>7 DEF Hold
    <3>2. ReadsHeld'
      <4> SUFFICES ASSUME NEW u \in Threads, pc'[u] = "notify"
                   PROVE  Hold(u)' \in readers[var'[u]]
        BY <1>1 DEF ReadsHeld, lockVars
      <4>1. CASE u = t
        BY <4>1, <2>1, <2>5, <3>1 DEF LoopTypes
      <4>2. CASE u # t
        <5>1. var'[u] = var[u] /\ pc'[u] = pc[u] /\ Hold(u)' = Hold(u)
          BY <4>2, <2>1, <3>1 DEF LoopTypes
        <5> QED
          BY <5>1 DEF LockInv, ReadsHeld
      <4> QED
        BY <4>1, <4>2
    <3>3. FramesHeld'
      BY <1>1, <2>6, <2>7 DEF LockInv, FramesHeld, lockVars
    <3>4. NoFrames'
      BY <2>1, <2>6 DEF LockInv, NoFrames, LoopTypes
    <3>5. WritesHeld'
      BY <1>1, <2>1 DEF LockInv, WritesHeld, LoopTypes, Counting, lockVars
    <3> QED
      BY <1>1, <3>2, <3>3, <3>4, <3>5 DEF LockInv, Exclusive, lockVars
  <2>10. LoopsInv'
    <3>1. \A u \in Threads : pc'[u] = "notify" => todo'[u] \subseteq DOMAIN m_cbs'[var'[u]]
      BY <1>1, <2>1, <2>5 DEF LoopsInv, LoopTypes, cbVars
    <3>2. \A u \in Threads : \A i \in 1..Len(stack'[u]) :
             stack'[u][i].todo \subseteq DOMAIN m_cbs'[stack'[u][i].var]
      BY <1>1, <2>6, <2>7 DEF LoopsInv, cbVars
    <3> QED
      BY <3>1, <3>2 DEF LoopsInv
  <2> QED
    BY <2>8, <2>9, <2>10
<1> QED
  BY <1>2, <1>3

\* The steps of setValue.
LEMMA LoopSet ==
    ASSUME LoopInv, NEW t \in Threads, SetterNext(t)
    PROVE  LoopInv'
<1> USE DEF LoopInv
<1>0. ASSUME NEW x \in Inputs, NEW v \in Values, SetCall(t, x, v) PROVE LoopInv'
  <2>1. /\ x \in Vars /\ pc[t] = "idle" /\ pc' = [pc EXCEPT ![t] = "set"]
        /\ var' = [var EXCEPT ![t] = x] /\ arg' = [arg EXCEPT ![t] = v]
        /\ UNCHANGED <<cbVars, lockVars, cb, todo, stack, reg>>
    BY <1>0, ConfigVarAssumption DEF SetCall, Call, Goto
  <2>2. LoopTypes'
    BY <2>1 DEF LoopTypes, PCs, Outside, cbVars, lockVars
  <2> QED
    BY <2>1, <2>2, LoopOutside DEF LoopTypes, Outside, cbVars, lockVars
<1>1. CASE SetBegin(t)
  BY <1>1, LoopBegin
<1>2. CASE SetSame(t)
  <2>1. /\ pc[t] = "set" /\ Leave(t) /\ UNCHANGED <<cbVars, lockVars, stack>>
    BY <1>2 DEF SetSame
  <2>2. LoopTypes'
    BY <2>1, LeaveTypes DEF LoopTypes, cbVars, lockVars
  <2> QED
    BY <2>1, <2>2, LeaveTypes, LoopOutside DEF Outside, cbVars, lockVars
<1>3. CASE Notify(t)
  <2>1. todo'[t] \subseteq todo[t] /\ \A u \in Threads \ {t} : todo'[u] = todo[u]
    BY <1>3 DEF Notify, LoopTypes
  <2>2. todo' \in [Threads -> SUBSET Nat]
    BY <1>3, <2>1 DEF Notify, LoopTypes
  <2>3. UNCHANGED <<cbVars, lockVars, pc, var, arg, cb, stack, reg>>
    BY <1>3 DEF Notify
  <2> QED
    BY <2>1, <2>2, <2>3 DEF cbVars, lockVars, LoopTypes, LockInv, ReadsHeld,
                            FramesHeld, NoFrames, WritesHeld, Exclusive, LoopsInv, Hold
<1>4. CASE NotifyForward(t)
  BY <1>4, LoopForward
<1>5. CASE NotifyThrows(t)
  <2>1. /\ \A x \in Vars : readers'[x] = {h \in readers[x] : h[1] # t}
        /\ readers' \in [Vars -> SUBSET (Threads \X Nat)]
    BY <1>5 DEF NotifyThrows, LoopTypes
  <2>2. /\ stack' = [stack EXCEPT ![t] = <<>>] /\ <<>> \in Seq(Frame)
        /\ Leave(t)
        /\ UNCHANGED <<m_cbs, s_fun_id, handles, raced, writer>>
    BY <1>5 DEF NotifyThrows, cbVars
  <2>3. LoopTypes'
    BY <2>1, <2>2, LeaveTypes DEF LoopTypes
  <2>4. /\ pc'[t] = "idle" /\ stack'[t] = <<>>
        /\ \A u \in Threads \ {t} : /\ pc'[u] = pc[u] /\ stack'[u] = stack[u]
                                    /\ var'[u] = var[u] /\ todo'[u] = todo[u]
    BY <2>2, LeaveTypes DEF LoopTypes
  <2>5. LockInv'
    <3>1. ReadsHeld'
      BY <2>1, <2>2, <2>4 DEF LoopTypes, LockInv, ReadsHeld, Hold
    <3>2. FramesHeld'
      <4> SUFFICES ASSUME NEW u \in Threads, NEW i \in 1..Len(stack'[u])
                   PROVE  <<u, i - 1>> \in readers'[stack'[u][i].var]
        BY DEF FramesHeld
      <4>1. u # t /\ stack'[u] = stack[u]
        BY <2>4
      <4>2. stack[u][i].var \in Vars
        BY <4>1, FrameType
      <4>3. <<u, i - 1>> \in readers[stack[u][i].var]
        BY <4>1 DEF LockInv, FramesHeld
      <4> QED
        BY <4>1, <4>2, <4>3, <2>1
    <3> QED
      BY <2>1, <2>2, <2>4, <3>1, <3>2
      DEF LockInv, NoFrames, WritesHeld, Exclusive, Counting
  <2>6. LoopsInv'
    BY <2>2, <2>4 DEF LoopsInv
  <2> QED
    BY <2>3, <2>5, <2>6
<1>6. CASE SetUnlock(t)
  <2>1. /\ readers' = [readers EXCEPT ![var[t]] = readers[var[t]] \ {Hold(t)}]
        /\ pc' = [pc EXCEPT ![t] = "write"] /\ pc[t] = "notify"
        /\ UNCHANGED <<cbVars, writer, callVars>>
        /\ UNCHANGED <<m_cbs, var, todo, stack>>
    BY <1>6 DEF SetUnlock, Goto, cbVars, callVars
  <2>2. LoopTypes'
    BY <2>1 DEF LoopTypes, PCs, cbVars, callVars
  <2>3. \A u \in Threads : \A i \in 1..Len(stack[u]) : <<u, i - 1>> # Hold(t)
    BY DEF LoopTypes, Hold
  <2>4. \A u \in Threads \ {t} : Hold(u) # Hold(t) /\ Hold(u)' = Hold(u)
    BY <2>1 DEF LoopTypes, Hold
  <2>5. LockInv'
    <3>1. ReadsHeld'
      BY <2>1, <2>4 DEF LoopTypes, LockInv, ReadsHeld
    <3>2. FramesHeld'
      BY <2>1, <2>3, FrameType DEF LoopTypes, LockInv, FramesHeld
    <3> QED
      BY <2>1, <3>1, <3>2 DEF LoopTypes, LockInv, NoFrames, WritesHeld, Exclusive, Counting
  <2>6. LoopsInv'
    BY <2>1 DEF LoopTypes, LoopsInv
  <2> QED
    BY <2>2, <2>5, <2>6
<1>7. CASE SetWrite(t)
  BY <1>7, LoopReturn
<1> QED
  BY <1>0, <1>1, <1>2, <1>3, <1>4, <1>5, <1>6, <1>7 DEF SetterNext, setValue

\* The steps of addListener.
LEMMA LoopAdd ==
    ASSUME LoopInv, NEW t \in Threads, addListener(t)
    PROVE  LoopInv'
<1> USE DEF LoopInv
<1>1. CASE AddLoad(t)
  <2>0. PICK x \in Vars : x = var[t]
    BY DEF LoopTypes
  <2>1. /\ CanWrite(x) /\ pc[t] = "add"
        /\ writer' = [writer EXCEPT ![x] = t]
        /\ pc' = [pc EXCEPT ![t] = "addStore"] /\ reg' = [reg EXCEPT ![t] = s_fun_id]
        /\ raced' \in BOOLEAN
        /\ UNCHANGED <<m_cbs, s_fun_id, handles, readers, var, arg, cb, todo, stack>>
    BY <1>1, <2>0 DEF AddLoad, Goto
  <2>2. LoopTypes'
    BY <2>1 DEF LoopTypes, PCs, Counting
  <2>3. \A u \in Threads : pc[u] \in Counting => writer[var[u]] = u /\ var[u] # x
    BY <2>1, ConfigVarAssumption DEF CanWrite, LockInv, WritesHeld
  <2>4. \A u \in Threads : pc'[u] = IF u = t THEN "addStore" ELSE pc[u]
    BY <2>1 DEF LoopTypes
  <2>5. LockInv'
    <3>1. \A u \in Threads : Hold(u)' = Hold(u)
      BY <2>1 DEF Hold
    <3>2. ReadsHeld'
      BY <2>1, <2>4, <3>1 DEF LockInv, ReadsHeld
    <3>3. FramesHeld' /\ NoFrames'
      BY <2>1, <2>4 DEF LockInv, FramesHeld, NoFrames
    <3>4. WritesHeld'
      BY <2>0, <2>1, <2>3, <2>4 DEF LoopTypes, LockInv, WritesHeld
    <3>5. Exclusive'
      BY <2>1 DEF LoopTypes, LockInv, Exclusive, CanWrite
    <3> QED
      BY <3>2, <3>3, <3>4, <3>5 DEF LockInv
  <2>6. LoopsInv'
    BY <2>1, <2>4 DEF LoopsInv
  <2> QED
    BY <2>2, <2>5, <2>6
<1>2. CASE AddStore(t)
  <2>1. /\ UNCHANGED <<m_cbs, handles, raced, lockVars, callVars>>
        /\ pc[t] = "addStore" /\ pc' = [pc EXCEPT ![t] = "addInsert"]
        /\ s_fun_id' = reg[t] + 1
    BY <1>2 DEF AddStore, Goto
  <2>2. LoopTypes'
    BY <2>1 DEF LoopTypes, PCs, Counting, lockVars, callVars
  <2>3. \A u \in Threads : pc'[u] = IF u = t THEN "addInsert" ELSE pc[u]
    BY <2>1 DEF LoopTypes
  <2>4. UNCHANGED <<m_cbs, readers, writer, var, todo, stack>>
    BY <2>1 DEF lockVars, callVars
  <2>5. ReadsHeld' /\ FramesHeld'
    BY <2>3, <2>4 DEF LockInv, ReadsHeld, FramesHeld, Hold
  <2>6. NoFrames' /\ WritesHeld' /\ Exclusive'
    BY <2>1, <2>3, <2>4 DEF LockInv, NoFrames, WritesHeld, Exclusive, Counting
  <2>7. LoopsInv'
    BY <2>3, <2>4 DEF LoopsInv
  <2> QED
    BY <2>2, <2>5, <2>6, <2>7 DEF LockInv
<1>3. CASE AddInsert(t)
  <2>1. /\ UNCHANGED <<s_fun_id, handles, raced, readers, writer, var, arg, cb, todo, stack, reg>>
        /\ pc[t] = "addInsert" /\ pc' = [pc EXCEPT ![t] = "addReturn"]
    BY <1>3 DEF AddInsert, Goto, lockVars, callVars
  <2>2. /\ DOMAIN m_cbs' = Vars
        /\ \A x \in Vars : /\ DOMAIN m_cbs'[x] \subseteq Nat
                           /\ DOMAIN m_cbs[x] \subseteq DOMAIN m_cbs'[x]
    BY <1>3 DEF AddInsert, LoopTypes
  <2>3. LoopTypes'
    BY <2>1, <2>2 DEF LoopTypes, PCs, Counting
  <2>4. LockInv'
    <3>1. \A u \in Threads : pc'[u] = IF u = t THEN "addReturn" ELSE pc[u]
      BY <2>1 DEF LoopTypes
    <3>2. ReadsHeld' /\ FramesHeld'
      BY <2>1, <3>1 DEF LockInv, ReadsHeld, FramesHeld, Hold
    <3>3. NoFrames' /\ WritesHeld' /\ Exclusive'
      BY <2>1, <3>1 DEF LockInv, NoFrames, WritesHeld, Exclusive, Counting
    <3> QED
      BY <3>2, <3>3 DEF LockInv
  <2>5. LoopsInv'
    <3>1. \A u \in Threads : pc'[u] = "notify" => todo'[u] \subseteq DOMAIN m_cbs'[var'[u]]
      BY <2>1, <2>2 DEF LoopTypes, LoopsInv
    <3>2. \A u \in Threads : \A i \in 1..Len(stack'[u]) :
             stack'[u][i].todo \subseteq DOMAIN m_cbs'[stack'[u][i].var]
      BY <2>1, <2>2, FrameType DEF LoopsInv
    <3> QED
      BY <3>1, <3>2 DEF LoopsInv
  <2> QED
    BY <2>3, <2>4, <2>5
<1>4. CASE AddReturn(t)
  <2>1. /\ UNCHANGED <<m_cbs, s_fun_id, raced, readers, stack>>
        /\ pc[t] = "addReturn" /\ Leave(t)
        /\ handles' = [handles EXCEPT ![t] = handles[t] \cup
                          {[var |-> var[t], key |-> s_fun_id, cb |-> cb[t]]}]
        /\ writer' = [writer EXCEPT ![var[t]] = NoThread] /\ writer[var[t]] = t
    BY <1>4 DEF AddReturn, Counting, LockInv, WritesHeld
  <2>2. LoopTypes'
    <3>1. [var |-> var[t], key |-> s_fun_id, cb |-> cb[t]]
             \in [var : Vars, key : Nat, cb : Callbacks]
      BY DEF LoopTypes
    <3>2. handles' \in [Threads -> SUBSET [var : Vars, key : Nat, cb : Callbacks]]
      BY <2>1, <3>1 DEF LoopTypes
    <3>3. writer' \in [Vars -> Threads \cup {NoThread}]
      BY <2>1 DEF LoopTypes
    <3> QED
      BY <2>1, <3>2, <3>3, LeaveTypes DEF LoopTypes
  <2>3. \A u \in Threads \ {t} : pc[u] \in Counting => var[u] # var[t]
    BY <2>1 DEF LockInv, WritesHeld
  <2>4. \A u \in Threads : /\ pc'[u] = IF u = t THEN "idle" ELSE pc[u]
                           /\ u # t => var'[u] = var[u] /\ todo'[u] = todo[u]
    BY <2>1, LeaveTypes
  <2>5. LockInv'
    <3>1. ReadsHeld' /\ FramesHeld'
      BY <2>1, <2>4 DEF LockInv, ReadsHeld, FramesHeld, Hold
    <3>2. NoFrames'
      BY <2>1, <2>4 DEF LockInv, NoFrames, Counting
    <3>3. WritesHeld'
      BY <2>1, <2>3, <2>4 DEF LoopTypes, LockInv, WritesHeld, Counting
    <3>4. Exclusive'
      BY <2>1 DEF LoopTypes, LockInv, Exclusive
    <3> QED
      BY <3>1, <3>2, <3>3, <3>4 DEF LockInv
  <2>6. LoopsInv'
    BY <2>1, <2>4 DEF LoopsInv
  <2> QED
    BY <2>2, <2>5, <2>6
<1> QED
  BY <1>1, <1>2, <1>3, <1>4 DEF addListener

\* delListener and clearListener have the lock.
LEMMA LoopErase ==
    ASSUME LoopInv, NEW t \in Threads, NEW K, pc[t] \in {"del", "clear"},
           Erase(var[t], K), Leave(t),
           UNCHANGED <<s_fun_id, handles, raced, lockVars, stack>>
    PROVE  LoopInv'
<1> USE DEF LoopInv
<1>1. /\ DOMAIN m_cbs' = Vars
      /\ \A y \in Vars : DOMAIN m_cbs'[y] \subseteq Nat
      /\ \A y \in Vars \ {var[t]} : m_cbs'[y] = m_cbs[y]
  BY DEF Erase, Restrict, LoopTypes
<1>2. readers[var[t]] = {}
  BY DEF Erase, CanWrite
<1>3. LoopTypes'
  BY <1>1, LeaveTypes DEF LoopTypes, lockVars
<1>4. \A y \in Vars : m_cbs'[y] = m_cbs[y] \/ readers[y] = {}
  BY <1>1, <1>2
<1> QED
  BY <1>3, <1>4, LeaveTypes, LoopOutside DEF Outside, lockVars

\* Calls that register and remove listeners are made.
LEMMA LoopCall ==
    ASSUME LoopInv, NEW t \in Threads,
           \/ \E x \in Listened, c \in Cbs : AddCall(t, x, c)
           \/ \E h \in handles[t] : DelCall(t, h)
           \/ \E x \in Listened : ClearCall(t, x)
    PROVE  LoopInv'
<1> USE DEF LoopInv
<1>1. ASSUME NEW x \in Vars, NEW w \in Outside, pc[t] = "idle",
             pc' = [pc EXCEPT ![t] = w], var' = [var EXCEPT ![t] = x],
             cb' \in [Threads -> Callbacks], reg' \in [Threads -> Nat],
             handles' \in [Threads -> SUBSET [var : Vars, key : Nat, cb : Callbacks]],
             UNCHANGED <<m_cbs, s_fun_id, raced, lockVars, arg, todo, stack>>
      PROVE  LoopInv'
  <2>1. LoopTypes'
    BY <1>1 DEF LoopTypes, PCs, lockVars
  <2>2. /\ pc[t] \in Outside /\ pc'[t] \in Outside
        /\ \A u \in Threads \ {t} : pc'[u] = pc[u] /\ var'[u] = var[u]
    BY <1>1 DEF LoopTypes, Outside
  <2> QED
    BY <1>1, <2>1, <2>2, LoopOutside DEF lockVars
<1>2. ASSUME NEW x \in Listened, NEW c \in Cbs, AddCall(t, x, c) PROVE LoopInv'
  <2>1. cb' = [cb EXCEPT ![t] = c] /\ c \in Callbacks
    BY <1>2 DEF AddCall, Callbacks
  <2>2. cb' \in [Threads -> Callbacks]
    BY <2>1 DEF LoopTypes
  <2> QED
    BY <1>1, <1>2, <2>2, ConfigVarAssumption DEF AddCall, Call, Goto, LoopTypes, Outside
<1>3. ASSUME NEW h \in handles[t], DelCall(t, h) PROVE LoopInv'
  <2>1. h.var \in Vars /\ h.key \in Nat /\ h.cb \in Callbacks
    BY DEF LoopTypes
  <2>2. /\ cb' = [cb EXCEPT ![t] = h.cb] /\ reg' = [reg EXCEPT ![t] = h.key]
        /\ handles' = [handles EXCEPT ![t] = handles[t] \ {h}]
    BY <1>3 DEF DelCall
  <2>3. /\ cb' \in [Threads -> Callbacks] /\ reg' \in [Threads -> Nat]
        /\ handles' \in [Threads -> SUBSET [var : Vars, key : Nat, cb : Callbacks]]
    BY <2>1, <2>2 DEF LoopTypes
  <2> QED
    BY <1>1, <1>3, <2>1, <2>3 DEF DelCall, Call, Goto, Outside
<1>4. ASSUME NEW x \in Listened, ClearCall(t, x) PROVE LoopInv'
  BY <1>1, <1>4, ConfigVarAssumption DEF ClearCall, Call, Goto, cbVars, LoopTypes, Outside
<1> QED
  BY <1>2, <1>3, <1>4

\* Every step keeps the loops intact.
LEMMA LoopStep == LoopInv /\ [Next]_vars => LoopInv'
<1> SUFFICES ASSUME LoopInv, [Next]_vars PROVE LoopInv'
  OBVIOUS
<1>1. ASSUME NEW t \in Setters, SetterNext(t) PROVE LoopInv'
  BY <1>1, LoopSet DEF Threads
<1>2. ASSUME NEW t \in Admins, AdminNext(t) PROVE LoopInv'
  <2>1. t \in Threads
    BY DEF Threads
  <2>2. CASE addListener(t)
    BY <2>1, <2>2, LoopAdd
  <2>3. CASE delListener(t)
    BY <2>1, <2>3, LoopErase DEF delListener
  <2>4. CASE clearListener(t)
    BY <2>1, <2>4, LoopErase DEF clearListener
  <2> QED
    BY <1>2, <2>1, <2>2, <2>3, <2>4, LoopCall DEF AdminNext
<1>3. CASE UNCHANGED vars
  BY <1>3
  DEF vars, cbVars, lockVars, callVars, LoopInv, LoopTypes, LockInv, ReadsHeld, FramesHeld,
      NoFrames, WritesHeld, Exclusive, LoopsInv, Hold
<1> QED
  BY <1>1, <1>2, <1>3 DEF Next, Finished

(***************************************************************************)
(* No thread that registers or removes listeners invalidates the iterator  *)
(* of a setValue that is calling them, or that waits for a listener that   *)
(* sets other variables, however many threads and variables there are.     *)
(***************************************************************************)
THEOREM LoopsStable == Spec => []IterationStable
<1>1. LoopInv => IterationStable
  <2>1. ASSUME LoopTypes, NEW t \in Threads PROVE DOMAIN stack[t] = 1..Len(stack[t])
    BY <2>1 DEF LoopTypes
  <2> QED
    BY <2>1 DEF LoopInv, LoopsInv, IterationStable, Loops
<1> QED
  BY LoopInit, LoopStep, <1>1, PTL DEF Spec

-----------------------------------------------------------------------------
(***************************************************************************)
(* Keys.  The write lock of a variable keeps apart the threads that        *)
(* register listeners with it, and as long as nothing has raced no two     *)
(* threads that register with different variables are between reading      *)
(* s_fun_id and their return.  So one thread at a time counts it up, and   *)
(* each key is newer than all others.                                      *)
(***************************************************************************)
OneCounting ==
    \A t, u \in Threads : pc[t] \in Counting /\ pc[u] \in Counting => t = u

Handle == [var : Vars, key : Nat, cb : Cbs]

\* The registrations of a thread, the one it is about to remove included.
Regs(t) == handles[t] \cup
    (IF pc[t] = "del" THEN {[var |-> var[t], key |-> reg[t], cb |-> cb[t]]} ELSE {})

KeyTypes ==
    /\ used \subseteq Cbs
    /\ \A t \in Threads : Regs(t) \subseteq Handle
    /\ dead \in [Vars -> SUBSET (used \cup {EarlyCb})]

\* What is in m_cbs has an old key, was registered, and was not removed.
Listed == \A x \in Vars : \A k \in DOMAIN m_cbs[x] :
    /\ k <= s_fun_id
    /\ m_cbs[x][k] \in used \cup {EarlyCb}
    /\ m_cbs[x][k] \notin dead[x]

\* A registration has a key of its own, and its callback that key only.
KnownAs(h) ==
    /\ h.key <= s_fun_id
    /\ h.cb \in used
    /\ h.cb \notin dead[h.var] =>
        h.key \in DOMAIN m_cbs[h.var] /\ m_cbs[h.var][h.key] = h.cb
    /\ \A k \in DOMAIN m_cbs[h.var] : m_cbs[h.var][k] = h.cb => k = h.key
    /\ \A u \in Threads : \A g \in Regs(u) : g.key = h.key => g.cb = h.cb
Known == \A t \in Threads : \A h \in Regs(t) : KnownAs(h)

\* The callback a thread is about to register is nobody else's.
Pending == {"add"} \cup Counting
Fresh(t) == pc[t] \in Pending =>
    /\ cb[t] \in used
    /\ \A u \in Threads : \A h \in Regs(u) : h.cb # cb[t]
    /\ \A u \in Threads \ {t} : pc[u] \in Pending => cb[u] # cb[t]
    /\ pc[t] # "addReturn" =>
        /\ cb[t] \notin dead[var[t]]
        /\ \A k \in DOMAIN m_cbs[var[t]] : m_cbs[var[t]][k] # cb[t]

\* The thread that counts up s_fun_id.
Adding(t) ==
    /\ pc[t] = "addStore" => reg[t] = s_fun_id
    /\ pc[t] \in {"addInsert", "addReturn"} =>
        \A u \in Threads : \A h \in Regs(u) : h.key < s_fun_id
    /\ pc[t] = "addInsert" => \A k \in DOMAIN m_cbs[var[t]] : k < s_fun_id
    /\ pc[t] = "addReturn" =>
        /\ s_fun_id \in DOMAIN m_cbs[var[t]] /\ m_cbs[var[t]][s_fun_id] = cb[t]
        /\ \A k \in DOMAIN m_cbs[var[t]] : m_cbs[var[t]][k] = cb[t] => k = s_fun_id

KeysInv ==
    OneCounting /\ KeyTypes /\ Listed /\ Known /\ \A t \in Threads : Fresh(t) /\ Adding(t)

KeyInv == LoopInv /\ (~raced => KeysInv)

\* A variable whose write lock is free is none that a thread registers with.
LEMMA NoAdder ==
    ASSUME LoopInv, NEW x, CanWrite(x), NEW t \in Threads, pc[t] \in Counting
    PROVE  var[t] # x
BY ConfigVarAssumption DEF LoopInv, LockInv, WritesHeld, CanWrite

\* Before any call no key is known.
LEMMA KeyInit == Init => KeyInv
<1> SUFFICES ASSUME Init PROVE KeysInv
  BY LoopInit DEF KeyInv
<1>1. Cardinality(Vars) \in Nat
  BY ConfigVarAssumption, FS_CardinalityType
<1>2. PICK key \in [Vars -> 1..Cardinality(Vars)] :
        m_cbs = [x \in Vars |-> [k \in {key[x]} |-> EarlyCb]]
  BY DEF Init, Injection
<1>3. \A t \in Threads : Regs(t) = {} /\ pc[t] = "idle" BY DEF Init, Regs
<1>4. KeyTypes BY <1>3 DEF Init, KeyTypes
<1>5. Listed
  <2> SUFFICES ASSUME NEW x \in Vars, NEW k \in DOMAIN m_cbs[x]
               PROVE  k <= s_fun_id /\ m_cbs[x][k] = EarlyCb /\ dead[x] = {}
    BY DEF Listed
  <2>1. k = key[x] /\ key[x] \in 1..Cardinality(Vars) /\ m_cbs[x][k] = EarlyCb
    BY <1>2
  <2> QED BY <1>1, <2>1 DEF Init
<1>6. /\ OneCounting /\ Known /\ \A t \in Threads : Fresh(t) /\ Adding(t)
  BY <1>3 DEF OneCounting, Known, Fresh, Adding, Pending, Counting
<1> QED BY <1>4, <1>5, <1>6 DEF KeysInv

\* A step that changes no listener, and nothing of a thread that registers one
\* or removes its own.
LEMMA KeyFrame ==
    ASSUME KeysInv, UNCHANGED <<m_cbs, s_fun_id, handles, dead, used>>,
           \A u \in Threads : pc'[u] \in Pending \cup {"del"} =>
               pc'[u] = pc[u] /\ var'[u] = var[u] /\ cb'[u] = cb[u] /\ reg'[u] = reg[u]
    PROVE  KeysInv'
<1>1. \A u \in Threads : Regs(u)' \subseteq Regs(u) BY DEF Regs
<1>2. KeyTypes' /\ Listed' BY <1>1 DEF KeysInv, KeyTypes, Listed
<1>3. Known'
  <2> SUFFICES ASSUME NEW t \in Threads, NEW h \in Regs(t)' PROVE KnownAs(h)'
    BY DEF Known
  <2>1. KnownAs(h) BY <1>1 DEF KeysInv, Known
  <2> QED BY <1>1, <2>1 DEF KnownAs
<1>4. \A t \in Threads : Fresh(t)' BY <1>1 DEF KeysInv, Fresh, Pending
<1>5. \A t \in Threads : Adding(t)' BY <1>1 DEF KeysInv, Adding, Pending, Counting
<1>6. OneCounting' BY DEF KeysInv, OneCounting, Pending
<1> QED BY <1>2, <1>3, <1>4, <1>5, <1>6 DEF KeysInv

\* A thread is about to register a callback nobody registered.
LEMMA KeyAddCall ==
    ASSUME KeysInv, LoopInv, NEW t \in Threads, NEW x \in Listened, NEW c \in Cbs,
           AddCall(t, x, c)
    PROVE  KeysInv'
<1>1. /\ pc[t] = "idle" /\ pc' = [pc EXCEPT ![t] = "add"] /\ var' = [var EXCEPT ![t] = x]
      /\ cb' = [cb EXCEPT ![t] = c] /\ used' = used \cup {c} /\ c \notin used
      /\ UNCHANGED <<m_cbs, s_fun_id, handles, dead, reg>>
  BY DEF AddCall, Call, Goto
<1>2. /\ pc'[t] = "add" /\ var'[t] = x /\ cb'[t] = c
      /\ \A u \in Threads \ {t} : pc'[u] = pc[u] /\ var'[u] = var[u] /\ cb'[u] = cb[u]
  BY <1>1 DEF LoopInv, LoopTypes
<1>3. \A u \in Threads : Regs(u)' = Regs(u) BY <1>1, <1>2 DEF Regs
<1>4. KeyTypes' /\ Listed' BY <1>1, <1>3 DEF KeysInv, KeyTypes, Listed
<1>5. Known'
  <2> SUFFICES ASSUME NEW u \in Threads, NEW h \in Regs(u)' PROVE KnownAs(h)'
    BY DEF Known
  <2>1. KnownAs(h) BY <1>3 DEF KeysInv, Known
  <2> QED BY <1>1, <1>3, <2>1 DEF KnownAs
<1>6. Fresh(t)'
  <2>1. c # EarlyCb /\ x \in Vars BY ConfigVarAssumption
  <2>2. c \notin dead[x] BY <1>1, <2>1 DEF KeysInv, KeyTypes
  <2>3. \A k \in DOMAIN m_cbs[x] : m_cbs[x][k] # c BY <1>1, <2>1 DEF KeysInv, Listed
  <2>4. \A u \in Threads : \A h \in Regs(u) : h.cb # c
    BY <1>1 DEF KeysInv, Known, KnownAs
  <2>5. \A u \in Threads \ {t} : pc'[u] \in Pending => cb'[u] # c
    BY <1>1, <1>2 DEF KeysInv, Fresh
  <2> QED BY <1>1, <1>2, <1>3, <2>2, <2>3, <2>4, <2>5 DEF Fresh
<1>7. ASSUME NEW u \in Threads \ {t} PROVE Fresh(u)'
  <2> SUFFICES ASSUME pc[u] \in Pending PROVE Fresh(u)'
    BY <1>2 DEF Fresh
  <2>1. cb[u] \in used BY DEF KeysInv, Fresh
  <2>2. Fresh(u) BY DEF KeysInv
  <2> QED BY <1>1, <1>2, <1>3, <2>1, <2>2 DEF Fresh
<1>8. \A u \in Threads : Adding(u)'
  BY <1>1, <1>2, <1>3 DEF KeysInv, Adding
<1>9. OneCounting' BY <1>2 DEF KeysInv, OneCounting, Counting
<1> QED BY <1>4, <1>5, <1>6, <1>7, <1>8, <1>9 DEF KeysInv

\* A thread is about to remove its listener.
LEMMA KeyDelCall ==
    ASSUME KeysInv, LoopInv, NEW t \in Threads, NEW h \in handles[t], DelCall(t, h)
    PROVE  KeysInv'
<1>1. /\ pc[t] = "idle" /\ pc' = [pc EXCEPT ![t] = "del"]
      /\ var' = [var EXCEPT ![t] = h.var]
      /\ cb' = [cb EXCEPT ![t] = h.cb] /\ reg' = [reg EXCEPT ![t] = h.key]
      /\ handles' = [handles EXCEPT ![t] = handles[t] \ {h}]
      /\ UNCHANGED <<m_cbs, s_fun_id, dead, used>>
  BY DEF DelCall, Call, Goto
<1>2. /\ pc'[t] = "del" /\ var'[t] = h.var /\ cb'[t] = h.cb /\ reg'[t] = h.key
      /\ handles'[t] = handles[t] \ {h}
      /\ \A u \in Threads \ {t} : /\ pc'[u] = pc[u] /\ var'[u] = var[u] /\ cb'[u] = cb[u]
                                  /\ reg'[u] = reg[u] /\ handles'[u] = handles[u]
  BY <1>1 DEF LoopInv, LoopTypes
<1>3. \A u \in Threads : Regs(u)' = Regs(u)
  <2>1. h \in [var : Vars, key : Nat, cb : Callbacks] BY DEF LoopInv, LoopTypes
  <2>2. h = [var |-> h.var, key |-> h.key, cb |-> h.cb] BY <2>1
  <2>3. Regs(t)' = Regs(t) BY <1>1, <1>2, <2>2 DEF Regs
  <2> QED BY <1>2, <2>3 DEF Regs
<1>4. KeyTypes' /\ Listed' BY <1>1, <1>3 DEF KeysInv, KeyTypes, Listed
<1>5. Known'
  <2> SUFFICES ASSUME NEW u \in Threads, NEW g \in Regs(u)' PROVE KnownAs(g)'
    BY DEF Known
  <2>1. KnownAs(g) BY <1>3 DEF KeysInv, Known
  <2> QED BY <1>1, <1>3, <2>1 DEF KnownAs
<1>6. \A u \in Threads : Fresh(u)'
  BY <1>1, <1>2, <1>3 DEF KeysInv, Fresh, Pending, Counting
<1>7. \A u \in Threads : Adding(u)' BY <1>1, <1>2, <1>3 DEF KeysInv, Adding
<1>8. OneCounting' BY <1>2 DEF KeysInv, OneCounting, Counting
<1> QED BY <1>4, <1>5, <1>6, <1>7, <1>8 DEF KeysInv

\* Listeners leave m_cbs: what is left was there, and what left is dead.
LEMMA KeyErase ==
    ASSUME KeysInv, LoopInv, NEW t \in Threads, NEW x \in Vars, NEW D, CanWrite(x),
           pc[t] \in {"del", "clear"}, Leave(t), UNCHANGED <<s_fun_id, handles, used>>,
           DOMAIN m_cbs' = Vars,
           DOMAIN m_cbs'[x] \subseteq DOMAIN m_cbs[x],
           \A k \in DOMAIN m_cbs'[x] : m_cbs'[x][k] = m_cbs[x][k] /\ m_cbs[x][k] \notin D,
           \A y \in Vars \ {x} : m_cbs'[y] = m_cbs[y],
           dead' = [dead EXCEPT ![x] = dead[x] \cup D],
           D \subseteq used \cup {EarlyCb},
           \A u \in Threads : \A h \in Regs(u) :
                h.var = x /\ h.key \in DOMAIN m_cbs[x] \ DOMAIN m_cbs'[x]
                    => h.cb \in dead[x] \cup D,
           \A u \in Threads : pc[u] \in Pending /\ var[u] = x => cb[u] \notin D
    PROVE  KeysInv'
<1>1. /\ pc'[t] = "idle"
      /\ \A u \in Threads \ {t} : /\ pc'[u] = pc[u] /\ var'[u] = var[u]
                                  /\ cb'[u] = cb[u] /\ reg'[u] = reg[u]
  BY LeaveTypes DEF LoopInv
<1>2. \A u \in Threads : Regs(u)' \subseteq Regs(u) BY <1>1 DEF Regs
<1>3. /\ dead'[x] = dead[x] \cup D /\ \A y \in Vars \ {x} : dead'[y] = dead[y]
      /\ dead' \in [Vars -> SUBSET (used \cup {EarlyCb})]
  BY DEF KeysInv, KeyTypes
<1>4. KeyTypes' BY <1>2, <1>3 DEF KeysInv, KeyTypes
<1>5. Listed'
  <2> SUFFICES ASSUME NEW y \in Vars, NEW k \in DOMAIN m_cbs'[y]
               PROVE  /\ k <= s_fun_id /\ m_cbs'[y][k] \in used \cup {EarlyCb}
                      /\ m_cbs'[y][k] \notin dead'[y]
    BY DEF Listed
  <2>1. k \in DOMAIN m_cbs[y] /\ m_cbs'[y][k] = m_cbs[y][k] OBVIOUS
  <2>2. m_cbs[y][k] \notin dead'[y] BY <1>3, <2>1 DEF KeysInv, Listed
  <2> QED BY <2>1, <2>2 DEF KeysInv, Listed
<1>6. Known'
  <2> SUFFICES ASSUME NEW u \in Threads, NEW h \in Regs(u)' PROVE KnownAs(h)'
    BY DEF Known
  <2>1. h \in Regs(u) /\ h.var \in Vars BY <1>2 DEF KeysInv, KeyTypes, Handle
  <2>2. KnownAs(h) BY <2>1 DEF KeysInv, Known
  <2>3. h.cb \notin dead'[h.var] =>
           h.key \in DOMAIN m_cbs'[h.var] /\ m_cbs'[h.var][h.key] = h.cb
    <3>1. CASE h.var = x BY <1>3, <2>1, <2>2, <3>1 DEF KnownAs
    <3>2. CASE h.var # x BY <1>3, <2>1, <2>2, <3>2 DEF KnownAs
    <3> QED BY <3>1, <3>2
  <2>4. \A k \in DOMAIN m_cbs'[h.var] : m_cbs'[h.var][k] = h.cb => k = h.key
    BY <2>1, <2>2 DEF KnownAs
  <2>5. \A v \in Threads : \A g \in Regs(v)' : g.key = h.key => g.cb = h.cb
    BY <1>2, <2>2 DEF KnownAs
  <2> QED BY <2>2, <2>3, <2>4, <2>5 DEF KnownAs
<1>7. ASSUME NEW u \in Threads, pc'[u] \in Pending PROVE Fresh(u)' /\ Adding(u)'
  <2>1. u # t /\ pc[u] \in Pending BY <1>1, <1>7 DEF Pending, Counting
  <2>2. pc'[u] = pc[u] /\ var'[u] = var[u] /\ cb'[u] = cb[u] /\ reg'[u] = reg[u]
    BY <1>1, <2>1
  <2>3. Fresh(u) /\ Adding(u) BY DEF KeysInv
  <2>4. PICK y \in Vars : y = var[u] BY DEF LoopInv, LoopTypes
  <2>5. cb[u] \notin dead[y] => cb[u] \notin dead'[y] BY <1>3, <2>1, <2>4
  <2>6. /\ DOMAIN m_cbs'[y] \subseteq DOMAIN m_cbs[y]
        /\ \A k \in DOMAIN m_cbs'[y] : m_cbs'[y][k] = m_cbs[y][k]
    OBVIOUS
  <2>7. \A v \in Threads \ {u} : pc'[v] \in Pending => cb'[v] # cb[u]
    BY <1>1, <2>1, <2>3 DEF Fresh, Pending, Counting
  <2>8. Fresh(u)' BY <1>2, <2>1, <2>2, <2>3, <2>4, <2>5, <2>6, <2>7 DEF Fresh
  <2>9. pc[u] \in Counting => m_cbs'[y] = m_cbs[y] BY <2>4, NoAdder
  <2>10. Adding(u)' BY <1>2, <2>2, <2>3, <2>4, <2>9 DEF Adding, Counting
  <2> QED BY <2>8, <2>10
<1>8. \A u \in Threads : Fresh(u)' /\ Adding(u)' BY <1>7 DEF Fresh, Adding, Pending, Counting
<1>9. OneCounting' BY <1>1 DEF KeysInv, OneCounting, Counting
<1> QED BY <1>4, <1>5, <1>6, <1>8, <1>9 DEF KeysInv

\* addListener, from the lock to the return.
LEMMA KeyAdd ==
    ASSUME KeysInv, LoopInv, NEW t \in Threads, addListener(t), ~raced'
    PROVE  KeysInv'
<1> USE DEF KeysInv
<1>1. CASE AddLoad(t)
  <2>1. /\ pc[t] = "add" /\ CanWrite(var[t]) /\ pc' = [pc EXCEPT ![t] = "addStore"]
        /\ reg' = [reg EXCEPT ![t] = s_fun_id]
        /\ ~\E u \in Threads : pc[u] \in Counting /\ var[u] # var[t]
        /\ UNCHANGED <<m_cbs, s_fun_id, handles, dead, used, var, cb>>
    BY <1>1 DEF AddLoad, Goto
  <2>2. /\ pc'[t] = "addStore" /\ reg'[t] = s_fun_id
        /\ \A u \in Threads \ {t} : pc'[u] = pc[u] /\ reg'[u] = reg[u]
    BY <2>1 DEF LoopInv, LoopTypes
  <2>3. \A u \in Threads : pc[u] \notin Counting BY <2>1, NoAdder
  <2>4. OneCounting' BY <2>2, <2>3 DEF OneCounting
  <2>5. \A u \in Threads : Regs(u)' = Regs(u) BY <2>1, <2>2 DEF Regs
  <2>6. KeyTypes' /\ Listed' BY <2>1, <2>5 DEF KeyTypes, Listed
  <2>7. Known' BY <2>1, <2>5 DEF Known, KnownAs
  <2>8. \A u \in Threads : Fresh(u)'
    BY <2>1, <2>2, <2>5 DEF Fresh, Pending, Counting
  <2>9. \A u \in Threads : Adding(u)' BY <2>1, <2>2, <2>3 DEF Adding, Counting
  <2> QED BY <2>4, <2>6, <2>7, <2>8, <2>9
<1>2. CASE AddStore(t)
  <2>1. /\ pc[t] = "addStore" /\ pc' = [pc EXCEPT ![t] = "addInsert"]
        /\ s_fun_id' = s_fun_id + 1 /\ s_fun_id \in Nat
        /\ UNCHANGED <<m_cbs, handles, dead, used, cb, var, reg>>
    BY <1>2 DEF AddStore, Goto, Adding, callVars, LoopInv, LoopTypes
  <2>2. pc'[t] = "addInsert" /\ \A u \in Threads \ {t} : pc'[u] = pc[u]
    BY <2>1 DEF LoopInv, LoopTypes
  <2>3. \A u \in Threads \ {t} : pc[u] \notin Counting BY <2>1 DEF OneCounting, Counting
  <2>4. OneCounting' BY <2>2, <2>3 DEF OneCounting
  <2>5. \A u \in Threads : Regs(u)' = Regs(u) BY <2>1, <2>2 DEF Regs
  <2>6. \A x \in Vars : DOMAIN m_cbs[x] \subseteq Nat BY DEF LoopInv, LoopTypes
  <2>7. \A u \in Threads : \A h \in Regs(u) : h.key \in Nat BY DEF KeyTypes, Handle
  <2>8. KeyTypes' BY <2>1, <2>5 DEF KeyTypes
  <2>9. Listed' BY <2>1, <2>6 DEF Listed
  <2>10. Known' BY <2>1, <2>5, <2>7 DEF Known, KnownAs
  <2>11. \A u \in Threads : Fresh(u)' BY <2>1, <2>2, <2>5 DEF Fresh, Pending, Counting
  <2>12. \A k \in DOMAIN m_cbs[var[t]] : k < s_fun_id'
    BY <2>1, <2>6 DEF Listed, LoopInv, LoopTypes
  <2>13. \A u \in Threads : \A h \in Regs(u) : h.key < s_fun_id'
    BY <2>1, <2>7 DEF Known, KnownAs
  <2>14. \A u \in Threads : Adding(u)'
    BY <2>1, <2>2, <2>3, <2>5, <2>12, <2>13 DEF Adding, Counting
  <2> QED BY <2>4, <2>8, <2>9, <2>10, <2>11, <2>14
<1>3. CASE AddInsert(t)
  <2>0. PICK x \in Vars : x = var[t] BY DEF LoopInv, LoopTypes
  <2> DEFINE m == m_cbs[x]
  <2>1. /\ pc[t] = "addInsert" /\ pc' = [pc EXCEPT ![t] = "addReturn"]
        /\ m_cbs' = [m_cbs EXCEPT ![x] = [k \in DOMAIN m \cup {s_fun_id} |->
                        IF k = s_fun_id THEN cb[t] ELSE m[k]]]
        /\ UNCHANGED <<s_fun_id, handles, dead, used, cb, var, reg>>
    BY <1>3, <2>0 DEF AddInsert, Goto, callVars
  <2>2. /\ pc'[t] = "addReturn" /\ s_fun_id \in Nat
        /\ \A u \in Threads \ {t} : pc'[u] = pc[u]
    BY <2>1 DEF LoopInv, LoopTypes
  <2>3. \A u \in Threads \ {t} : pc[u] \notin Counting BY <2>1 DEF OneCounting, Counting
  <2>4. OneCounting' BY <2>2, <2>3 DEF OneCounting
  <2>5. \A u \in Threads : Regs(u)' = Regs(u) BY <2>1, <2>2 DEF Regs
  <2>6. /\ DOMAIN m_cbs'[x] = DOMAIN m \cup {s_fun_id}
        /\ m_cbs'[x][s_fun_id] = cb[t]
        /\ \A k \in DOMAIN m : m_cbs'[x][k] = m[k] /\ k # s_fun_id
        /\ \A y \in Vars \ {x} : m_cbs'[y] = m_cbs[y]
    <3>1. \A k \in DOMAIN m : k < s_fun_id /\ k \in Nat
      BY <2>0, <2>1 DEF Adding, LoopInv, LoopTypes
    <3>2. s_fun_id \notin DOMAIN m BY <2>2, <3>1
    <3>3. DOMAIN m_cbs = Vars BY DEF LoopInv, LoopTypes
    <3> QED BY <2>1, <3>2, <3>3
  <2>7. KeyTypes' BY <2>1, <2>5 DEF KeyTypes
  <2>8. /\ cb[t] \in used /\ cb[t] \notin dead[x] /\ \A k \in DOMAIN m : m[k] # cb[t]
        /\ \A u \in Threads : \A h \in Regs(u) : h.cb # cb[t]
        /\ \A u \in Threads \ {t} : pc[u] \in Pending => cb[u] # cb[t]
    BY <2>0, <2>1 DEF Fresh, Pending, Counting
  <2>9. Listed' BY <2>1, <2>2, <2>6, <2>8 DEF Listed
  <2>10. Known'
    <3> SUFFICES ASSUME NEW u \in Threads, NEW h \in Regs(u)' PROVE KnownAs(h)'
      BY DEF Known
    <3>1. h \in Regs(u) /\ KnownAs(h) /\ h.var \in Vars
      BY <2>5 DEF Known, KeyTypes, Handle
    <3>2. h.cb # cb[t] BY <2>8, <3>1
    <3>3. h.cb \notin dead[h.var] =>
             h.key \in DOMAIN m_cbs'[h.var] /\ m_cbs'[h.var][h.key] = h.cb
      BY <2>6, <3>1 DEF KnownAs
    <3>4. \A k \in DOMAIN m_cbs'[h.var] : m_cbs'[h.var][k] = h.cb => k = h.key
      BY <2>6, <3>1, <3>2 DEF KnownAs
    <3> QED BY <2>1, <2>5, <3>1, <3>3, <3>4 DEF KnownAs
  <2>11. Fresh(t)'
    BY <2>1, <2>2, <2>5, <2>8 DEF Fresh
  <2>12. ASSUME NEW u \in Threads \ {t}, pc[u] \in Pending PROVE Fresh(u)'
    <3>1. PICK y \in Vars : y = var[u] BY DEF LoopInv, LoopTypes
    <3>2. Fresh(u) /\ cb[u] # cb[t] /\ pc[u] # "addReturn"
      BY <2>3, <2>8, <2>12 DEF Counting
    <3>3. \A k \in DOMAIN m_cbs'[y] : m_cbs'[y][k] # cb[u]
      BY <2>6, <2>12, <3>1, <3>2 DEF Fresh
    <3>4. \A v \in Threads \ {u} : pc'[v] \in Pending => cb[v] # cb[u]
      BY <2>1, <2>2, <2>12, <3>2 DEF Fresh, Pending, Counting
    <3> QED BY <2>1, <2>2, <2>5, <2>12, <3>1, <3>2, <3>3, <3>4 DEF Fresh
  <2>13. \A u \in Threads : Fresh(u)' BY <2>2, <2>11, <2>12 DEF Fresh
  <2>14. \A u \in Threads : Adding(u)'
    <3>1. Adding(t)' BY <2>0, <2>1, <2>2, <2>5, <2>6, <2>8 DEF Adding
    <3> QED BY <2>2, <2>3, <3>1 DEF Adding, Counting
  <2> QED BY <2>4, <2>7, <2>9, <2>10, <2>13, <2>14
<1>4. CASE AddReturn(t)
  <2> DEFINE n == [var |-> var[t], key |-> s_fun_id, cb |-> cb[t]]
  <2>1. /\ pc[t] = "addReturn" /\ Leave(t)
        /\ handles' = [handles EXCEPT ![t] = handles[t] \cup {n}]
        /\ UNCHANGED <<m_cbs, s_fun_id, dead, used>>
    BY <1>4 DEF AddReturn
  <2>2. /\ n \in Handle /\ n.var = var[t] /\ n.key = s_fun_id /\ n.cb = cb[t]
        /\ s_fun_id \in Nat /\ cb[t] \in used
        /\ \A u \in Threads \ {t} : pc[u] \in Pending => cb[u] # cb[t]
    BY <2>1 DEF Fresh, Pending, Counting, Handle, KeyTypes, LoopInv, LoopTypes
  <2>3. /\ s_fun_id \in DOMAIN m_cbs[var[t]] /\ m_cbs[var[t]][s_fun_id] = cb[t]
        /\ \A k \in DOMAIN m_cbs[var[t]] : m_cbs[var[t]][k] = cb[t] => k = s_fun_id
        /\ \A u \in Threads : \A h \in Regs(u) : h.key < s_fun_id
    BY <2>1 DEF Adding
  <2> HIDE DEF n
  <2>4. /\ pc'[t] = "idle"
        /\ \A u \in Threads \ {t} : /\ pc'[u] = pc[u] /\ var'[u] = var[u]
                                    /\ cb'[u] = cb[u] /\ reg'[u] = reg[u]
    BY <2>1, LeaveTypes DEF LoopInv
  <2>5. \A u \in Threads : pc'[u] \notin Counting
    BY <2>1, <2>4 DEF OneCounting, Counting
  <2>6. \A u \in Threads : \A h \in Regs(u)' : h = n \/ h \in Regs(u)
    BY <2>1, <2>4 DEF Regs, LoopInv, LoopTypes
  <2>7. \A u \in Threads : \A h \in Regs(u) : h.key # s_fun_id
    BY <2>2, <2>3 DEF KeyTypes, Handle
  <2>8. KeyTypes' BY <2>1, <2>2, <2>6 DEF KeyTypes
  <2>9. Listed' BY <2>1 DEF Listed
  <2>10. Known'
    <3> SUFFICES ASSUME NEW u \in Threads, NEW h \in Regs(u)' PROVE KnownAs(h)'
      BY DEF Known
    <3>1. CASE h = n BY <2>1, <2>2, <2>3, <2>6, <2>7, <3>1 DEF KnownAs
    <3>2. CASE h \in Regs(u)
      <4>1. KnownAs(h) BY <3>2 DEF Known
      <4>2. \A v \in Threads : \A g \in Regs(v)' : g.key = h.key => g.cb = h.cb
        BY <2>2, <2>6, <2>7, <3>2, <4>1 DEF KnownAs
      <4> QED BY <2>1, <4>1, <4>2 DEF KnownAs
    <3> QED BY <2>6, <3>1, <3>2
  <2>11. ASSUME NEW u \in Threads, pc'[u] \in Pending PROVE Fresh(u)'
    <3>1. u # t /\ pc[u] \in Pending /\ pc'[u] = pc[u] /\ var'[u] = var[u] /\ cb'[u] = cb[u]
      BY <2>4, <2>11 DEF Pending, Counting
    <3>2. Fresh(u) /\ cb[u] # cb[t] BY <2>2, <3>1
    <3>3. \A v \in Threads : \A h \in Regs(v)' : h.cb # cb[u]
      BY <2>2, <2>6, <3>1, <3>2 DEF Fresh
    <3>4. \A v \in Threads \ {u} : pc'[v] \in Pending => cb'[v] # cb[u]
      BY <2>4, <3>1, <3>2 DEF Fresh, Pending, Counting
    <3> QED BY <2>1, <3>1, <3>2, <3>3, <3>4 DEF Fresh
  <2>12. \A u \in Threads : Fresh(u)' BY <2>11 DEF Fresh
  <2>13. OneCounting' /\ \A u \in Threads : Adding(u)'
    BY <2>5 DEF OneCounting, Adding, Counting
  <2> QED BY <2>8, <2>9, <2>10, <2>12, <2>13
<1> QED BY <1>1, <1>2, <1>3, <1>4 DEF addListener

\* delListener has the lock.
LEMMA KeyDel ==
    ASSUME KeysInv, LoopInv, NEW t \in Threads, delListener(t)
    PROVE  KeysInv'
<1>1. PICK x \in Vars : x = var[t] BY DEF LoopInv, LoopTypes
<1> DEFINE h == [var |-> x, key |-> reg[t], cb |-> cb[t]]
<1>2. /\ pc[t] = "del" /\ CanWrite(x) /\ Leave(t)
      /\ m_cbs' = [m_cbs EXCEPT ![x] = Restrict(m_cbs[x], DOMAIN m_cbs[x] \ {reg[t]})]
      /\ dead' = [dead EXCEPT ![x] = dead[x] \cup {cb[t]}]
      /\ UNCHANGED <<s_fun_id, handles, used>>
  BY <1>1 DEF delListener, Erase
<1>3. h \in Regs(t) /\ h.var = x /\ h.key = reg[t] /\ h.cb = cb[t] BY <1>1, <1>2 DEF Regs
<1> HIDE DEF h
<1>4. KnownAs(h) /\ DOMAIN m_cbs = Vars BY <1>3 DEF KeysInv, Known, LoopInv, LoopTypes
<1>5. /\ DOMAIN m_cbs' = Vars /\ DOMAIN m_cbs'[x] = DOMAIN m_cbs[x] \ {reg[t]}
      /\ \A k \in DOMAIN m_cbs'[x] : m_cbs'[x][k] = m_cbs[x][k]
      /\ \A y \in Vars \ {x} : m_cbs'[y] = m_cbs[y]
  BY <1>2, <1>4 DEF Restrict
<1>6. \A k \in DOMAIN m_cbs'[x] : m_cbs[x][k] \notin {cb[t]}
  BY <1>3, <1>4, <1>5 DEF KnownAs
<1>7. \A u \in Threads : \A g \in Regs(u) :
         g.var = x /\ g.key \in DOMAIN m_cbs[x] \ DOMAIN m_cbs'[x] => g.cb \in dead[x] \cup {cb[t]}
  BY <1>3, <1>4, <1>5 DEF KnownAs
<1>8. \A u \in Threads : pc[u] \in Pending /\ var[u] = x => cb[u] \notin {cb[t]}
  BY <1>3 DEF KeysInv, Fresh
<1>9. {cb[t]} \subseteq used \cup {EarlyCb} BY <1>3, <1>4 DEF KnownAs
<1>10. /\ DOMAIN m_cbs'[x] \subseteq DOMAIN m_cbs[x]
       /\ \A k \in DOMAIN m_cbs'[x] : m_cbs'[x][k] = m_cbs[x][k] /\ m_cbs[x][k] \notin {cb[t]}
  BY <1>5, <1>6
<1> QED BY <1>2, <1>5, <1>7, <1>8, <1>9, <1>10, KeyErase

\* clearListener has the lock.
LEMMA KeyClear ==
    ASSUME KeysInv, LoopInv, NEW t \in Threads, clearListener(t)
    PROVE  KeysInv'
<1>1. PICK x \in Vars : x = var[t] BY DEF LoopInv, LoopTypes
<1> DEFINE D == Range(m_cbs[x])
<1>2. /\ pc[t] = "clear" /\ CanWrite(x) /\ Leave(t)
      /\ m_cbs' = [m_cbs EXCEPT ![x] = Restrict(m_cbs[x], DOMAIN m_cbs[x] \ DOMAIN m_cbs[x])]
      /\ dead' = [dead EXCEPT ![x] = dead[x] \cup D]
      /\ UNCHANGED <<s_fun_id, handles, used>>
  BY <1>1 DEF clearListener, Erase
<1>3. DOMAIN m_cbs = Vars BY DEF LoopInv, LoopTypes
<1>4. /\ DOMAIN m_cbs' = Vars /\ DOMAIN m_cbs'[x] = {}
      /\ \A y \in Vars \ {x} : m_cbs'[y] = m_cbs[y]
  BY <1>2, <1>3 DEF Restrict
<1>5. D \subseteq used \cup {EarlyCb} BY DEF Range, KeysInv, Listed
<1>6. \A u \in Threads : \A g \in Regs(u) :
         g.var = x /\ g.key \in DOMAIN m_cbs[x] \ DOMAIN m_cbs'[x] => g.cb \in dead[x] \cup D
  BY DEF KeysInv, Known, KnownAs, Range
<1>7. ASSUME NEW u \in Threads, pc[u] \in Pending, var[u] = x PROVE cb[u] \notin D
  <2>1. pc[u] # "addReturn" BY <1>2, <1>7, NoAdder DEF Counting
  <2> QED BY <1>7, <2>1 DEF KeysInv, Fresh, Range
<1> HIDE DEF D
<1>8. /\ DOMAIN m_cbs'[x] \subseteq DOMAIN m_cbs[x]
      /\ \A k \in DOMAIN m_cbs'[x] : m_cbs'[x][k] = m_cbs[x][k] /\ m_cbs[x][k] \notin D
  BY <1>4
<1> QED BY <1>2, <1>4, <1>5, <1>6, <1>7, <1>8, KeyErase

\* Every step keeps what is known of keys.
LEMMA KeyStep == KeyInv /\ [Next]_vars => KeyInv'
<1> SUFFICES ASSUME KeyInv, [Next]_vars, ~raced' PROVE KeysInv'
  BY LoopStep DEF KeyInv
<1>0. LoopInv /\ LoopTypes BY DEF KeyInv, LoopInv
<1>1. ASSUME NEW t \in Setters, SetterNext(t) PROVE KeysInv'
  <2>1. /\ UNCHANGED <<m_cbs, s_fun_id, handles, dead, used, raced>>
        /\ pc[t] \in {"idle", "set", "notify", "write"} /\ t \in Threads
    BY <1>1
    DEF SetterNext, SetCall, Call, setValue, SetBegin, SetSame, Notify, NotifyForward,
        NotifyThrows, SetUnlock, SetWrite, cbVars, Threads
  <2>2. \/ Leave(t)
        \/ /\ UNCHANGED pc \/ \E w \in {"set", "notify", "write"} : pc' = [pc EXCEPT ![t] = w]
           /\ UNCHANGED var \/ \E x : var' = [var EXCEPT ![t] = x]
           /\ UNCHANGED <<cb, reg>>
    <3>1. ASSUME NEW x \in Inputs, NEW v \in Values, SetCall(t, x, v)
          PROVE  /\ pc' = [pc EXCEPT ![t] = "set"] /\ var' = [var EXCEPT ![t] = x]
                 /\ UNCHANGED <<cb, reg>>
      BY <3>1 DEF SetCall, Call, Goto
    <3>2. CASE SetBegin(t) \/ Notify(t) \/ NotifyForward(t) \/ SetUnlock(t)
      BY <3>2 DEF SetBegin, Notify, NotifyForward, SetUnlock, Goto, callVars
    <3>3. CASE SetSame(t) \/ NotifyThrows(t) BY <3>3 DEF SetSame, NotifyThrows
    <3>4. CASE SetWrite(t) BY <3>4 DEF SetWrite, Return, Goto
    <3> QED BY <1>1, <3>1, <3>2, <3>3, <3>4 DEF SetterNext, setValue
  <2>3. /\ pc'[t] \in {"idle", "set", "notify", "write"}
        /\ \A u \in Threads \ {t} : /\ pc'[u] = pc[u] /\ var'[u] = var[u]
                                    /\ cb'[u] = cb[u] /\ reg'[u] = reg[u]
    BY <1>0, <2>1, <2>2, LeaveTypes DEF LoopTypes
  <2>4. KeysInv BY <2>1 DEF KeyInv
  <2> QED BY <2>1, <2>3, <2>4, KeyFrame DEF Pending, Counting
<1>2. ASSUME NEW t \in Admins, AdminNext(t) PROVE KeysInv'
  <2>1. t \in Threads BY DEF Threads
  <2>2. ~raced
    BY <1>2
    DEF AdminNext, AddCall, DelCall, ClearCall, addListener, AddLoad, AddStore, AddInsert,
        AddReturn, delListener, clearListener, cbVars
  <2>3. KeysInv BY <2>2 DEF KeyInv
  <2>4. CASE addListener(t) BY <1>0, <2>1, <2>3, <2>4, KeyAdd
  <2>5. CASE delListener(t) BY <1>0, <2>1, <2>3, <2>5, KeyDel
  <2>6. CASE clearListener(t) BY <1>0, <2>1, <2>3, <2>6, KeyClear
  <2>7. CASE \E x \in Listened, c \in Cbs : AddCall(t, x, c)
    BY <1>0, <2>1, <2>3, <2>7, KeyAddCall
  <2>8. CASE \E h \in handles[t] : DelCall(t, h) BY <1>0, <2>1, <2>3, <2>8, KeyDelCall
  <2>9. ASSUME NEW x \in Listened, ClearCall(t, x) PROVE KeysInv'
    <3>1. /\ pc' = [pc EXCEPT ![t] = "clear"] /\ var' = [var EXCEPT ![t] = x]
          /\ UNCHANGED <<m_cbs, s_fun_id, handles, dead, used, cb, reg>>
      BY <2>9 DEF ClearCall, Call, Goto, cbVars
    <3>2. /\ pc'[t] = "clear"
          /\ \A u \in Threads \ {t} : pc'[u] = pc[u] /\ var'[u] = var[u]
      BY <1>0, <2>1, <3>1 DEF LoopTypes
    <3> QED BY <2>3, <3>1, <3>2, KeyFrame DEF Pending, Counting
  <2> QED BY <1>2, <2>4, <2>5, <2>6, <2>7, <2>8, <2>9 DEF AdminNext
<1>3. CASE UNCHANGED vars
  <2>1. UNCHANGED <<m_cbs, s_fun_id, handles, dead, used, raced, pc, var, cb, reg>>
    BY <1>3 DEF vars, cbVars, callVars
  <2> QED BY <2>1, KeyFrame DEF KeyInv
<1> QED BY <1>1, <1>2, <1>3 DEF Next, Finished

(***************************************************************************)
(* As long as no two threads have read s_fun_id for different variables at *)
(* the same time, keys are unique and delListener removes the caller's own *)
(* listener, however many threads register and remove them with however    *)
(* many variables.                                                         *)
(***************************************************************************)
THEOREM KeysAreOwn == Spec => []KeysOwn
<1>1. KeyInv => KeysOwn
  BY DEF KeyInv, KeysInv, Known, KnownAs, Regs, KeysOwn, KeysAlwaysOwn
<1> QED BY KeyInit, KeyStep, <1>1, PTL DEF Spec

(***************************************************************************)
(* Then, too, a callback whose removal has returned is not called again,   *)
(* in whatever nesting of setValue.                                        *)
(***************************************************************************)
THEOREM RemovedAreSilent == Spec => []NoCallAfterRemoval
<1>1. KeyInv => NoCallAfterRemoval
  <2> SUFFICES ASSUME KeyInv PROVE NoCallAfterRemoval
    OBVIOUS
  <2>1. ASSUME NEW t \in Threads, NEW l \in Loops(t)
        PROVE  l.var \in Vars /\ l.todo \subseteq DOMAIN m_cbs[l.var]
    <3>1. CASE pc[t] = "notify" /\ l = [var |-> var[t], todo |-> todo[t]]
      BY <3>1 DEF KeyInv, LoopInv, LoopTypes, LoopsInv
    <3>2. ASSUME NEW i \in DOMAIN stack[t], l = [var |-> stack[t][i].var, todo |-> stack[t][i].todo]
          PROVE  l.var \in Vars /\ l.todo \subseteq DOMAIN m_cbs[l.var]
      <4>1. i \in 1..Len(stack[t]) BY DEF KeyInv, LoopInv, LoopTypes
      <4> QED BY <3>2, <4>1, FrameType DEF KeyInv, LoopInv, LoopsInv
    <3> QED BY <2>1, <3>1, <3>2 DEF Loops
  <2> QED BY <2>1 DEF KeyInv, KeysInv, Listed, NoCallAfterRemoval, IterationStable
<1> QED BY KeyInit, KeyStep, <1>1, PTL DEF Spec

-----------------------------------------------------------------------------
\* A set of naturals has a least element.
LEMMA MinIsIn ==
    ASSUME NEW K \in SUBSET Nat, K # {}
    PROVE  Min(K) \in K /\ \A k \in K : Min(K) <= k
<1> SUFFICES \E x \in K : \A y \in K : x =< y
  BY DEF Min
<1> SUFFICES ASSUME \A x \in K : \E y \in K : ~(x =< y) PROVE FALSE
  OBVIOUS
<1> DEFINE S == {n \in Nat : \A m \in 0..n : m \notin K}
<1>1. 0 \in S
  <2>1. ASSUME 0 \in K PROVE FALSE BY <2>1
  <2> QED BY <2>1
<1>2. ASSUME NEW n \in S PROVE n + 1 \in S
  <2>1. n + 1 \notin K
    <3> SUFFICES ASSUME n + 1 \in K PROVE FALSE OBVIOUS
    <3>1. PICK y \in K : ~(n + 1 =< y) OBVIOUS
    <3>2. y \in 0..n BY <3>1
    <3> QED BY <3>2
  <2>2. ASSUME NEW m \in 0..(n + 1) PROVE m \notin K
    <3>1. m \in 0..n \/ m = n + 1 OBVIOUS
    <3> QED BY <2>1, <3>1
  <2> QED BY <2>2
<1>3. S \in SUBSET Nat OBVIOUS
<1> HIDE DEF S
<1>4. S = Nat BY <1>1, <1>2, <1>3, SetInduction
<1>5. PICK k \in K : TRUE OBVIOUS
<1>6. k \in S BY <1>4
<1> QED BY <1>6 DEF S

-----------------------------------------------------------------------------
(***************************************************************************)
(* Who knows the value.  This takes one thread that sets; early listeners  *)
(* that set other variables, each its own and to every value, and none     *)
(* that the thread sets itself; and no other listener that sets or throws. *)
(***************************************************************************)
OneSetter == \A t, u \in Setters : t = u

Pipeline ==
    /\ DOMAIN Forward \subseteq Vars \X {EarlyCb}
    /\ \A f \in DOMAIN Forward : Forward[f] \notin Inputs
    /\ \A f, g \in DOMAIN Forward : Forward[f] = Forward[g] => f = g
    /\ MayThrow \subseteq Inputs \X {EarlyCb}
    /\ Kept = {}

\* The key of the early listener of x, and the variable it sets if it does.
Early(x) == {k \in DOMAIN m_cbs[x] : m_cbs[x][k] = EarlyCb}
Passes(x) == <<x, EarlyCb>> \in DOMAIN Forward
NextVar(x) == Forward[<<x, EarlyCb>>]

\* The early listener of x was told v, and what it sets has it.
ToldAll(x, v) == told[x][EarlyCb] = v /\ (Passes(x) => m_val[NextVar(x)] = v)

\* The variables that a thread is setting, the one it began with first.
Setting(t) == pc[t] \in {"notify", "write"}
Depth(t) == Len(stack[t])
Chain(t, i) == IF i <= Depth(t) THEN stack[t][i].var ELSE var[t]
Active(t, x) == Setting(t) /\ \E i \in 1..Depth(t) + 1 : x = Chain(t, i)

(***************************************************************************)
(* Each was set by the early listener of the one before, which waits, was  *)
(* told the value and will not be called again; and none comes twice.      *)
(***************************************************************************)
ChainInv(t) ==
    /\ Chain(t, 1) \in Inputs
    /\ \A i \in 1..Depth(t) :
         /\ Passes(Chain(t, i)) /\ Chain(t, i + 1) = NextVar(Chain(t, i))
         /\ stack[t][i].arg = arg[t] /\ told[Chain(t, i)][EarlyCb] = arg[t]
         /\ Early(Chain(t, i)) \cap stack[t][i].todo = {}
    /\ \A i, j \in 1..Depth(t) + 1 : Chain(t, i) = Chain(t, j) => i = j

\* The last one's early listener knows the old value until it is reached.
TopInv(t) ==
    \A k \in Early(var[t]) :
       /\ pc[t] = "notify" /\ k \in todo[t] => ToldAll(var[t], m_val[var[t]])
       /\ pc[t] = "write" \/ k \notin todo[t] => ToldAll(var[t], arg[t])

CurrentTypes ==
    /\ m_val \in [Vars -> Values] /\ told \in [Vars -> [Callbacks -> Values]]
    /\ \A t \in Threads : pc[t] \in Pending => cb[t] \in Cbs
    /\ \A t \in Threads : pc[t] = "set" => var[t] \in Inputs
    /\ \A x \in Vars : \A j, k \in Early(x) : j = k

CurrentInv ==
    /\ CurrentTypes
    /\ \A t \in Setters : Setting(t) => ChainInv(t) /\ TopInv(t)
    /\ \A x \in Vars : (\A t \in Setters : ~Active(t, x)) /\ Early(x) # {}
          => ToldAll(x, m_val[x])

\* The variables of the calls that wait for a listener, and of the one on top.
LEMMA ChainVars ==
    ASSUME LoopTypes, NEW t \in Threads
    PROVE  /\ Depth(t) \in Nat /\ Chain(t, Depth(t) + 1) = var[t] /\ var[t] \in Vars
           /\ \A i \in 1..Depth(t) + 1 : Chain(t, i) \in Vars
           /\ \A i \in 1..Depth(t) : Chain(t, i) = stack[t][i].var
<1>1. Depth(t) \in Nat /\ var[t] \in Vars BY DEF LoopTypes, Depth
<1>2. \A i \in 1..Depth(t) : Chain(t, i) = stack[t][i].var /\ Chain(t, i) \in Vars
  BY FrameType DEF Chain, Depth
<1>3. Chain(t, Depth(t) + 1) = var[t] BY <1>1 DEF Chain
<1>4. \A i \in 1..Depth(t) + 1 : i \in 1..Depth(t) \/ i = Depth(t) + 1 BY <1>1
<1> QED BY <1>1, <1>2, <1>3, <1>4

\* At first every early listener knows the value.
LEMMA CurrentInit == Init => CurrentInv
<1> SUFFICES ASSUME Init PROVE CurrentInv
  OBVIOUS
<1>1. PICK key \in [Vars -> 1..Cardinality(Vars)] :
        m_cbs = [x \in Vars |-> [k \in {key[x]} |-> EarlyCb]]
  BY DEF Init, Injection
<1>2. \A x \in Vars : \A j, k \in Early(x) : j = k BY <1>1 DEF Early
<1>3. CurrentTypes
  BY <1>2, ConfigVarAssumption DEF Init, CurrentTypes, Pending, Counting, Callbacks
<1>4. \A t \in Setters : ~Setting(t) BY DEF Init, Setting, Threads
<1>5. \A x \in Vars : ToldAll(x, m_val[x])
  BY ConfigVarAssumption DEF Init, ToldAll, NextVar, Passes, Callbacks
<1> QED BY <1>3, <1>4, <1>5 DEF CurrentInv

\* The chain of a thread stays while its early listeners are told its value.
LEMMA ChainKept ==
    ASSUME LoopTypes, NEW t \in Threads, ChainInv(t),
           stack'[t] = stack[t], var'[t] = var[t], arg'[t] = arg[t],
           \A x \in Vars : Early(x)' \subseteq Early(x),
           \A x \in Vars : told'[x][EarlyCb] \in {told[x][EarlyCb], arg[t]}
    PROVE  ChainInv(t)' /\ Depth(t)' = Depth(t) /\ \A i : Chain(t, i)' = Chain(t, i)
<1>1. Depth(t)' = Depth(t) BY DEF Depth
<1>2. \A i : Chain(t, i)' = Chain(t, i) BY <1>1 DEF Chain
<1>3. /\ Depth(t) \in Nat /\ \A i \in 1..Depth(t) + 1 : Chain(t, i) \in Vars
      /\ \A i \in 1..Depth(t) : i \in 1..Depth(t) + 1 /\ i + 1 \in 1..Depth(t) + 1
      /\ 1 \in 1..Depth(t) + 1
  BY ChainVars
<1>4. ASSUME NEW i \in 1..Depth(t)
      PROVE  /\ Passes(Chain(t, i)') /\ Chain(t, i + 1)' = NextVar(Chain(t, i)')
             /\ stack'[t][i].arg = arg'[t] /\ told'[Chain(t, i)'][EarlyCb] = arg'[t]
             /\ Early(Chain(t, i))' \cap stack'[t][i].todo = {}
  <2>1. PICK z \in Vars : z = Chain(t, i) BY <1>3
  <2>2. /\ Passes(z) /\ Chain(t, i + 1) = NextVar(z) /\ stack[t][i].arg = arg[t]
        /\ told[z][EarlyCb] = arg[t] /\ Early(z) \cap stack[t][i].todo = {}
    BY <2>1 DEF ChainInv
  <2>3. told'[z][EarlyCb] = arg[t] BY <2>2
  <2>4. Early(z)' \cap stack[t][i].todo = {} BY <2>2
  <2>5. Early(Chain(t, i))' = Early(z)' BY <1>2, <2>1 DEF Early
  <2> QED BY <1>2, <2>1, <2>2, <2>3, <2>4, <2>5
<1>5. \A i, j \in 1..Depth(t) + 1 : Chain(t, i) = Chain(t, j) => i = j BY DEF ChainInv
<1>6. Chain(t, 1) \in Inputs BY DEF ChainInv
<1>7. ChainInv(t)' BY <1>1, <1>2, <1>4, <1>5, <1>6 DEF ChainInv, Passes, NextVar
<1> QED BY <1>1, <1>2, <1>7

\* A step that sets no variable and calls no listener, such as those of the
\* threads that register and remove them.
LEMMA CurrentFrame ==
    ASSUME CurrentInv, LoopInv, UNCHANGED m_val, CurrentTypes',
           \A x \in Vars : Early(x)' \subseteq Early(x),
           \A x \in Vars : told'[x][EarlyCb] = told[x][EarlyCb],
           \A t \in Setters : /\ Setting(t)' <=> Setting(t)
                              /\ Setting(t) => /\ pc'[t] = pc[t] /\ stack'[t] = stack[t]
                                               /\ var'[t] = var[t] /\ arg'[t] = arg[t]
                                               /\ todo'[t] = todo[t]
    PROVE  CurrentInv'
<1>1. ASSUME NEW x \in Vars, NEW v, ToldAll(x, v) PROVE ToldAll(x, v)'
  BY <1>1 DEF ToldAll, Passes, NextVar
<1>2. ASSUME NEW t \in Setters, Setting(t)
      PROVE  /\ ChainInv(t)' /\ Depth(t)' = Depth(t) /\ \A i : Chain(t, i)' = Chain(t, i)
             /\ TopInv(t)'
  <2>1. t \in Threads /\ LoopTypes /\ ChainInv(t) /\ TopInv(t)
    BY <1>2 DEF Threads, LoopInv, CurrentInv
  <2>2. ChainInv(t)' /\ Depth(t)' = Depth(t) /\ \A i : Chain(t, i)' = Chain(t, i)
    BY <1>2, <2>1, ChainKept
  <2>3. PICK z \in Vars : z = var[t] BY <2>1 DEF LoopTypes
  <2>4. Early(z)' \subseteq Early(z) /\ var'[t] = z BY <1>2, <2>3
  <2>5. ASSUME NEW k \in Early(z)'
        PROVE  /\ pc'[t] = "notify" /\ k \in todo'[t] => ToldAll(z, m_val[z])'
               /\ pc'[t] = "write" \/ k \notin todo'[t] => ToldAll(z, arg[t])'
    <3>1. k \in Early(z) BY <2>4
    <3>2. /\ pc[t] = "notify" /\ k \in todo[t] => ToldAll(z, m_val[z])
          /\ pc[t] = "write" \/ k \notin todo[t] => ToldAll(z, arg[t])
      BY <2>1, <2>3, <3>1 DEF TopInv
    <3>3. ToldAll(z, m_val[z]) => ToldAll(z, m_val[z])'
      BY DEF ToldAll, Passes, NextVar
    <3>4. ToldAll(z, arg[t]) => ToldAll(z, arg[t])'
      BY <1>2 DEF ToldAll, Passes, NextVar
    <3> QED BY <1>2, <3>2, <3>3, <3>4
  <2>6. TopInv(t)' BY <1>2, <2>3, <2>4, <2>5 DEF TopInv, Early, ToldAll, Passes, NextVar
  <2> QED BY <2>2, <2>6
<1>3. ASSUME NEW x \in Vars, \A t \in Setters : ~Active(t, x)', Early(x)' # {}
      PROVE  ToldAll(x, m_val[x])'
  <2>1. \A t \in Setters : ~Active(t, x) BY <1>2, <1>3 DEF Active
  <2>2. Early(x) # {} BY <1>3
  <2>3. ToldAll(x, m_val[x]) BY <2>1, <2>2 DEF CurrentInv
  <2> QED BY <2>3 DEF ToldAll, Passes, NextVar
<1> QED BY <1>2, <1>3 DEF CurrentInv

\* The thread begins to set a variable.
LEMMA CurrentBegin ==
    ASSUME OneSetter, CurrentInv, LoopInv, CurrentTypes', NEW s \in Setters, SetBegin(s)
    PROVE  CurrentInv'
<1>1. s \in Threads /\ LoopTypes /\ \A t \in Setters : t = s
  BY DEF Threads, LoopInv, OneSetter
<1>2. /\ pc[s] = "set" /\ pc'[s] = "notify" /\ var'[s] = var[s]
      /\ todo'[s] = DOMAIN m_cbs[var[s]] /\ UNCHANGED <<m_val, m_cbs, told, stack>>
  BY <1>1 DEF SetBegin, Goto, cbVars, LoopTypes
<1>3. stack'[s] = <<>> BY <1>1, <1>2 DEF LoopInv, LockInv, NoFrames
<1>4. PICK x \in Inputs : x = var[s] /\ x \in Vars
  BY <1>1, <1>2, ConfigVarAssumption DEF CurrentInv, CurrentTypes
<1>5. Depth(s)' = 0 /\ Chain(s, 1)' = x BY <1>2, <1>3, <1>4 DEF Depth, Chain
<1>6. ~Setting(s) /\ Setting(s)' BY <1>2 DEF Setting
<1>7. ChainInv(s)'
  <2>1. \A i, j \in 1..1 : i = j OBVIOUS
  <2> QED BY <1>5, <2>1 DEF ChainInv
<1>8. \A z \in Vars : Early(z) # {} => ToldAll(z, m_val[z])
  BY <1>1, <1>6 DEF CurrentInv, Active
<1>9. TopInv(s)'
  <2> SUFFICES ASSUME NEW k \in Early(x)
               PROVE  /\ k \in DOMAIN m_cbs[x] /\ ToldAll(x, m_val[x])'
    BY <1>2, <1>4 DEF TopInv, Early, ToldAll, Passes, NextVar
  <2>1. k \in DOMAIN m_cbs[x] BY DEF Early
  <2>2. ToldAll(x, m_val[x]) BY <1>4, <1>8
  <2> QED BY <1>2, <2>1, <2>2 DEF ToldAll, Passes, NextVar
<1>10. ASSUME NEW z \in Vars, Early(z)' # {} PROVE ToldAll(z, m_val[z])'
  <2>1. ToldAll(z, m_val[z]) BY <1>2, <1>8, <1>10 DEF Early
  <2> QED BY <1>2, <2>1 DEF ToldAll, Passes, NextVar
<1> QED BY <1>1, <1>7, <1>9, <1>10 DEF CurrentInv

\* A step of the loop that leaves the chain as it is: it may tell the last
\* one's early listener the value.
LEMMA CurrentKeep ==
    ASSUME OneSetter, CurrentInv, LoopInv, CurrentTypes', NEW s \in Setters,
           Setting(s), Setting(s)', UNCHANGED <<m_val, m_cbs, stack, var, arg>>,
           \A z \in Vars : \/ told'[z][EarlyCb] = told[z][EarlyCb]
                           \/ z = var[s] /\ told'[z][EarlyCb] = arg[s],
           TopInv(s)'
    PROVE  CurrentInv'
<1>1. s \in Threads /\ LoopTypes /\ ChainInv(s) /\ \A t \in Setters : t = s
  BY DEF Threads, LoopInv, CurrentInv, OneSetter
<1>2. \A z : Early(z)' = Early(z) BY DEF Early
<1>3. ChainInv(s)' /\ Depth(s)' = Depth(s) /\ \A i : Chain(s, i)' = Chain(s, i)
  BY <1>1, <1>2, ChainKept
<1>4. ASSUME NEW z \in Vars, ~Active(s, z)', Early(z)' # {} PROVE ToldAll(z, m_val[z])'
  <2>1. ~Active(s, z) BY <1>3, <1>4 DEF Active
  <2>2. ToldAll(z, m_val[z]) BY <1>1, <1>2, <1>4, <2>1 DEF CurrentInv
  <2>3. z # var[s]
    <3>1. Depth(s) + 1 \in 1..Depth(s) + 1 /\ var[s] = Chain(s, Depth(s) + 1)
      BY <1>1, ChainVars
    <3> QED BY <2>1, <3>1 DEF Active
  <2> QED BY <2>2, <2>3 DEF ToldAll, Passes, NextVar
<1> QED BY <1>1, <1>3, <1>4 DEF CurrentInv

\* The listener the loop has reached is in m_cbs, and is the early one if its
\* key is the early one's.
LEMMA ReachedIs ==
    ASSUME CurrentInv, LoopInv, NEW t \in Threads, pc[t] = "notify", todo[t] # {}
    PROVE  /\ Min(todo[t]) \in todo[t] /\ Min(todo[t]) \in DOMAIN m_cbs[var[t]]
           /\ var[t] \in Vars
           /\ Reached(t) = EarlyCb <=> Min(todo[t]) \in Early(var[t])
           /\ \A k \in Early(var[t]) : Reached(t) = EarlyCb => k = Min(todo[t])
<1>1. todo[t] \in SUBSET Nat /\ var[t] \in Vars /\ todo[t] \subseteq DOMAIN m_cbs[var[t]]
  BY DEF LoopInv, LoopTypes, LoopsInv
<1>2. Min(todo[t]) \in todo[t] BY <1>1, MinIsIn
<1>3. PICK k0 : k0 = Min(todo[t]) OBVIOUS
<1>4. Reached(t) = m_cbs[var[t]][k0] BY <1>3 DEF Reached
<1>5. Reached(t) = EarlyCb <=> k0 \in Early(var[t]) BY <1>1, <1>2, <1>3, <1>4 DEF Early
<1>6. \A j, k \in Early(var[t]) : j = k BY <1>1 DEF CurrentInv, CurrentTypes
<1> QED BY <1>1, <1>2, <1>3, <1>5, <1>6

\* A listener is called, and sets nothing or finds it set.
LEMMA CurrentTell ==
    ASSUME OneSetter, Pipeline, CurrentInv, LoopInv, CurrentTypes', NEW s \in Setters,
           pc[s] = "notify", todo[s] # {}, UNCHANGED <<m_val, m_cbs, stack, var, arg, pc>>,
           told' = [told EXCEPT ![var[s]][Reached(s)] = arg[s]],
           todo' = [todo EXCEPT ![s] = todo[s] \ {Min(todo[s])}],
           Forwards(s) => m_val[Forward[<<var[s], Reached(s)>>]] = arg[s]
    PROVE  CurrentInv'
<1>1. s \in Threads /\ LoopTypes /\ told \in [Vars -> [Callbacks -> Values]]
      /\ ChainInv(s) /\ TopInv(s)
  BY DEF Threads, LoopInv, CurrentInv, CurrentTypes, Setting
<1>2. PICK x \in Vars : x = var[s] BY <1>1 DEF LoopTypes
<1>3. PICK k0 : k0 = Min(todo[s]) OBVIOUS
<1>4. /\ k0 \in todo[s] /\ (Reached(s) = EarlyCb <=> k0 \in Early(x))
      /\ \A k \in Early(x) : Reached(s) = EarlyCb => k = k0
  BY <1>1, <1>2, <1>3, ReachedIs
<1>5. EarlyCb \in Callbacks BY DEF Callbacks
<1>6. \A z \in Vars : z # x => told'[z][EarlyCb] = told[z][EarlyCb]
  BY <1>1, <1>2
<1>7. IF Reached(s) = EarlyCb THEN told'[x][EarlyCb] = arg[s]
                              ELSE told'[x][EarlyCb] = told[x][EarlyCb]
  BY <1>1, <1>2, <1>5
<1>8. todo'[s] = todo[s] \ {k0} BY <1>1, <1>3 DEF LoopTypes
<1>9. ASSUME NEW k \in Early(x)
      PROVE  /\ k \in todo'[s] => ToldAll(x, m_val[x])'
             /\ k \notin todo'[s] => ToldAll(x, arg[s])'
  <2>1. CASE k = k0
    <3>1. Reached(s) = EarlyCb BY <1>4, <1>9, <2>1
    <3>2. Passes(x) => m_val[NextVar(x)] = arg[s]
      BY <1>2, <3>1 DEF Passes, NextVar, Forwards, Pipeline
    <3>3. told'[x][EarlyCb] = arg[s] BY <1>7, <3>1
    <3>4. ToldAll(x, arg[s])' BY <3>2, <3>3 DEF ToldAll, Passes, NextVar
    <3> QED BY <1>8, <2>1, <3>4
  <2>2. CASE k # k0
    <3>1. told'[x][EarlyCb] = told[x][EarlyCb] BY <1>4, <1>7, <1>9, <2>2
    <3>2. /\ k \in todo[s] => ToldAll(x, m_val[x])
          /\ k \notin todo[s] => ToldAll(x, arg[s])
      BY <1>1, <1>2 DEF TopInv
    <3>3. ToldAll(x, m_val[x]) => ToldAll(x, m_val[x])'
      BY <3>1 DEF ToldAll, Passes, NextVar
    <3>4. ToldAll(x, arg[s]) => ToldAll(x, arg[s])'
      BY <3>1 DEF ToldAll, Passes, NextVar
    <3>5. k \in todo'[s] <=> k \in todo[s] BY <1>8, <2>2
    <3> QED BY <3>2, <3>3, <3>4, <3>5
  <2> QED BY <2>1, <2>2
<1>10. TopInv(s)'
  <2>1. \A k \in Early(x)' : k \in Early(x) BY DEF Early
  <2> QED BY <1>2, <1>9, <2>1 DEF TopInv, ToldAll, Passes, NextVar, Early
<1>11. Setting(s) /\ Setting(s)' BY DEF Setting
<1>12. \A z \in Vars : \/ told'[z][EarlyCb] = told[z][EarlyCb]
                       \/ z = var[s] /\ told'[z][EarlyCb] = arg[s]
  BY <1>2, <1>6, <1>7
<1> QED BY <1>10, <1>11, <1>12, CurrentKeep

\* The loop ends: whoever is registered was told.
LEMMA CurrentUnlock ==
    ASSUME OneSetter, CurrentInv, LoopInv, CurrentTypes', NEW s \in Setters, SetUnlock(s)
    PROVE  CurrentInv'
<1>1. s \in Threads /\ LoopTypes BY DEF Threads, LoopInv
<1>2. /\ pc[s] = "notify" /\ pc'[s] = "write" /\ todo[s] = {}
      /\ UNCHANGED <<m_val, m_cbs, stack, var, arg, told, todo>>
  BY <1>1 DEF SetUnlock, Goto, cbVars, callVars, setVars, LoopTypes
<1>3. Setting(s) /\ Setting(s)' BY <1>2 DEF Setting
<1>4. TopInv(s) BY <1>3 DEF CurrentInv
<1>5. TopInv(s)' BY <1>2, <1>4 DEF TopInv, Early, ToldAll, Passes, NextVar
<1> QED BY <1>2, <1>3, <1>5, CurrentKeep

\* A listener throws: it is the one of the variable the thread began with, and
\* knows the old value still.
LEMMA CurrentThrows ==
    ASSUME OneSetter, Pipeline, CurrentInv, LoopInv, CurrentTypes', NEW s \in Setters,
           NotifyThrows(s)
    PROVE  CurrentInv'
<1>1. /\ s \in Threads /\ LoopTypes /\ \A t \in Setters : t = s
  BY DEF Threads, LoopInv, OneSetter
<1>2. /\ pc[s] = "notify" /\ pc'[s] = "idle" /\ todo[s] # {}
      /\ <<var[s], Reached(s)>> \in MayThrow
      /\ UNCHANGED <<m_val, m_cbs, told>>
  BY <1>1, LeaveTypes DEF NotifyThrows, cbVars, setVars
<1>3. Setting(s) /\ ~Setting(s)' BY <1>2 DEF Setting
<1>4. ChainInv(s) /\ TopInv(s) BY <1>3 DEF CurrentInv
<1>5. var[s] \in Inputs /\ Reached(s) = EarlyCb BY <1>2 DEF Pipeline
<1>6. Depth(s) = 0
  <2> SUFFICES ASSUME Depth(s) # 0 PROVE FALSE OBVIOUS
  <2>1. PICK n \in Nat \ {0} : n = Depth(s) BY <1>1, ChainVars
  <2>2. /\ n \in 1..Depth(s) /\ Chain(s, n + 1) = var[s] BY <1>1, <2>1, ChainVars
  <2>3. Passes(Chain(s, n)) /\ var[s] = NextVar(Chain(s, n)) BY <1>4, <2>2 DEF ChainInv
  <2> QED BY <1>5, <2>3 DEF Pipeline, Passes, NextVar
<1>7. PICK x \in Vars : x = var[s] BY <1>1 DEF LoopTypes
<1>8. Early(x) # {} => ToldAll(x, m_val[x])
  BY <1>1, <1>2, <1>4, <1>5, <1>7, ReachedIs DEF TopInv
<1>9. ASSUME NEW z \in Vars, Early(z) # {} PROVE ToldAll(z, m_val[z])
  <2>1. CASE z = x BY <1>8, <1>9, <2>1
  <2>2. CASE z # x
    <3>1. \A i \in 1..Depth(s) + 1 : Chain(s, i) = x
      <4>1. \A i \in 1..0 + 1 : i = 0 + 1 OBVIOUS
      <4>2. Chain(s, 0 + 1) = x BY <1>1, <1>6, <1>7, ChainVars
      <4> QED BY <1>6, <4>1, <4>2
    <3>2. ~Active(s, z) BY <2>2, <3>1 DEF Active
    <3> QED BY <1>1, <1>9, <3>2 DEF CurrentInv
  <2> QED BY <2>1, <2>2
<1>10. ASSUME NEW z \in Vars, Early(z)' # {} PROVE ToldAll(z, m_val[z])'
  <2>1. ToldAll(z, m_val[z]) BY <1>2, <1>9, <1>10 DEF Early
  <2> QED BY <1>2, <2>1 DEF ToldAll, Passes, NextVar
<1> QED BY <1>1, <1>3, <1>10 DEF CurrentInv

\* What the early listener of the variable that is set last sets is not set yet.
LEMMA NextIsNew ==
    ASSUME Pipeline, LoopTypes, NEW t \in Threads, ChainInv(t), Passes(var[t])
    PROVE  /\ NextVar(var[t]) \notin Inputs
           /\ \A i \in 1..Depth(t) + 1 : Chain(t, i) # NextVar(var[t])
<1>1. NextVar(var[t]) \notin Inputs BY DEF Pipeline, Passes, NextVar
<1>2. PICK n \in Nat : n = Depth(t) BY ChainVars
<1>3. Chain(t, n + 1) = var[t] BY <1>2, ChainVars
<1>4. ASSUME NEW i \in 1..n + 1, Chain(t, i) = NextVar(var[t]) PROVE FALSE
  <2>1. i # 1 BY <1>1, <1>4 DEF ChainInv
  <2>2. PICK j \in 1..n : i = j + 1
    <3>1. i - 1 \in 1..n /\ i = (i - 1) + 1 BY <1>2, <2>1
    <3> QED BY <3>1
  <2>3. Passes(Chain(t, j)) /\ NextVar(Chain(t, j)) = NextVar(var[t])
    BY <1>2, <1>4, <2>2 DEF ChainInv
  <2>4. Chain(t, j) = Chain(t, n + 1) BY <1>3, <2>3 DEF Pipeline, Passes, NextVar
  <2>5. j \in 1..n + 1 /\ n + 1 \in 1..n + 1 /\ j # n + 1 BY <1>2
  <2> QED BY <1>2, <2>4, <2>5 DEF ChainInv
<1> QED BY <1>1, <1>2, <1>4

\* A listener sets another variable, or finds it set.
LEMMA CurrentForward ==
    ASSUME OneSetter, Pipeline, CurrentInv, LoopInv, CurrentTypes', NEW s \in Setters,
           NotifyForward(s)
    PROVE  CurrentInv'
<1>1. s \in Threads /\ LoopTypes /\ told \in [Vars -> [Callbacks -> Values]]
      /\ pc[s] = "notify" /\ todo[s] # {} /\ Forwards(s) /\ EarlyCb \in Callbacks
      /\ told' = [told EXCEPT ![var[s]][Reached(s)] = arg[s]]
      /\ UNCHANGED <<m_val, m_cbs, pc, arg>> /\ \A t \in Setters : t = s
  BY DEF Threads, LoopInv, CurrentInv, CurrentTypes, NotifyForward, cbVars, OneSetter, Callbacks
<1>2. PICK to : to = Forward[<<var[s], Reached(s)>>] OBVIOUS
<1>3. CASE arg[s] = m_val[to]
  BY <1>1, <1>2, <1>3, CurrentTell DEF NotifyForward
<1>4. CASE arg[s] # m_val[to]
  <2>1. ChainInv(s) /\ TopInv(s) BY <1>1 DEF CurrentInv, Setting
  <2>2. PICK x \in Vars : x = var[s] BY <1>1 DEF LoopTypes
  <2>3. PICK k0 : k0 = Min(todo[s]) OBVIOUS
  <2>4. Reached(s) = EarlyCb /\ Passes(x) /\ to = NextVar(x) /\ to \in Vars
    BY <1>1, <1>2, <2>2, ConfigVarAssumption DEF Pipeline, Forwards, Passes, NextVar
  <2>5. \A k \in Early(x) : k = k0 BY <1>1, <2>2, <2>3, <2>4, ReachedIs
  <2>6. PICK n \in Nat : n = Depth(s) BY <1>1, ChainVars
  <2>7. PICK f : f = [var |-> x, arg |-> arg[s], todo |-> todo[s] \ {k0}] OBVIOUS
  <2>8. /\ stack' = [stack EXCEPT ![s] = Append(stack[s], f)]
        /\ var' = [var EXCEPT ![s] = to]
        /\ todo' = [todo EXCEPT ![s] = DOMAIN m_cbs[to]]
    BY <1>2, <1>4, <2>2, <2>3, <2>7 DEF NotifyForward
  <2>9. f \in Frame BY <1>1, <2>7 DEF Frame, LoopTypes
  <2>10. /\ Len(stack'[s]) = n + 1 /\ stack'[s][n + 1] = f
         /\ \A i \in 1..n : stack'[s][i] = stack[s][i]
    BY <1>1, <2>6, <2>8, <2>9 DEF LoopTypes, Depth
  <2>11. var'[s] = to /\ todo'[s] = DOMAIN m_cbs[to] BY <1>1, <2>8 DEF LoopTypes
  <2>12. Depth(s)' = n + 1 BY <2>10 DEF Depth
  <2>13. /\ \A i \in 1..n : Chain(s, i)' = Chain(s, i) /\ Chain(s, i)' \in Vars
         /\ Chain(s, n + 1)' = x /\ Chain(s, n + 1) = x /\ Chain(s, n + 2)' = to
    <3>1. \A i \in 1..n : Chain(s, i) = stack[s][i].var /\ Chain(s, i) \in Vars /\ i <= n + 1
      BY <1>1, <2>6, ChainVars
    <3>2. \A i \in 1..n : Chain(s, i)' = stack'[s][i].var BY <2>12, <3>1 DEF Chain
    <3>3. Chain(s, n + 1)' = f.var /\ Chain(s, n + 2)' = to
      BY <2>10, <2>11, <2>12 DEF Chain
    <3>4. f.var = x BY <2>7
    <3>5. Chain(s, n + 1) = x BY <1>1, <2>2, <2>6, ChainVars
    <3> QED BY <2>10, <3>1, <3>2, <3>3, <3>4, <3>5
  <2>14. \A i \in 1..n + 1 : Chain(s, i)' = Chain(s, i)
    <3>1. \A i \in 1..n + 1 : i \in 1..n \/ i = n + 1 OBVIOUS
    <3> QED BY <2>13, <3>1
  <2>15. to \notin Inputs /\ \A i \in 1..n + 1 : Chain(s, i) # to
    BY <1>1, <2>1, <2>2, <2>4, <2>6, NextIsNew
  <2>16. to # x
    <3>1. n + 1 \in 1..n + 1 OBVIOUS
    <3> QED BY <2>13, <2>15, <3>1
  <2>17. /\ told'[x][EarlyCb] = arg[s]
         /\ \A z \in Vars : z # x => told'[z][EarlyCb] = told[z][EarlyCb]
    BY <1>1, <2>2, <2>4
  <2>18. ChainInv(s)'
    <3>1. Chain(s, 1)' \in Inputs
      <4>1. 1 \in 1..n + 1 OBVIOUS
      <4> QED BY <2>1, <2>14, <4>1 DEF ChainInv
    <3>2. ASSUME NEW i \in 1..n + 1
          PROVE  /\ Passes(Chain(s, i)') /\ Chain(s, i + 1)' = NextVar(Chain(s, i)')
                 /\ stack'[s][i].arg = arg'[s] /\ told'[Chain(s, i)'][EarlyCb] = arg'[s]
                 /\ Early(Chain(s, i))' \cap stack'[s][i].todo = {}
      <4>1. CASE i \in 1..n
        <5>1. PICK z \in Vars : z = Chain(s, i) BY <2>13, <4>1
        <5>2. /\ Passes(z) /\ Chain(s, i + 1) = NextVar(z) /\ stack[s][i].arg = arg[s]
              /\ told[z][EarlyCb] = arg[s] /\ Early(z) \cap stack[s][i].todo = {}
          BY <2>1, <2>6, <4>1, <5>1 DEF ChainInv
        <5>3. told'[z][EarlyCb] = arg[s] BY <2>17, <5>2
        <5>4. i + 1 \in 1..n + 1 BY <4>1
        <5>5. Chain(s, i + 1)' = Chain(s, i + 1) /\ Chain(s, i)' = z BY <2>14, <5>1, <5>4
        <5>6. Early(Chain(s, i))' = Early(z) BY <1>1, <5>5 DEF Early
        <5> QED BY <1>1, <2>10, <4>1, <5>2, <5>3, <5>5, <5>6
      <4>2. CASE i = n + 1
        <5>1. (n + 1) + 1 = n + 2 OBVIOUS
        <5>2. Early(Chain(s, n + 1))' = Early(x) BY <1>1, <2>13 DEF Early
        <5>3. Early(x) \cap f.todo = {} BY <2>5, <2>7
        <5>4. f.arg = arg[s] BY <2>7
        <5> QED BY <1>1, <2>4, <2>10, <2>13, <2>17, <4>2, <5>1, <5>2, <5>3, <5>4
      <4> QED BY <4>1, <4>2
    <3>3. ASSUME NEW i \in 1..n + 2, NEW j \in 1..n + 2, Chain(s, i)' = Chain(s, j)'
          PROVE  i = j
      <4>1. \A m \in 1..n + 2 : m \in 1..n + 1 \/ m = n + 2 OBVIOUS
      <4>2. \A k, m \in 1..n + 1 : Chain(s, k) = Chain(s, m) => k = m
        BY <2>1, <2>6 DEF ChainInv
      <4> QED BY <2>13, <2>14, <2>15, <3>3, <4>1, <4>2
    <3>4. (n + 1) + 1 = n + 2 OBVIOUS
    <3>5. \A z : (Passes(z)' <=> Passes(z)) /\ NextVar(z)' = NextVar(z)
      BY DEF Passes, NextVar
    <3> QED BY <2>12, <3>1, <3>2, <3>3, <3>4, <3>5 DEF ChainInv, Passes, NextVar
  <2>19. TopInv(s)'
    <3> SUFFICES ASSUME NEW k \in Early(to) PROVE k \in todo'[s] /\ ToldAll(to, m_val[to])'
      BY <1>1, <2>11 DEF TopInv, Early, ToldAll, Passes, NextVar
    <3>1. k \in todo'[s] BY <2>11 DEF Early
    <3>2. ~Active(s, to) BY <2>6, <2>15 DEF Active
    <3>3. ToldAll(to, m_val[to]) BY <1>1, <2>4, <3>2 DEF CurrentInv
    <3> QED BY <1>1, <2>4, <2>16, <2>17, <3>1, <3>3 DEF ToldAll, Passes, NextVar
  <2>20. ASSUME NEW z \in Vars, ~Active(s, z)', Early(z)' # {} PROVE ToldAll(z, m_val[z])'
    <3>1. Setting(s)' BY <1>1 DEF Setting
    <3>2. \A i \in 1..n + 1 : i \in 1..(n + 1) + 1 OBVIOUS
    <3>3. \A i \in 1..n + 1 : z # Chain(s, i)
      BY <2>12, <2>14, <2>20, <3>1, <3>2 DEF Active
    <3>4. ~Active(s, z) BY <2>6, <3>3 DEF Active
    <3>5. ToldAll(z, m_val[z]) BY <1>1, <2>20, <3>4 DEF CurrentInv, Early
    <3>6. z # x
      <4>1. n + 1 \in 1..n + 1 OBVIOUS
      <4> QED BY <2>13, <3>3, <4>1
    <3> QED BY <1>1, <2>17, <3>5, <3>6 DEF ToldAll, Passes, NextVar
  <2> QED BY <1>1, <2>18, <2>19, <2>20 DEF CurrentInv
<1> QED BY <1>3, <1>4

\* setValue stores the value: the listener that waits for it set what it is to
\* set, and no other one sets this variable.
LEMMA CurrentWrite ==
    ASSUME OneSetter, Pipeline, CurrentInv, LoopInv, CurrentTypes', NEW s \in Setters,
           SetWrite(s)
    PROVE  CurrentInv'
<1>1. s \in Threads /\ LoopTypes /\ m_val \in [Vars -> Values]
      /\ pc[s] = "write" /\ m_val' = [m_val EXCEPT ![var[s]] = arg[s]] /\ Return(s)
      /\ UNCHANGED <<m_cbs, told>> /\ \A t \in Setters : t = s
  BY DEF Threads, LoopInv, CurrentInv, CurrentTypes, SetWrite, cbVars, setVars,
         OneSetter
<1>2. Setting(s) /\ ChainInv(s) /\ TopInv(s) BY <1>1 DEF CurrentInv, Setting
<1>3. PICK x \in Vars : x = var[s] BY <1>1 DEF LoopTypes
<1>4. PICK n \in Nat : n = Depth(s) BY <1>1, ChainVars
<1>5. Chain(s, n + 1) = x /\ \A i \in 1..n : Chain(s, i) = stack[s][i].var
  BY <1>1, <1>3, <1>4, ChainVars
<1>6. /\ m_val'[x] = arg[s]
      /\ \A z \in Vars : z # x => m_val'[z] = m_val[z]
  BY <1>1, <1>3
<1>7. Early(x) # {} => ToldAll(x, m_val[x])'
  <2> SUFFICES ASSUME Early(x) # {} PROVE ToldAll(x, m_val[x])'
    OBVIOUS
  <2>1. ToldAll(x, arg[s]) BY <1>1, <1>2, <1>3 DEF TopInv
  <2>2. Passes(x) => NextVar(x) # x
    <3>1. n + 1 \in 1..n + 1 OBVIOUS
    <3> QED BY <1>1, <1>2, <1>3, <1>4, <1>5, <3>1, NextIsNew
  <2>3. Passes(x) => NextVar(x) \in Vars BY ConfigVarAssumption DEF Passes, NextVar
  <2> QED BY <1>1, <1>6, <2>1, <2>2, <2>3 DEF ToldAll, Passes, NextVar
<1>8. ASSUME NEW z \in Vars, Passes(z), NextVar(z) = x PROVE n # 0 /\ z = Chain(s, n)
  <2>1. n # 0
    <3>1. NextVar(z) \notin Inputs BY <1>8 DEF Pipeline, Passes, NextVar
    <3>2. ASSUME n = 0 PROVE FALSE
      <4>1. Chain(s, 1) \in Inputs BY <1>2 DEF ChainInv
      <4>2. n + 1 = 1 BY <3>2
      <4> QED BY <1>5, <1>8, <3>1, <4>1, <4>2
    <3> QED BY <3>2
  <2>2. n \in 1..n BY <2>1
  <2>3. Passes(Chain(s, n)) /\ NextVar(Chain(s, n)) = NextVar(z)
    BY <1>2, <1>4, <1>5, <1>8, <2>2 DEF ChainInv
  <2> QED BY <1>8, <2>1, <2>3 DEF Pipeline, Passes, NextVar
<1>9. ASSUME NEW z \in Vars, \A i \in 1..n : z # Chain(s, i), Early(z) # {}
      PROVE  ToldAll(z, m_val[z])'
  <2>1. CASE z = x BY <1>7, <1>9, <2>1
  <2>2. CASE z # x
    <3>1. \A i \in 1..n + 1 : i \in 1..n \/ i = n + 1 OBVIOUS
    <3>2. ~Active(s, z) BY <1>4, <1>5, <1>9, <2>2, <3>1 DEF Active
    <3>3. ToldAll(z, m_val[z]) BY <1>1, <1>9, <3>2 DEF CurrentInv
    <3>4. Passes(z) => NextVar(z) # x
      <4>1. n # 0 => n \in 1..n OBVIOUS
      <4> QED BY <1>8, <1>9, <4>1
    <3>5. Passes(z) => NextVar(z) \in Vars BY ConfigVarAssumption DEF Passes, NextVar
    <3> QED BY <1>1, <1>6, <2>2, <3>3, <3>4, <3>5 DEF ToldAll, Passes, NextVar
  <2> QED BY <2>1, <2>2
<1>10. \A z : Early(z)' = Early(z) BY <1>1 DEF Early
<1>11. CASE stack[s] = <<>>
  <2>1. pc'[s] = "idle" BY <1>1, <1>11, LeaveTypes DEF Return
  <2>2. n = 0 BY <1>4, <1>11 DEF Depth
  <2>3. \A z \in Vars : Early(z)' # {} => ToldAll(z, m_val[z])' BY <1>9, <1>10, <2>2
  <2>4. ~Setting(s)' BY <2>1 DEF Setting
  <2> QED BY <1>1, <2>3, <2>4 DEF CurrentInv
<1>12. CASE stack[s] # <<>>
  <2>1. /\ n \in 1..n /\ n - 1 \in Nat /\ n = (n - 1) + 1 /\ n # 0
    BY <1>1, <1>4, <1>12 DEF Depth, LoopTypes
  <2>2. PICK f : f = stack[s][n] OBVIOUS
  <2>3. PICK w \in Vars : w = Chain(s, n)
    <3>1. n \in 1..Depth(s) + 1 BY <1>4, <2>1
    <3> QED BY <1>1, <3>1, ChainVars
  <2>4. /\ f.var = w /\ f.arg = arg[s] /\ Early(w) \cap f.todo = {}
        /\ Passes(w) /\ NextVar(w) = x /\ told[w][EarlyCb] = arg[s]
    BY <1>2, <1>4, <1>5, <2>1, <2>2, <2>3 DEF ChainInv
  <2>5. /\ stack' = [stack EXCEPT ![s] = SubSeq(stack[s], 1, n - 1)]
        /\ var' = [var EXCEPT ![s] = f.var] /\ arg' = [arg EXCEPT ![s] = f.arg]
        /\ todo' = [todo EXCEPT ![s] = f.todo] /\ pc' = [pc EXCEPT ![s] = "notify"]
    BY <1>1, <1>4, <1>12, <2>2 DEF Return, Goto, Depth
  <2>6. /\ stack'[s] = SubSeq(stack[s], 1, n - 1) /\ var'[s] = w /\ arg'[s] = arg[s]
        /\ todo'[s] = f.todo /\ pc'[s] = "notify"
    BY <1>1, <2>4, <2>5 DEF LoopTypes
  <2>7. stack[s] \in Seq(Frame) /\ Len(stack[s]) = n BY <1>1, <1>4 DEF LoopTypes, Depth
  <2>8. Len(stack'[s]) = n - 1 /\ \A i \in 1..n - 1 : stack'[s][i] = stack[s][i]
    <3>1. PICK q \in Seq(Frame) : q = stack[s] /\ Len(q) = n BY <2>7
    <3>2. /\ Len(SubSeq(q, 1, n - 1)) = n - 1
          /\ \A i \in 1..n - 1 : SubSeq(q, 1, n - 1)[i] = q[i]
      BY <2>1, <3>1
    <3> QED BY <2>6, <3>1, <3>2
  <2>9. Depth(s)' = n - 1 BY <2>8 DEF Depth
  <2>10. \A i \in 1..n : Chain(s, i)' = Chain(s, i)
    <3>1. \A i \in 1..n - 1 : Chain(s, i)' = stack'[s][i].var BY <2>9 DEF Chain
    <3>2. Chain(s, n)' = w BY <2>1, <2>6, <2>9 DEF Chain
    <3>3. \A i \in 1..n : i \in 1..n - 1 \/ i = n BY <2>1
    <3> QED BY <1>5, <2>3, <2>8, <3>1, <3>2, <3>3
  <2>11. ChainInv(s)'
    <3>1. Chain(s, 1)' \in Inputs BY <1>2, <2>1, <2>10 DEF ChainInv
    <3>2. ASSUME NEW i \in 1..n - 1
          PROVE  /\ Passes(Chain(s, i)') /\ Chain(s, i + 1)' = NextVar(Chain(s, i)')
                 /\ stack'[s][i].arg = arg'[s] /\ told'[Chain(s, i)'][EarlyCb] = arg'[s]
                 /\ Early(Chain(s, i))' \cap stack'[s][i].todo = {}
      <4>1. i \in 1..n /\ i + 1 \in 1..n BY <2>1
      <4>2. PICK z : z = Chain(s, i) OBVIOUS
      <4>3. Chain(s, i)' = z /\ Chain(s, i + 1)' = Chain(s, i + 1) BY <2>10, <4>1, <4>2
      <4>4. Early(Chain(s, i))' = Early(z) BY <1>10, <4>3 DEF Early
      <4>5. /\ Passes(z) /\ Chain(s, i + 1) = NextVar(z) /\ stack[s][i].arg = arg[s]
            /\ told[z][EarlyCb] = arg[s] /\ Early(z) \cap stack[s][i].todo = {}
        BY <1>2, <1>4, <4>1, <4>2 DEF ChainInv
      <4> QED BY <1>1, <2>6, <2>8, <4>3, <4>4, <4>5
    <3>3. ASSUME NEW i \in 1..n, NEW j \in 1..n, Chain(s, i)' = Chain(s, j)' PROVE i = j
      <4>1. i \in 1..n + 1 /\ j \in 1..n + 1 BY <2>1
      <4> QED BY <1>2, <1>4, <2>10, <3>3, <4>1 DEF ChainInv
    <3> QED BY <2>1, <2>9, <3>1, <3>2, <3>3 DEF ChainInv, Passes, NextVar
  <2>12. TopInv(s)'
    <3>1. ToldAll(w, arg[s])' BY <1>1, <1>6, <2>4, <2>6 DEF ToldAll, Passes, NextVar
    <3>2. \A k \in Early(w) : k \notin todo'[s] BY <2>4, <2>6
    <3>3. Early(var[s])' = Early(w) BY <1>10, <2>6 DEF Early
    <3> QED BY <2>6, <3>1, <3>2, <3>3 DEF TopInv, ToldAll, Passes, NextVar
  <2>13. ASSUME NEW z \in Vars, ~Active(s, z)', Early(z)' # {} PROVE ToldAll(z, m_val[z])'
    <3>1. Setting(s)' BY <2>6 DEF Setting
    <3>2. \A i \in 1..n : z # Chain(s, i) BY <2>1, <2>9, <2>10, <2>13, <3>1 DEF Active
    <3> QED BY <1>9, <1>10, <2>13, <3>2
  <2> QED BY <1>1, <2>11, <2>12, <2>13 DEF CurrentInv
<1> QED BY <1>11, <1>12

\* The threads that register and remove listeners set and tell nothing, and
\* register no early listener.
LEMMA AdminKeeps ==
    ASSUME CurrentTypes, LoopInv, NEW t \in Admins, AdminNext(t)
    PROVE  /\ UNCHANGED <<m_val, stack>>
           /\ \A x \in Vars : Early(x)' \subseteq Early(x)
           /\ \A x \in Vars : told'[x][EarlyCb] = told[x][EarlyCb]
           /\ ~Setting(t) /\ ~Setting(t)'
           /\ \A u \in Threads \ {t} : /\ pc'[u] = pc[u] /\ var'[u] = var[u]
                                       /\ arg'[u] = arg[u] /\ todo'[u] = todo[u]
           /\ CurrentTypes'
<1>1. t \in Threads /\ LoopTypes BY DEF Threads, LoopInv
<1>2. /\ EarlyCb \in Callbacks /\ EarlyCb \notin Cbs
      /\ told \in [Vars -> [Callbacks -> Values]] /\ m_val \in [Vars -> Values]
      /\ DOMAIN m_cbs = Vars
  BY <1>1, ConfigVarAssumption DEF Callbacks, CurrentTypes, LoopTypes
<1> DEFINE Others == \A u \in Threads \ {t} : /\ pc'[u] = pc[u] /\ var'[u] = var[u]
                                             /\ arg'[u] = arg[u] /\ todo'[u] = todo[u]
                                             /\ cb'[u] = cb[u]
           Result == /\ UNCHANGED <<m_val, stack>> /\ Others
                     /\ \A x \in Vars : Early(x)' \subseteq Early(x)
                     /\ \A x \in Vars : told'[x][EarlyCb] = told[x][EarlyCb]
                     /\ ~Setting(t) /\ ~Setting(t)' /\ CurrentTypes'
<1>3. ASSUME UNCHANGED <<m_val, told, stack>>, \A x \in Vars : Early(x)' \subseteq Early(x),
             Others, pc[t] \notin {"notify", "write"}, pc'[t] \notin {"set", "notify", "write"},
             pc'[t] \in Pending => cb'[t] \in Cbs
      PROVE  Result
  <2>1. \A u \in Threads : pc'[u] \in Pending => cb'[u] \in Cbs
    BY <1>3 DEF CurrentTypes
  <2>2. \A u \in Threads : pc'[u] = "set" => var'[u] \in Inputs
    BY <1>3 DEF CurrentTypes
  <2>3. CurrentTypes' BY <1>3, <2>1, <2>2 DEF CurrentTypes
  <2> QED BY <1>3, <2>3 DEF Setting
<1>4. ASSUME NEW x \in Listened, NEW c \in Cbs, AddCall(t, x, c) PROVE Result
  <2>1. /\ pc[t] = "idle" /\ pc' = [pc EXCEPT ![t] = "add"] /\ var' = [var EXCEPT ![t] = x]
        /\ cb' = [cb EXCEPT ![t] = c] /\ UNCHANGED <<m_val, m_cbs, told, stack, arg, todo>>
    BY <1>4 DEF AddCall, Call, Goto, setVars
  <2>2. pc'[t] = "add" /\ cb'[t] = c /\ Others BY <1>1, <2>1 DEF LoopTypes
  <2>3. \A z \in Vars : Early(z)' \subseteq Early(z) BY <2>1 DEF Early
  <2> QED BY <1>3, <2>1, <2>2, <2>3
<1>5. CASE AddLoad(t) \/ AddStore(t)
  <2>1. /\ pc[t] \in Pending /\ \E w \in {"addStore", "addInsert"} : pc' = [pc EXCEPT ![t] = w]
        /\ pc[t] \notin {"notify", "write"}
        /\ UNCHANGED <<m_val, m_cbs, told, stack, var, arg, cb, todo>>
    BY <1>5 DEF AddLoad, AddStore, Goto, Pending, Counting, callVars, setVars
  <2>2. pc'[t] \in {"addStore", "addInsert"} /\ Others BY <1>1, <2>1 DEF LoopTypes
  <2>3. cb'[t] \in Cbs BY <1>1, <2>1 DEF CurrentTypes
  <2>4. \A z \in Vars : Early(z)' \subseteq Early(z) BY <2>1 DEF Early
  <2> QED BY <1>3, <2>1, <2>2, <2>3, <2>4
<1>6. CASE AddInsert(t)
  <2>1. /\ pc[t] = "addInsert" /\ pc' = [pc EXCEPT ![t] = "addReturn"]
        /\ m_cbs' = [m_cbs EXCEPT ![var[t]] =
                      [k \in DOMAIN m_cbs[var[t]] \cup {s_fun_id} |->
                        IF k = s_fun_id THEN cb[t] ELSE m_cbs[var[t]][k]]]
        /\ told' = [told EXCEPT ![var[t]][cb[t]] = m_val[var[t]]]
        /\ UNCHANGED <<m_val, stack, todo, arg, var, cb>>
    BY <1>6 DEF AddInsert, Goto, callVars
  <2>2. PICK x \in Vars : x = var[t] BY <1>1 DEF LoopTypes
  <2>3. PICK c \in Cbs : c = cb[t] BY <1>1, <2>1 DEF CurrentTypes, Pending, Counting
  <2>4. c # EarlyCb BY <1>2
  <2>5. /\ m_cbs'[x] = [k \in DOMAIN m_cbs[x] \cup {s_fun_id} |->
                          IF k = s_fun_id THEN c ELSE m_cbs[x][k]]
        /\ \A z \in Vars : z # x => m_cbs'[z] = m_cbs[z]
    BY <1>2, <2>1, <2>2, <2>3
  <2>6. Early(x)' \subseteq Early(x)
    <3> SUFFICES ASSUME NEW k \in DOMAIN m_cbs'[x], m_cbs'[x][k] = EarlyCb
                 PROVE  k \in DOMAIN m_cbs[x] /\ m_cbs[x][k] = EarlyCb
      BY DEF Early
    <3> QED BY <2>4, <2>5
  <2>7. \A z \in Vars : Early(z)' \subseteq Early(z) BY <2>5, <2>6 DEF Early
  <2>8. told' = [told EXCEPT ![x][c] = m_val[x]] BY <2>1, <2>2, <2>3
  <2>9. \A z \in Vars : told'[z][EarlyCb] = told[z][EarlyCb]
    BY <1>2, <2>4, <2>8
  <2>10. told' \in [Vars -> [Callbacks -> Values]] BY <1>2, <2>8
  <2>11. pc'[t] = "addReturn" /\ Others BY <1>1, <2>1 DEF LoopTypes
  <2>12. \A u \in Threads : /\ pc'[u] \in Pending => cb'[u] \in Cbs
                            /\ pc'[u] = "set" => var'[u] \in Inputs
    BY <2>1, <2>3, <2>11 DEF CurrentTypes
  <2>13. ~Setting(t) /\ ~Setting(t)' BY <2>1, <2>11 DEF Setting
  <2> QED BY <2>1, <2>7, <2>9, <2>10, <2>11, <2>12, <2>13 DEF CurrentTypes
<1>7. ASSUME pc[t] \in {"addReturn", "del", "clear"}, Leave(t), UNCHANGED <<m_val, told, stack>>,
             UNCHANGED m_cbs \/ \E x, K : Erase(x, K)
      PROVE  Result
  <2>1. \A z \in Vars : /\ DOMAIN m_cbs'[z] \subseteq DOMAIN m_cbs[z]
                        /\ \A k \in DOMAIN m_cbs'[z] : m_cbs'[z][k] = m_cbs[z][k]
    <3>1. CASE UNCHANGED m_cbs BY <3>1
    <3>2. ASSUME NEW x, NEW K, Erase(x, K)
          PROVE  \A z \in Vars : /\ DOMAIN m_cbs'[z] \subseteq DOMAIN m_cbs[z]
                                 /\ \A k \in DOMAIN m_cbs'[z] : m_cbs'[z][k] = m_cbs[z][k]
      <4>1. m_cbs' = [m_cbs EXCEPT ![x] = [k \in DOMAIN m_cbs[x] \ K |-> m_cbs[x][k]]]
        BY <3>2 DEF Erase, Restrict
      <4>2. \A z \in Vars : z # x => m_cbs'[z] = m_cbs[z] BY <1>2, <4>1
      <4>3. x \in Vars => m_cbs'[x] = [k \in DOMAIN m_cbs[x] \ K |-> m_cbs[x][k]]
        BY <1>2, <4>1
      <4> QED BY <4>2, <4>3
    <3>3. CASE \E x, K : Erase(x, K) BY <3>2, <3>3
    <3> QED BY <1>7, <3>1, <3>3
  <2>2. \A z \in Vars : Early(z)' \subseteq Early(z) BY <2>1 DEF Early
  <2>3. pc'[t] = "idle" /\ Others BY <1>1, <1>7, LeaveTypes
  <2> QED BY <1>3, <1>7, <2>2, <2>3 DEF Pending, Counting
<1>8. CASE AddReturn(t) BY <1>7, <1>8 DEF AddReturn, setVars
<1>9. CASE delListener(t) BY <1>7, <1>9 DEF delListener, setVars
<1>10. CASE clearListener(t) BY <1>7, <1>10 DEF clearListener, setVars
<1>11. ASSUME NEW w \in {"del", "clear"}, pc[t] = "idle", pc' = [pc EXCEPT ![t] = w],
              NEW x, var' = [var EXCEPT ![t] = x],
              cb' = [cb EXCEPT ![t] = cb'[t]],
              UNCHANGED <<m_val, m_cbs, told, stack, arg, todo>>
       PROVE  Result
  <2>1. pc'[t] = w /\ Others BY <1>1, <1>11 DEF LoopTypes
  <2>2. \A z \in Vars : Early(z)' \subseteq Early(z) BY <1>11 DEF Early
  <2> QED BY <1>3, <1>11, <2>1, <2>2 DEF Pending, Counting
<1>12. ASSUME NEW h \in handles[t], DelCall(t, h) PROVE Result
  <2>1. cb' = [cb EXCEPT ![t] = h.cb] /\ cb'[t] = h.cb
    BY <1>1, <1>12 DEF DelCall, LoopTypes
  <2> QED BY <1>11, <1>12, <2>1 DEF DelCall, Call, Goto, setVars
<1>13. ASSUME NEW x \in Listened, ClearCall(t, x) PROVE Result
  <2>1. cb' = [cb EXCEPT ![t] = cb'[t]] BY <1>1, <1>13 DEF ClearCall, LoopTypes
  <2> QED BY <1>11, <1>13, <2>1 DEF ClearCall, Call, Goto, cbVars, setVars
<1>14. CASE \E x \in Listened, c \in Cbs : AddCall(t, x, c) BY <1>4, <1>14
<1>15. CASE \E h \in handles[t] : DelCall(t, h) BY <1>12, <1>15
<1>16. CASE \E x \in Listened : ClearCall(t, x) BY <1>13, <1>16
<1> QED
  BY <1>5, <1>6, <1>8, <1>9, <1>10, <1>14, <1>15, <1>16 DEF AdminNext, addListener

\* setValue keeps the types.
LEMMA SetterTypes ==
    ASSUME CurrentTypes, LoopInv, NEW t \in Setters, SetterNext(t)
    PROVE  CurrentTypes'
<1>1. t \in Threads /\ LoopTypes BY DEF Threads, LoopInv
<1>2. /\ m_val \in [Vars -> Values] /\ told \in [Vars -> [Callbacks -> Values]]
      /\ arg[t] \in Values
  BY <1>1 DEF CurrentTypes, LoopTypes
<1>3. /\ UNCHANGED m_cbs
      /\ UNCHANGED m_val \/ m_val' = [m_val EXCEPT ![var[t]] = arg[t]]
      /\ UNCHANGED told \/ told' = [told EXCEPT ![var[t]][Reached(t)] = arg[t]]
  BY DEF SetterNext, setValue, SetCall, SetBegin, SetSame, Notify, NotifyForward,
         NotifyThrows, SetUnlock, SetWrite, cbVars, setVars
<1>4. m_val' \in [Vars -> Values] BY <1>2, <1>3
<1>5. told' \in [Vars -> [Callbacks -> Values]]
  <2>1. CASE UNCHANGED told BY <1>2, <2>1
  <2>2. CASE told' = [told EXCEPT ![var[t]][Reached(t)] = arg[t]]
    <3>1. PICK x \in Vars : x = var[t] BY <1>1 DEF LoopTypes
    <3>2. PICK c : c = Reached(t) OBVIOUS
    <3>3. PICK v \in Values : v = arg[t] BY <1>2
    <3>4. told' = [told EXCEPT ![x] = [told[x] EXCEPT ![c] = v]]
      BY <2>2, <3>1, <3>2, <3>3
    <3>5. [told[x] EXCEPT ![c] = v] \in [Callbacks -> Values] BY <1>2
    <3> QED BY <1>2, <3>4, <3>5
  <2> QED BY <1>3, <2>1, <2>2
<1>6. ASSUME NEW u \in Threads
      PROVE  /\ pc'[u] \in Pending => cb'[u] \in Cbs
             /\ pc'[u] = "set" => var'[u] \in Inputs
  <2>1. ASSUME NEW x \in Inputs, NEW v \in Values, SetCall(t, x, v)
        PROVE  /\ pc' = [pc EXCEPT ![t] = "set"] /\ var' = [var EXCEPT ![t] = x] /\ cb' = cb
               /\ pc'[t] = "set" /\ var'[t] = x
    BY <1>1, <2>1 DEF SetCall, Call, Goto, LoopTypes
  <2>2. ASSUME NEW x \in Inputs, NEW v \in Values, SetCall(t, x, v)
        PROVE  /\ pc'[u] \in Pending => cb'[u] \in Cbs
               /\ pc'[u] = "set" => var'[u] \in Inputs
    <3>1. CASE u = t BY <2>1, <2>2, <3>1 DEF Pending, Counting
    <3>2. CASE u # t BY <1>1, <2>1, <2>2, <3>2 DEF CurrentTypes, LoopTypes
    <3> QED BY <3>1, <3>2
  <2>3. ASSUME Leave(t)
        PROVE  /\ pc'[u] \in Pending => cb'[u] \in Cbs
               /\ pc'[u] = "set" => var'[u] \in Inputs
    <3>1. CASE u = t BY <1>1, <2>3, <3>1, LeaveTypes DEF Pending, Counting
    <3>2. CASE u # t BY <1>1, <2>3, <3>2, LeaveTypes DEF CurrentTypes
    <3> QED BY <3>1, <3>2
  <2>4. CASE /\ pc'[t] \in {"notify", "write"} /\ UNCHANGED cb
             /\ \A z \in Threads \ {t} : pc'[z] = pc[z] /\ var'[z] = var[z]
    <3>1. CASE u = t BY <2>4, <3>1 DEF Pending, Counting
    <3>2. CASE u # t BY <2>4, <3>2 DEF CurrentTypes
    <3> QED BY <3>1, <3>2
  <2>5. CASE SetBegin(t) \/ Notify(t) \/ NotifyForward(t) \/ SetUnlock(t)
    <3>1. /\ \/ UNCHANGED pc /\ pc[t] = "notify"
             \/ \E w \in {"notify", "write"} : pc' = [pc EXCEPT ![t] = w]
          /\ UNCHANGED var \/ \E x : var' = [var EXCEPT ![t] = x]
          /\ UNCHANGED cb
      BY <2>5 DEF SetBegin, Notify, NotifyForward, SetUnlock, Goto, callVars
    <3> QED BY <1>1, <2>4, <3>1 DEF LoopTypes
  <2>6. CASE SetWrite(t)
    <3>1. CASE stack[t] = <<>> BY <2>3, <2>6, <3>1 DEF SetWrite, Return
    <3>2. CASE stack[t] # <<>>
      BY <1>1, <2>4, <2>6, <3>2 DEF SetWrite, Return, Goto, LoopTypes
    <3> QED BY <3>1, <3>2
  <2>7. CASE SetSame(t) \/ NotifyThrows(t) BY <2>3, <2>7 DEF SetSame, NotifyThrows
  <2> QED BY <2>2, <2>5, <2>6, <2>7 DEF SetterNext, setValue
<1> QED BY <1>3, <1>4, <1>5, <1>6 DEF CurrentTypes, Early

\* A call of setValue is made, or finds that the variable has the value.
LEMMA CurrentCall ==
    ASSUME CurrentInv, LoopInv, CurrentTypes', NEW s \in Setters,
           SetSame(s) \/ \E x \in Inputs, v \in Values : SetCall(s, x, v)
    PROVE  CurrentInv'
<1>1. s \in Threads /\ LoopTypes BY DEF Threads, LoopInv
<1>2. UNCHANGED <<m_val, m_cbs, told, stack>> BY DEF SetSame, SetCall, cbVars, setVars
<1>3. /\ pc[s] \in {"idle", "set"} /\ pc'[s] \in {"idle", "set"}
      /\ \A u \in Threads \ {s} : /\ pc'[u] = pc[u] /\ var'[u] = var[u]
                                  /\ arg'[u] = arg[u] /\ todo'[u] = todo[u]
  <2>1. CASE SetSame(s) BY <1>1, <2>1, LeaveTypes DEF SetSame
  <2>2. CASE \E x \in Inputs, v \in Values : SetCall(s, x, v)
    BY <1>1, <2>2 DEF SetCall, Call, Goto, LoopTypes
  <2> QED BY <2>1, <2>2
<1>4. \A u \in Setters : /\ Setting(u)' <=> Setting(u)
                         /\ Setting(u) => u \in Threads \ {s}
  BY <1>3 DEF Setting, Threads
<1> QED BY <1>2, <1>3, <1>4, CurrentFrame DEF Early

\* Every step keeps who knows the value.
LEMMA CurrentStep ==
    ASSUME OneSetter, Pipeline, CurrentInv, LoopInv, [Next]_vars
    PROVE  CurrentInv'
<1>1. CurrentTypes BY DEF CurrentInv
<1>2. CASE \E t \in Setters : SetterNext(t)
  <2>1. PICK s \in Setters : SetterNext(s) BY <1>2
  <2>2. CurrentTypes' BY <1>1, <2>1, SetterTypes
  <2>3. CASE SetBegin(s) BY <2>2, <2>3, CurrentBegin
  <2>4. CASE SetSame(s) \/ \E x \in Inputs, v \in Values : SetCall(s, x, v)
    BY <2>2, <2>4, CurrentCall
  <2>5. CASE Notify(s)
    <3>1. /\ pc[s] = "notify" /\ todo[s] # {} /\ ~Forwards(s)
          /\ UNCHANGED <<m_val, m_cbs, stack, var, arg, pc>>
          /\ told' = [told EXCEPT ![var[s]][Reached(s)] = arg[s]]
          /\ todo' = [todo EXCEPT ![s] = todo[s] \ {Min(todo[s])}]
      BY <2>5 DEF Notify, cbVars
    <3> QED BY <2>2, <3>1, CurrentTell
  <2>6. CASE NotifyForward(s) BY <2>2, <2>6, CurrentForward
  <2>7. CASE SetUnlock(s) BY <2>2, <2>7, CurrentUnlock
  <2>8. CASE SetWrite(s) BY <2>2, <2>8, CurrentWrite
  <2>9. CASE NotifyThrows(s) BY <2>2, <2>9, CurrentThrows
  <2> QED BY <2>1, <2>3, <2>4, <2>5, <2>6, <2>7, <2>8, <2>9 DEF SetterNext, setValue
<1>3. CASE \E t \in Admins : AdminNext(t)
  <2>1. PICK t \in Admins : AdminNext(t) BY <1>3
  <2>2. /\ UNCHANGED <<m_val, stack>> /\ CurrentTypes'
        /\ \A x \in Vars : Early(x)' \subseteq Early(x)
        /\ \A x \in Vars : told'[x][EarlyCb] = told[x][EarlyCb]
        /\ ~Setting(t) /\ ~Setting(t)'
        /\ \A u \in Threads \ {t} : /\ pc'[u] = pc[u] /\ var'[u] = var[u]
                                    /\ arg'[u] = arg[u] /\ todo'[u] = todo[u]
    BY <1>1, <2>1, AdminKeeps
  <2>3. \A s \in Setters : /\ Setting(s)' <=> Setting(s)
                           /\ Setting(s) => s \in Threads \ {t}
    BY <2>2 DEF Setting, Threads
  <2> QED BY <2>2, <2>3, CurrentFrame
<1>4. CASE Finished \/ UNCHANGED vars
  <2>1. UNCHANGED <<m_val, m_cbs, told, pc, stack, var, arg, todo, cb>>
    BY <1>4 DEF Finished, vars, cbVars, callVars, setVars
  <2>2. CurrentTypes' BY <1>1, <2>1 DEF CurrentTypes, Early
  <2> QED BY <2>1, <2>2, CurrentFrame DEF Early, Setting
<1> QED BY <1>2, <1>3, <1>4 DEF Next

(***************************************************************************)
(* With one thread that sets, and early listeners that set variables of    *)
(* their own and no one else's, the listeners know the values after        *)
(* setValue, and what they set has them, through chains of any length and  *)
(* while threads add and remove other listeners.                           *)
(***************************************************************************)
THEOREM ListenersAreCurrent ==
    ASSUME OneSetter, Pipeline PROVE Spec => []ListenersCurrent
<1>1. ASSUME LoopInv, CurrentInv PROVE ListenersCurrent
  <2> SUFFICES ASSUME NEW x \in Vars, Quiet(x), EarlyCb \in Range(m_cbs[x])
               PROVE  ToldAll(x, m_val[x])
    BY DEF ListenersCurrent, CurrentBut, ToldAll, Passes, NextVar
  <2>1. Early(x) # {} BY DEF Early, Range
  <2>2. ASSUME NEW s \in Setters, Active(s, x) PROVE FALSE
    <3>1. s \in Threads /\ LoopTypes /\ Setting(s) BY <1>1, <2>2 DEF Threads, LoopInv, Active
    <3>2. PICK n \in Nat : n = Depth(s) BY <3>1, ChainVars
    <3>3. PICK i \in 1..n + 1 : x = Chain(s, i) BY <2>2, <3>2 DEF Active
    <3>4. x # var[s] BY <3>1 DEF Quiet, Inside, Setting
    <3>5. i \in 1..n BY <3>2, <3>3, <3>4 DEF Chain
    <3>6. x = stack[s][i].var /\ i \in DOMAIN stack[s]
      BY <3>1, <3>2, <3>3, <3>5 DEF Chain, Depth, LoopTypes
    <3> QED BY <3>1, <3>6 DEF Quiet, Inside
  <2> QED BY <1>1, <2>1, <2>2 DEF CurrentInv
<1> QED BY <1>1, LoopInit, LoopStep, CurrentInit, CurrentStep, PTL DEF Spec
=============================================================================
