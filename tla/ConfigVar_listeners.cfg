CONSTANTS
    x = x
    y = y
    v1 = v1
    v2 = v2
    Setters = {s1, s2}
    Admins = {a1, a2}
    Vars = {x, y}
    Inputs = {x}
    Listened = {x, y}
    Values = {v0, v1}
    Default = v0
    Cbs = {c1, c2}
    EarlyCb = c0
    MayThrow <- First
    Forward <- ToY
    Kept = {}
    NoThread = NoThread
    MaxCalls = 4
SPECIFICATION FairSpec
INVARIANT IterationStable
INVARIANT NoCallAfterRemoval
INVARIANT KeysOwn
INVARIANT ListenersCurrent
PROPERTY CallsReturn
