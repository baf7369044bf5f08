CONSTANTS
    Children = {c1, c2, c3}
    Renamed = {c1}
    Loops = 2
    NoChild = NoChild
SPECIFICATION FairSpec
CHECK_DEADLOCK FALSE
INVARIANT ReadyWhenConstructed
INVARIANT NoDanglingThread
INVARIANT JoinedWorkIsDone
PROPERTY StartsAndEnds
