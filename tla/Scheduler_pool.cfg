CONSTANTS
    Fibers = {f1, f2, f3}
    Jobs = {j1, j2}
    NoJob = NoJob
    Workers = {w1, w2}
    Caller = caller
    UseCaller = FALSE
    NoFiber = NoFiber
    AnyThread = AnyThread
    Pins = {AnyThread}
    BodyOps = {"ready", "spawn", "throw"}
    MaxYields = 1
    MaxStops = 2
SPECIFICATION FairSpec
INVARIANT Ownership
INVARIANT TypeOK
INVARIANT ActiveCountExact
PROPERTY ImplementsTaskPool
PROPERTY StopReturns
PROPERTY JobServed
