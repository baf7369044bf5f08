CONSTANTS
    Fibers = {f1, f2, f3}
    Jobs = {j1, j2}
    NoJob = NoJob
    Workers = {w1, w2}
    Caller = caller
    UseCaller = FALSE
    NoFiber = NoFiber
    AnyThread = AnyThread
    Pins = {AnyThread}
    BodyOps = {"hold", "wake"}
    MaxYields = 2
    MaxStops = 1
SPECIFICATION Spec
INVARIANT NoStaleResume
CHECK_DEADLOCK FALSE
