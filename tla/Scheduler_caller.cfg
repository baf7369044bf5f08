CONSTANTS
    Fibers = {f1, f2, f3}
    Jobs = {j1, j2}
    NoJob = NoJob
    Workers = {w1}
    Caller = caller
    UseCaller = TRUE
    NoFiber = NoFiber
    AnyThread = AnyThread
    Pins = {caller, w1}
    BodyOps = {"spawn", "throw", "hold", "wakeHeld"}
    MaxYields = 2
    MaxStops = 1
SPECIFICATION FairSpec
INVARIANT AssertionsHold
INVARIANT NoStaleResume
INVARIANT PinRespected
INVARIANT StopDrains
PROPERTY StopReturns
