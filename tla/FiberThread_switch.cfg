SPECIFICATION Spec
CONSTANTS
    Fibers = {f1, f2, f3, f4, f5}
    Callers = {c}
    Pool = {w}
    Plain = {}
    NoFiber = NoFiber
    NoStack = NoStack
    Fault = Fault
    Gone = Gone
    Program = {}
SYMMETRY Symmetry
INVARIANT Wired
INVARIANT StackKept
PROPERTY ImplementsCoroutines
CHECK_DEADLOCK FALSE
