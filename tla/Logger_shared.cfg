CONSTANTS
    Admins = {t1}
    Writers = {w1, w2}
    NoThread = NoThread
    Root = root
    Named = {l1}
    Appenders = {con, a}
    Console = con
    FileAppenders = {a}
    Shared = {con}
    Detachable = {a}
    Formatters = {f0, f1}
    Default = f0
    NoFormatter = NoFormatter
    OwnFormats = {f1}
    Events = {e1, e2}
    Interval = 1
    MaxTime = 2
SPECIFICATION Spec
SYMMETRY Symmetry
INVARIANT WrittenOnce
PROPERTY LostAreOlder
