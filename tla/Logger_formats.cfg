CONSTANTS
    Admins = {t1, t2}
    Writers = {w1}
    NoThread = NoThread
    Root = root
    Named = {l1}
    Appenders = {con, a, b}
    Console = con
    FileAppenders = {b}
    Shared = {}
    Detachable = {}
    Formatters = {f0, f1}
    Default = f0
    NoFormatter = NoFormatter
    OwnFormats = {f1}
    Events = {e1}
    Interval = 1
    MaxTime = 1
SPECIFICATION Spec
INVARIANT LoggerTypeOK
INVARIANT AttachedHaveFormatter
INVARIANT Inherits
INVARIANT OneFormat
PROPERTY OwnFormatterKept
