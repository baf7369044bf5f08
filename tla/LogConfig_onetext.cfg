CONSTANTS
    Setters = {t1}
    LogNames <- MCLogNames
    Absent = Absent
    Texts <- Distinct
    Default = "f0"
    Bad = {"bad"}
SPECIFICATION Spec
INVARIANT LoggersMatch
INVARIANT AsLoaded
INVARIANT Reloads
PROPERTY OthersUntouched
