CONSTANTS
    Setters = {t1}
    LogNames <- MCLogNames
    Absent = Absent
    Texts <- All
    Default = "f0"
    Bad = {"bad"}
SPECIFICATION Spec
INVARIANT AsLoaded
