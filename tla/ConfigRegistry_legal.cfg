CONSTANTS
    Registrars = {r1,r2}
    Loaders = {l1}
    Names <- MCNames
    Types <- MCTypes
    Defaults <- MCDefaults
    Keys = {"a", "b", "A", "n9"}
    Upper = {"A"}
    Lower <- MCLower
    Illegal = {"n9"}
    Documents <- Legal
    MaxCalls = 6
    FromStr <- MCFromStr
    ToStr <- MCToStr
    Same <- MCSame
    Dump <- MCDump
SPECIFICATION Spec
INVARIANT OneVariable
INVARIANT Loaded
INVARIANT RoundTrip
