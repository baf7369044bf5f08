CONSTANTS
    Letters = {"m", "d", "q"}
    Others = {"."}
    Long <- Nothing
    Literals = {"m", ".", "{", "}"}
    Names <- MCNames
    Fmts <- MCFmts
    Raw = {"m", ".", "%", "{", "}"}
    MaxTokens = 4
SPECIFICATION Spec
CHECK_DEADLOCK FALSE
INVARIANT Rendered
INVARIANT NothingLost
PROPERTY Terminates
