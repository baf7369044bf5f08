----------------------------- MODULE MCConfigVar -----------------------------
(***************************************************************************)
(* Configuration variables for TLC.                                        *)
(***************************************************************************)
EXTENDS ConfigVar

CONSTANTS x, y, v1, v2

\* The early listener of x sets y.
ToY == [f \in {<<x, EarlyCb>>} |-> y]
\* Which listener may throw.
First == {<<x, EarlyCb>>}
Later == {<<x, c>> : c \in Cbs}
Nested == {<<y, EarlyCb>>}
\* Listeners that set what they listen to, at once or in a circle.
Itself == [f \in {<<x, EarlyCb>>} |-> x]
Circle == [f \in {<<x, EarlyCb>>, <<y, EarlyCb>>} |-> IF f[1] = x THEN y ELSE x]
\* Of those in a circle, one passes on v1 only, and the other one v2.
Crossed == ({x} \X (Values \ {v1})) \cup ({y} \X (Values \ {v2}))
=============================================================================
