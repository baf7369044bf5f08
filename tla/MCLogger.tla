------------------------------- MODULE MCLogger -------------------------------
(***************************************************************************)
(* Loggers for TLC.                                                        *)
(***************************************************************************)
EXTENDS Logger, TLC

\* Which writer logs and which event it is makes no difference.
Symmetry == Permutations(Writers) \cup Permutations(Events)
=============================================================================
