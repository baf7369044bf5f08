---------------------------- MODULE MCFiberThread ----------------------------
\* The thread-local side of fibers for TLC.
EXTENDS FiberThread, TLC

Symmetry == Permutations(Fibers)
=============================================================================
