---------------------------- MODULE MCChronosRaft ----------------------------
EXTENDS ChronosRaft, TLC
Symmetry == Permutations(Server)
=============================================================================
