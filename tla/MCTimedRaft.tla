----------------------------- MODULE MCTimedRaft -----------------------------
EXTENDS TimedRaft, TLC
Symmetry == Permutations(Server)
=============================================================================
