------------------------- MODULE MCLeasedCheckpoint -------------------------
EXTENDS LeasedCheckpoint, TLC
Symmetry == Permutations(Processes)
=============================================================================
