---------------------------- MODULE MCLeaseClock ----------------------------
EXTENDS LeaseClock, TLC
Symmetry == Permutations(Writers)
=============================================================================
