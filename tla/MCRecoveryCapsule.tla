------------------------- MODULE MCRecoveryCapsule -------------------------
EXTENDS RecoveryCapsule, TLC
Symmetry == Permutations(Worlds)
=============================================================================
