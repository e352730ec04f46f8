--------------------------- MODULE MCAtomicStore ---------------------------
EXTENDS AtomicStore, TLC
Symmetry == Permutations(Worlds)
=============================================================================
