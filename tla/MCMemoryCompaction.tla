------------------------- MODULE MCMemoryCompaction -------------------------
EXTENDS MemoryCompaction
CONSTANTS a, b
Symmetry == Permutations(Keys)
=============================================================================
