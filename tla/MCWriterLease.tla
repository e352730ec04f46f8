--------------------------- MODULE MCWriterLease ---------------------------
EXTENDS WriterLease, TLC
Symmetry == Permutations(Writers)
=============================================================================
