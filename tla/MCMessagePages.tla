--------------------------- MODULE MCMessagePages ---------------------------
EXTENDS MessagePages, TLC

Symmetry == Permutations(Message)
=============================================================================
