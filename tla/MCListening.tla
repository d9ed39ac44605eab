---------------------------- MODULE MCListening ----------------------------
EXTENDS Listening, TLC

Symmetry == Permutations(User)
=============================================================================
