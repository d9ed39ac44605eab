----------------------------- MODULE MCRealtime -----------------------------
EXTENDS Realtime, TLC

Symmetry == Permutations(User) \cup Permutations(Socket) \cup Permutations(Handler)
=============================================================================
