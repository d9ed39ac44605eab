----------------------------- MODULE MCPlayback -----------------------------
EXTENDS Playback, TLC

Symmetry == Permutations(Cmd) \cup Permutations(Track)
=============================================================================
