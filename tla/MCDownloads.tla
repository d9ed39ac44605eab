---------------------------- MODULE MCDownloads ----------------------------
EXTENDS Downloads, TLC

Symmetry ==
    Permutations(User) \cup Permutations(Room) \cup Permutations(Request)
=============================================================================
