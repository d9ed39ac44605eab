---------------------------- MODULE MCRoomCache ----------------------------
EXTENDS RoomCache, TLC

Symmetry == Permutations(User) \cup Permutations(Reader)
=============================================================================
