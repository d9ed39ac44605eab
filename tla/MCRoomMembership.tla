-------------------------- MODULE MCRoomMembership --------------------------
(* Symmetry for the runs of RoomMembership.  Slots are interchangeable only *)
(* where Joins and Departs hold all of them.                               *)
EXTENDS RoomRefinement, TLC

UserSymmetry == Permutations(User)
FullSymmetry == Permutations(User) \cup Permutations(Req)
=============================================================================
