--------------------------- MODULE RoomRefinement ---------------------------
(* RoomMembership keeps the promises of RoomContract as long as the joins  *)
(* come one at a time and so do the departures.                            *)
EXTENDS RoomMembership

Contract == INSTANCE RoomContract
    WITH open <- phase, host <- hostId, since <- [u \in Active |-> joinedAt[u]]

(* Every step of every request, however many messages, queue entries and    *)
(* playback commands come in between, is a step of the contract or none.   *)
ImplementsContract == Contract!Spec
=============================================================================
