----------------------------- MODULE Listening -----------------------------
(***************************************************************************)
(* What is played against who may fetch it: Downloads composed with the    *)
(* track in each room's playback state.  The queue entry is what gives a   *)
(* member access to somebody else's track, and playing the entry ends it.  *)
(***************************************************************************)
EXTENDS Downloads

CONSTANT NoKey \* a model value outside Key

VARIABLE playing \* per room: trackId of its playback state

ListenInit == DownloadInit /\ playing = [r \in Room |-> NoKey]

(* skip without a track: the entry is deleted and its track is played, in  *)
(* one transaction.                                                        *)
SkipTo(r, k) ==
    /\ EntryDeleted(<<r, k>>)
    /\ playing' = [playing EXCEPT ![r] = k]

(* play, or skip, with a track: the queue is not asked.  The host, who     *)
(* commands it, is a member.                                               *)
PlayTrack(r, k) ==
    /\ members[r] # {} /\ Exists(k)
    /\ playing' = [playing EXCEPT ![r] = k]
    /\ UNCHANGED allVars

ListenNext ==
    \/ \E r \in Room, k \in Key : SkipTo(r, k) \/ PlayTrack(r, k)
    \/ DownloadNext /\ UNCHANGED playing

ListenSpec == ListenInit /\ [][ListenNext]_<<allVars, playing>>

-----------------------------------------------------------------------------
(* "Late joiners": the joining client asks for the state, and "starts      *)
(* locally from there".  A member who asks for the URL of the track that   *)
(* its room plays is not about to be refused.                              *)
MembersCanListen ==
    \A c \in Reader :
        LET u == reader[c].pair[1]
            k == reader[c].pair[2]
        IN reader[c].pc = "access" /\ (\E r \in Room : u \in members[r] /\ playing[r] = k)
             => QueuedInMemberRoom(u, k)
=============================================================================
