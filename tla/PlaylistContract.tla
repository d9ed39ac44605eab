-------------------------- MODULE PlaylistContract --------------------------
(***************************************************************************)
(* What a room's queue promises, as if every command took effect at once:  *)
(* an entry leaves the queue to be played, from that very moment, if it    *)
(* was the oldest when it was chosen and is still there; or it is removed. *)
(* The host may also name a track, whether or not it was queued.           *)
(***************************************************************************)
EXTENDS Naturals

CONSTANTS Entry, Track, NoTrack, Time

VARIABLES
    waiting,  \* the entries in the queue
    info,     \* of every entry that came: when it was made, and its track
    chosen,   \* the entries that somebody is about to play
    played,   \* the entries that left to be played
    removed,  \* and those that were removed
    track     \* the track that is on, NoTrack before the first

vars == <<waiting, info, chosen, played, removed, track>>

Init ==
    /\ waiting = {} /\ info = [e \in {} |-> NoTrack]
    /\ chosen = {} /\ played = {} /\ removed = {} /\ track = NoTrack

(* Made a moment ago, it may be older than some that wait. *)
Add(e, r) ==
    /\ e \notin DOMAIN info
    /\ info' = [f \in DOMAIN info \cup {e} |-> IF f = e THEN r ELSE info[f]]
    /\ waiting' = waiting \cup {e}
    /\ UNCHANGED <<chosen, played, removed, track>>

Choose(e) ==
    /\ e \in waiting /\ \A f \in waiting : info[e].at <= info[f].at
    /\ chosen' = chosen \cup {e}
    /\ UNCHANGED <<waiting, info, played, removed, track>>

GiveUp == chosen' \subseteq chosen /\ UNCHANGED <<waiting, info, played, removed, track>>

PlayNext(e) ==
    /\ e \in waiting /\ e \in chosen
    /\ chosen' \subseteq chosen
    /\ waiting' = waiting \ {e} /\ played' = played \cup {e} /\ track' = info[e].track
    /\ UNCHANGED <<info, removed>>

Remove(e) ==
    /\ e \in waiting
    /\ waiting' = waiting \ {e} /\ removed' = removed \cup {e}
    /\ UNCHANGED <<info, chosen, played, track>>

(* The host names a track: the queue stays as it is. *)
PlayNamed(t) == track' = t /\ UNCHANGED <<waiting, info, chosen, played, removed>>

Next ==
    \/ \E e \in Entry :
          \/ \E r \in [at : Time, track : Track] : Add(e, r)
          \/ Choose(e) \/ PlayNext(e) \/ Remove(e)
    \/ GiveUp
    \/ \E t \in Track : PlayNamed(t)

Spec == Init /\ [][Next]_vars
=============================================================================
