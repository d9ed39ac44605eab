---------------------------- MODULE RoomContract ----------------------------
(***************************************************************************)
(* What a room promises its participants, whatever its implementation:     *)
(* never more of them than it has places, always a host who is one of      *)
(* them, and a host who leaves hands over to whoever has stayed longest.   *)
(***************************************************************************)
EXTENDS Naturals, FiniteSets

CONSTANTS User, MaxParticipants

VARIABLES
    open,   \* the room's life
    host,
    since,  \* for every participant, when the current stay began
    now

vars == <<open, host, since, now>>

Present == DOMAIN since

Init ==
    /\ open = "unborn" /\ host \in User /\ now = 0
    /\ since = [u \in {} |-> 0]

Open(u) ==
    /\ open = "unborn"
    /\ open' = "live" /\ host' = u
    /\ since' = [v \in {u} |-> now]
    /\ UNCHANGED now

Enter(u) ==
    /\ open = "live" /\ u \notin Present
    /\ Cardinality(Present) < MaxParticipants
    /\ since' = [v \in Present \cup {u} |-> IF v = u THEN now ELSE since[v]]
    /\ UNCHANGED <<open, host, now>>

Without(u) == [v \in Present \ {u} |-> since[v]]

Exit(u) ==
    /\ open = "live" /\ u \in Present \ {host}
    /\ since' = Without(u)
    /\ UNCHANGED <<open, host, now>>

HandOver(v) ==
    /\ open = "live" /\ host \in Present
    /\ v \in Present \ {host}
    /\ \A w \in Present \ {host} : since[v] <= since[w]
    /\ host' = v /\ since' = Without(host)
    /\ UNCHANGED <<open, now>>

Close ==
    /\ open = "live" /\ open' = "deleted"
    /\ since' = [u \in {} |-> 0]
    /\ UNCHANGED <<host, now>>

Tick == now' = now + 1 /\ UNCHANGED <<open, host, since>>

Next ==
    \/ \E u \in User : Open(u) \/ Enter(u) \/ Exit(u) \/ HandOver(u)
    \/ Close \/ Tick

Spec == Init /\ [][Next]_vars

(* The host is present and the room is not overfull. *)
Promise == open = "live" => host \in Present /\ Cardinality(Present) <= MaxParticipants
=============================================================================
