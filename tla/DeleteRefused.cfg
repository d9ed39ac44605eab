SPECIFICATION Spec
CONSTANTS
    User = {u1, u2}
    NoUser = NoUser
    Req = {r1}
    Joins = {r1}
    Departs = {r1}
    Tables = {"messages", "room_queue_entries", "playback_states"}
    NoTable = NoTable
    MaxParticipants = 2
    MaxTime = 0
INVARIANT NoServerError
CHECK_DEADLOCK FALSE
