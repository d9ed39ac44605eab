SPECIFICATION Spec
CONSTANTS
    User = {u1, u2, u3}
    NoUser = NoUser
    Req = {r1, r2}
    Joins = {r2}
    Departs = {r1}
    Tables = {"messages", "room_queue_entries"}
    NoTable = NoTable
    MaxParticipants = 2
    MaxTime = 2
SYMMETRY UserSymmetry
INVARIANT HostIsActive
PROPERTY ImplementsContract
CHECK_DEADLOCK FALSE
