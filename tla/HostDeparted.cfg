SPECIFICATION Spec
CONSTANTS
    User = {u1, u2, u3}
    NoUser = NoUser
    Req = {r1, r2}
    Joins = {r1, r2}
    Departs = {r1, r2}
    Tables = {"messages"}
    NoTable = NoTable
    MaxParticipants = 3
    MaxTime = 0
INVARIANT HostIsActive
CHECK_DEADLOCK FALSE
