SPECIFICATION FairSpec
CONSTANTS
    User = {u1, u2, u3}
    NoUser = NoUser
    Req = {r1, r2}
    Joins = {r1, r2}
    Departs = {r1, r2}
    Tables = {"messages"}
    NoTable = NoTable
    MaxParticipants = 2
    MaxTime = 0
INVARIANTS TypeOK HostRowIsHost OvershootBounded NoOrphans SomebodyGoesOn
PROPERTY EveryRequestAnswered
CHECK_DEADLOCK FALSE
