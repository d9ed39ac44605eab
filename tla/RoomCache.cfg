SPECIFICATION CacheSpec
CONSTANTS
    User = {u1, u2}
    NoUser = NoUser
    Req = {r1}
    Joins = {r1}
    Departs = {r1}
    Tables = {}
    NoTable = NoTable
    MaxParticipants = 2
    MaxTime = 0
    MaxClock = 3
    Reader = {c1, c2}
    TTL = 1
    MaxLag = 1
SYMMETRY Symmetry
INVARIANTS CacheTypeOK ExposureBounded StaleCommandsBounded EvictionSuffices
CHECK_DEADLOCK FALSE
