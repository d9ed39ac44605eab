SPECIFICATION Spec
CONSTANTS
    User = {u1, u2}
    NoUser = NoUser
    Socket = {s1, s2}
    Handler = {h1, h2}
    MaxWrites = 2
SYMMETRY Symmetry
INVARIANT DeparturesTold
CHECK_DEADLOCK FALSE
