SPECIFICATION Spec
CONSTANTS
    User = {u1, u2}
    NoUser = NoUser
    Socket = {s1, s2}
    Handler = {h1, h2}
    MaxWrites = 2
SYMMETRY Symmetry
INVARIANTS TypeOK OnlyMembersHear EarlierHearsLater MessagesExactlyOnce ListenersFollow
CHECK_DEADLOCK FALSE
