SPECIFICATION ListenSpec
CONSTANTS
    User = {u1, u2}
    NoUser = NoUser
    Key = {k1}
    NoKey = NoKey
    Request = {q1}
    UploadValidity = 1
    MaxPuts = 1
    Room = {a}
    Reader = {c1}
    CacheTTL = 1
    UrlValidity = 3
    MaxLag = 1
    MaxEntries = 1
    Horizon = 3
SYMMETRY Symmetry
INVARIANT MembersCanListen
