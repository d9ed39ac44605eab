SPECIFICATION DownloadSpec
CONSTANTS
    User = {u1, u2}
    NoUser = NoUser
    Key = {k1}
    Request = {q1, q2}
    UploadValidity = 1
    MaxPuts = 2
    Room = {a, b}
    Reader = {c1}
    CacheTTL = 2
    UrlValidity = 4
    MaxLag = 1
    MaxEntries = 1
    Horizon = 4
SYMMETRY Symmetry
INVARIANTS UploadTypeOK DownloadTypeOK CompletedOnce RecordedIsServed
           GivenOnlyBriefly LinksDie LinksWork
