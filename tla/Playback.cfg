SPECIFICATION Spec
CONSTANTS
    Cmd = {c1, c2}
    Track = {t1}
    NoTrack = NoTrack
    MaxEntries = 2
    Buffer = 1
    SeekTo = {1}
    MaxPosition = 1
    MaxTime = 2
SYMMETRY Symmetry
INVARIANTS PlaybackTypeOK EntriesConserved OldestFirst PausedWhereHeardUnraced
PROPERTY ImplementsPlaylist
CHECK_DEADLOCK FALSE
