SPECIFICATION Spec
CONSTANTS
    Message = {m1, m2, m3, m4}
    Limit = 1
    MaxTime = 3
SYMMETRY Symmetry
INVARIANTS TypeOK NothingMissed RepeatsExplained PromisesKept
