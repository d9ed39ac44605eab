SPECIFICATION Spec
CONSTANTS
    Req = {r1, r2, r3}
    MaxTokens = 3
    Lifetime = 1
    MaxTime = 2
SYMMETRY Symmetry
INVARIANTS TypeOK ReuseBounded UsedOnceUnraced LogoutIsFinal RevocationAccounted
CHECK_DEADLOCK FALSE
