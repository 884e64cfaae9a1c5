SPECIFICATION Spec
CONSTANTS
    Users = {u1}
    Pairs = {p1, p2, p3}
    Requests = {r1, r2}
    Kinds <- AllKindsMC
    MaxAttempts = 2
    Lockout = 1
    AccessTtl = 1
    RefreshTtl = 2
    MaxTime = 2
    MaxGuesses = 4
    MaxCount = 3
    Mfa = {u1}
    Null = Null
SYMMETRY Symmetry
INVARIANTS TypeOK CountedOutIsLocked LockoutBoundsGuesses
PROPERTIES ReplayRefused LockLiftedByEarlierLogin
