SPECIFICATION Spec
CONSTANTS
    BizIds = {b1, b2}
    Owners = {o1}
    Names = {n1}
    Requests = {r1, r2}
    Kinds <- AllKindsMC
    MaxBusinesses = 1
    Grace = 0
    MaxSuffix = 1
    MaxTime = 1
    RequestSpan = 0
    MaxFails = 0
    MaxRedirects = 0
    Logged = {}
    Null = Null
SYMMETRY Symmetry
PROPERTY DeletionClearedOnRestoreOnly
