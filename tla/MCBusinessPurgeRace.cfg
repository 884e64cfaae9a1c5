SPECIFICATION Spec
CONSTANTS
    BizIds = {b1, b2}
    Owners = {o1}
    Names = {n1}
    Requests = {r1, r2}
    Kinds <- AllKindsMC
    MaxBusinesses = 1
    Grace = 1
    MaxSuffix = 1
    MaxTime = 2
    RequestSpan = 1
    MaxFails = 0
    MaxRedirects = 0
    Logged = {"approved"}
    Null = Null
SYMMETRY Symmetry
PROPERTY PurgeOnlyExpired
