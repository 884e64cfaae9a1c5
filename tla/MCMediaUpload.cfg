SPECIFICATION Spec
CONSTANTS
    u1 = u1
    u2 = u2
    b1 = b1
    Users = {u1, u2}
    Businesses = {b1}
    OwnerOf <- OwnerOfMC
    Files = {f1, f2, f3}
    Requests = {r1, r2}
    RateLimit = 2
    Window = 1
    MaxFiles = 1
    MaxCount = 3
    MaxTime = 2
    MaxFails = 1
    Null = Null
SYMMETRY Symmetry
INVARIANTS TypeOK CapOverrunBounded VariantsStored StoredIsQueued OrphansExplained CounterRunsOut
