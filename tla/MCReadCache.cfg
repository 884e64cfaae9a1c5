SPECIFICATION Spec
CONSTANTS
    i1 = i1
    i2 = i2
    q1 = q1
    q2 = q2
    k1 = k1
    Items = {i1, i2}
    Questions = {q1, q2}
    Keys = {k1}
    KeyOf <- KeyOfMC
    Matches <- MatchesMC
    Queries = {count, data}
    Readers = {r1, r2}
    Ttl = 2
    Span = 1
    MaxTime = 4
    Null = Null
SYMMETRY Symmetry
INVARIANTS TypeOK StaleBounded
