SPECIFICATION FairSpec
CONSTANTS
    Events = {e1, e2, e3}
    Businesses = {b1}
    Runs = {r1, r2}
    BatchSize = 2
    MaxMonth = 1
    MaxFails = 1
    Null = Null
INVARIANTS TypeOK StoredAtMostOnce LossBounded DefaultOnlyAfterMiss
PROPERTY QueueDrains
