SPECIFICATION FairSpec
CONSTANTS
    Users = {u1, u2}
    Requests = {r1, r2}
    Grace = 1
    MaxTime = 3
    Null = Null
INVARIANTS TypeOK ScheduleWhole
PROPERTIES ErasedAfterGraceOnly DueIsErased
