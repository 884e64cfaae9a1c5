SPECIFICATION FairCardsSpec
CONSTANTS
    BizIds = {b1}
    Owners = {o1}
    Names = {n1, n2, n3}
    Requests = {r1}
    Kinds <- AllKindsMC
    MaxBusinesses = 1
    Grace = 1
    MaxSuffix = 0
    MaxTime = 2
    RequestSpan = 0
    MaxFails = 1
    MaxRedirects = 3
    Logged = {}
    Null = Null
INVARIANT OldAddressLeadsHome
PROPERTIES KnownAddressIsAnswered ImplementsListing ExpiredEventuallyPurged
