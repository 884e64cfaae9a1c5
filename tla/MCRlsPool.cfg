SPECIFICATION FairSpec
CONSTANTS
    r1 = r1
    r2 = r2
    Conns = {c1, c2, c3}
    Requests = {r1, r2}
    Tenants = {"t1", "t2"}
    TenantOf <- TenantOfMC
    Handlers <- AllHandlersMC
    MaxFails = 1
    Null = Null
    Empty = Empty
INVARIANTS TypeOK Conserved TenantConfined
PROPERTY EveryRequestAnswered
