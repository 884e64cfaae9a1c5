SPECIFICATION Spec
CONSTANTS
    Emails = {e1}
    Links = {l1}
    Secrets = {s1, s2, s3, s4}
    Requests = {r1, r2}
    VerifyTtl = 0
    ResetTtl = 1
    MfaTtl = 1
    MaxTime = 1
    MaxUses = 5
    MaxFails = 1
    Null = Null
SYMMETRY Symmetry
INVARIANTS TypeOK VerifiedHasProof TenantUnlessFailed SecretsBounded LinkUsesBounded
PROPERTY UndoneBySecondSaveOnly
