SPECIFICATION Spec
CHECK_DEADLOCK FALSE
SYMMETRY Symmetry
CONSTANTS
    Users = {u1, u2}
    Tenants = {t1, t2}
    Requests = {r1, r2}
    Limit = 2
    MaxTokens = 3
    MaxCodes = 1
    MaxMisses = 2
INVARIANTS
    OneUsablePerLogin
    CodeWorksOnce
    CompanyHasAdmin
    LockIsEarned
