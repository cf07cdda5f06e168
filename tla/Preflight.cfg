SPECIFICATION Spec
CONSTANTS
    Requests = {r1}
    Accounts = {a1}
    NoUser = NoUser
    AdminKeySet = TRUE
CHECK_DEADLOCK FALSE
INVARIANT PreflightAccepted
