SPECIFICATION Spec
CONSTANTS
    Requests = {r1, r2}
    Accounts = {a1}
    NoUser = NoUser
    AdminKeySet = FALSE
CHECK_DEADLOCK FALSE
INVARIANT RefusedIsNotServed
