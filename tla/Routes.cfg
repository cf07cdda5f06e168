SPECIFICATION Spec
CONSTANTS
    Requests = {r1, r2}
    Accounts = {a1}
    NoUser = NoUser
    AdminKeySet = TRUE
CHECK_DEADLOCK FALSE
SYMMETRY Symmetry
INVARIANTS
    IInv
    LoggedAsSent
    OriginOnEveryAnswer
    RefusalStands
    RefusedLearnsNothing
PROPERTIES
    ImplementsExchange
