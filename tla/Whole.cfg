SPECIFICATION FairServiceSpec
CONSTANTS
    r1 = r1
    r2 = r2
    j1 = j1
    j2 = j2
    Users = {u1}
    Jobs = {j1, j2}
    PoolSize = 1
    LastMonth = 2
    Commits = {1}
    GrowthLimit = 200
    NoRow = NoRow
    Requests = {r1, r2}
    Accounts = {a1}
    NoUser = NoUser
    AdminKeySet = TRUE
    NoRun = NoRun
    Asked <- MCAsked
CONSTRAINT Reduced
INVARIANTS
    ServiceInv
    AnsweredBeforeClose
    EachAnswerItsRun
    SecondMailAsked
PROPERTIES
    RequestsSettle
