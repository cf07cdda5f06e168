SPECIFICATION Spec
CONSTANTS
    Users = {u1}
    Jobs = {j1, j2}
    PoolSize = 1
    LastMonth = 1
    Commits = {1}
    GrowthLimit = 200
    NoRow = NoRow
INVARIANT FetchesBounded
