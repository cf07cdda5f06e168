SPECIFICATION DrainSpec
CONSTANTS
    Users = {u1}
    Jobs = {j1}
    PoolSize = 1
    LastMonth = 1
    Commits = {1}
    GrowthLimit = 200
    NoRow = NoRow
INVARIANT EveryRunDrained
