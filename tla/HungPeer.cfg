SPECIFICATION CodeFairSpec
CONSTANTS
    Users = {u1}
    Jobs = {j1}
    PoolSize = 1
    LastMonth = 2
    Commits = {1}
    GrowthLimit = 200
    NoRow = NoRow
PROPERTIES
    StopEnds
