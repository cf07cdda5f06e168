SPECIFICATION FairSpec
CONSTANTS
    Users = {u1, u2, u3}
    Jobs = {j1}
    PoolSize = 2
    LastMonth = 2
    Commits = {1}
    GrowthLimit = 200
    NoRow = NoRow
INVARIANTS
    SemaphoreCounts
PROPERTIES
    ImplementsLedger
    RunsSettle
    StopEnds
