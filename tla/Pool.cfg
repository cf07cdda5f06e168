SPECIFICATION FairSpec
CONSTANTS
    Users = {u1, u2}
    Jobs = {j1}
    PoolSize = 1
    LastMonth = 2
    Commits = {1}
    GrowthLimit = 200
    NoRow = NoRow
INVARIANTS
    SemaphoreCounts
    NoRunStuck
    WorkBoundedByRuns
PROPERTIES
    RunsSettle
    StopEnds
