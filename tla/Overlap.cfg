SPECIFICATION Spec
CONSTANTS
    Users = {u1}
    Jobs = {j1, j2}
    PoolSize = 1
    LastMonth = 3
    Commits = {0, 1, 3}
    GrowthLimit = 200
    NoRow = NoRow
SYMMETRY Symmetry
INVARIANTS
    IInv
    LogsMatchMail
    MailAgreesWithTable
    GrowthAgreesInTurn
    ClosedMonthsOnly
    CronRunsDrained
    ScheduledMailOnce
PROPERTIES
    AddressKept
    ImplementsLedger
