SPECIFICATION FairSpec
CONSTANTS
    Runs = {p1, p2, p3}
    NumMigrations = 3
    Needs <- MCNeeds
INVARIANTS
    TypeOK
    RecordedTablesExist
    MigrateCompletes
    HolesNeedOverlap
    NoDeadlock
PROPERTY RunsEnd
