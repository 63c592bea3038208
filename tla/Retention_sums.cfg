SPECIFICATION Spec
CONSTANTS
    HourLength = 2
    DayLength = 4
    RawKeep = 1
    HourKeep = 2
    LogKeep = 3
    BatchSize = 1
    MaxBatches = 2
    Periods <- MCPeriods
    MaxTime = 6
    MaxResults = 3
    MaxFailures = 1
INVARIANTS TypeOK HistoryExact
PROPERTIES OldArchived
CHECK_DEADLOCK FALSE
