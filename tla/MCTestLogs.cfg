CONSTANTS
    a = a
    b = b
    Importers = {a, b}
    SumFiles <- MCSumFiles
    InitialTables <- MCInitialTables
    MaxReruns = 1
    FailSumFiles <- MCFailSumFiles
    FailXfailFiles <- MCFailXfailFiles
SPECIFICATION LogSpec
INVARIANTS LogTypeOK SomeoneImports RunsAreTheirFiles ReportFollowsLogs
PROPERTY ImportsEnd
CHECK_DEADLOCK FALSE
