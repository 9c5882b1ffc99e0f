SPECIFICATION Spec
CONSTANTS
    Settings <- AllSettings
    Others = {0, 1}
    MaxTime = 4
INVARIANTS
    ArrayBound
    ValidDuration
    ReportCorrect
    StatisticsPrinted
CHECK_DEADLOCK FALSE
