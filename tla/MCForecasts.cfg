SPECIFICATION Spec
CONSTANTS
    None = None
    w1 = w1
    w2 = w2
    Window = {w1, w2}
    Reports <- MCReports
    Steps = {1, 2}
    MinSpan = 2
    Horizon = 4
    Retention = 5
    Cap = 3
    MaxTime = 7
INVARIANTS
    HistoryIsThisCycle
    ForecastsAgree
    SamplesFromSnapshots
CHECK_DEADLOCK FALSE
