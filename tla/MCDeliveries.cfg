SPECIFICATION Spec
CONSTANTS
    None = None
    d1 = d1
    d2 = d2
    t1 = t1
    t2 = t2
    Device = {d1, d2}
    Token = {t1, t2}
    Tester = {h1}
    Poller = poller
    Starts <- MCStarts
    Budget = 2
    MaxLeft = 3
    MaxChanges = 2
    MaxTokens = 2
    MaxFaults = 1
INVARIANTS
    SecondTokenIsNew
    RefreshesGetTheirTime
    ResultsOfRegistration
PROPERTY
    LiveWidgetTokenKept
CHECK_DEADLOCK FALSE
