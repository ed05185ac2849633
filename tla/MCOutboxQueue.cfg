SPECIFICATION FairTurnSpec
CONSTANTS
    d1 = d1
    t1 = t1
    reset = reset
    credits = credits
    early = early
    NoToken = NoToken
    Keep = Keep
    NoPeriod = NoPeriod
    Device = {d1}
    Token = {t1}
    Event = {reset, credits, early}
    Threshold = {}
    Reminder = {}
    Period = {}
    PeriodOf <- MCPeriodOf
    MaxDevices = 1
    BatchSize = 2
    MaxCalls = 1
INVARIANT
    TurnsInOrder
PROPERTY
    NoStarvation
