SPECIFICATION Spec
CONSTANTS
    d1 = d1
    t1 = t1
    t2 = t2
    reminder1 = reminder1
    reminder2 = reminder2
    period = period
    NoToken = NoToken
    Keep = Keep
    NoPeriod = NoPeriod
    Device = {d1}
    Token = {t1, t2}
    Event = {reminder1, reminder2}
    Threshold = {reminder1, reminder2}
    Reminder = {reminder1, reminder2}
    Period = {period}
    PeriodOf <- MCPeriodOf
    MaxDevices = 1
    BatchSize = 1
    MaxCalls = 4
INVARIANTS
    NoOrphans
    CadenceTruthful
    OneReminderPerPeriod
    DuplicatesExplained
PROPERTIES
    LossJustified
    LiveTokenKept
