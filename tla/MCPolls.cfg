SPECIFICATION FairSpec
CONSTANTS
    None = None
    Call = {k1, k2}
    Manual = {m1, m2}
    Client = {c1, c2}
INVARIANTS
    TypeOK
    OnePollAtATime
    AnswersAreCurrent
PROPERTIES
    ReuseIsRecent
    EveryRequestAnswered
    PollingGoesOn
    ShutdownEnds
CHECK_DEADLOCK FALSE
