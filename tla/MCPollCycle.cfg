SPECIFICATION Spec
CONSTANTS
    None = None
    DefaultOrder <- MCDefaultOrder
    PluginOrder <- MCPluginOrder
    Canonical <- MCCanonical
    Devin = "devin"
    Noise = {"api"}
    Upstreams <- MCUpstreams
    Stored <- MCStored
    Hidden = {{}, {"claude"}}
    Interval = 5
    OutcomeLimit = 2
    Notifiers = {"apns", "noop"}
    MaxPolls = 4
    MaxFaults = 2
INVARIANTS
    CurrentWasReported
    HealthTrue
    PushAccounted
PROPERTY
    UsefulWindowsKept
CHECK_DEADLOCK FALSE
