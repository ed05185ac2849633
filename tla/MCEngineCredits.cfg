SPECIFICATION Spec
CONSTANTS
    p1 = p1
    p2 = p2
    None = None
    Provider = {p1, p2}
    TicksPerSecond = 1
    Instants = {0}
    CreditsChoices = {0, 1, 2}
    Readings <- MCReadings
    SettingsChoices <- MCSettings
INVARIANTS
    ClaimedWasQueued
    RisesArmed
