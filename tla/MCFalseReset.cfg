SPECIFICATION Spec
CONSTANTS
    p1 = p1
    None = None
    Provider = {p1}
    TicksPerSecond = 2
    Instants = {1, 4}
    UsedChoices = {0, 80, 90}
    ResetChoices = {3, 6}
    Readings <- MCReadings
    SettingsChoices <- MCSettings
PROPERTIES
    AlertsAreTransitions
