SPECIFICATION FairSpec
CONSTANTS
    Handler = {h1, h2}
    Cursor = "cursor"
    DefaultOrder <- MCDefaultOrder
    Canonical <- MCCanonical
    Requests <- MCRequests
    Starts <- MCStarts
    Day = 6
    MaxFaults = 1
INVARIANTS
    LatestPutKept
    AnswerShowsPut
    QuietHoursAreTheSpan
PROPERTY
    ListsSettle
