SPECIFICATION MCSpec
CONSTANTS
    Listing <- MCListing
    Span <- MCSpan
    Slack = 0
    Length = 3
    Times = {2, 3, 4}
    MaxClicks = 2
    MaxFaults = 1
    MaxBatches = 3
INVARIANTS
    ReportsAreRight
    PageShowsItsSource
PROPERTIES
    AnswersAreTrue
    RequestsSettle
CHECK_DEADLOCK FALSE
