SPECIFICATION HousingFairSpec
CONSTANTS
    Alerts = {1, 2}
    Kind <- LiveThenUpdate
    Unit <- OneListing
    Configured = TRUE
    BatchLimit = 2
    MaxAttempts = 2
    MaxFaults = 1
INVARIANTS
    ReportsOnceUnlessLost
    OriginalFollowsReport
    NoOriginalForgotten
PROPERTIES
    EveryListingSettles
    FallbackReachesDM
CHECK_DEADLOCK FALSE
