SPECIFICATION OutboxFairSpec
CONSTANTS
    Rows = {1}
    Deliverers = {d1, d2}
    Levels = {1}
    Tokens = {t1, t2, t3}
    NoToken = NoToken
    Lease = 5
    PostTimeout = 1
    MaxWait = 1
    SettleTime = 1
    MaxPosts = 2
    MaxAttempts = 2
    BaseDelay = 1
    DelayCap = 2
    RetryHints = {0, 2}
    OnTime = TRUE
    MaxAccepted = 3
    MaxAbandons = 1
PROPERTIES
    EveryAlertSettles
INVARIANTS
    NoInFlightReclaim
