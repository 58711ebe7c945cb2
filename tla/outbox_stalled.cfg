SPECIFICATION OutboxSpec
CONSTANTS
    Rows = {1}
    Deliverers = {d1, d2}
    Levels = {1, 2}
    Tokens = {t1, t2, t3, t4}
    NoToken = NoToken
    Lease = 2
    PostTimeout = 1
    MaxWait = 1
    SettleTime = 1
    MaxPosts = 2
    MaxAttempts = 2
    BaseDelay = 1
    DelayCap = 2
    RetryHints = {0, 2}
    OnTime = FALSE
    MaxAccepted = 3
    MaxAbandons = 1
SYMMETRY Symmetry
INVARIANTS
    DuplicateNeedsCause
    SentPayloadIsAudited
    SentCountedOnce
PROPERTIES
    ImplementsLifecycle
