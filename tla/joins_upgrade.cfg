SPECIFICATION JoinSpec
CONSTANTS
    Callers = {"joiner", "reader"}
    NoCaller = NoCaller
    Kinds = {"join", "invite_check", "history_page"}
    Keys <- ReachableKeys
    PerHour <- HourCaps
    PerDay <- DayCaps
    NoCap = NoCap
    Pace <- Paces
    Hour = 1
    Day = 2
    ShortFlood = 1
    CrawlFlood = 1
    ManualHalt = 2
    Values = {"page", "member", "requested", "dead"}
    Chats = {1}
    Pages = 2
    PeerRetry = 1
    HaltRetry = 2
    BudgetBackoff = 1
    ReconcileTicks = 1
    InviteRecheck = 2
    MaxRequests = 2
    MaxTroubles = 0
    MaxFaults = 0
    MaxEvents = 3
    MaxAttempts = 4
    JoinsPerDay = 1
INVARIANTS
    JoinedIsBound
CHECK_DEADLOCK FALSE
