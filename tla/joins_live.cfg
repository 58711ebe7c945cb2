SPECIFICATION JoinFairSpec
CONSTANTS
    Callers = {"joiner", "reader"}
    NoCaller = NoCaller
    Kinds = {"join", "invite_check", "history_page"}
    Keys <- ReachableKeys
    PerHour <- HourCaps
    PerDay <- DayCaps
    NoCap = NoCap
    Pace <- Paces
    Hour = 1
    Day = 1
    ShortFlood = 1
    CrawlFlood = 1
    ManualHalt = 2
    Values = {"page", "member", "requested", "dead"}
    Chats = {1}
    Pages = 2
    PeerRetry = 1
    HaltRetry = 2
    BudgetBackoff = 1
    ReconcileTicks = 1
    InviteRecheck = 2
    MaxRequests = 1
    MaxTroubles = 1
    MaxFaults = 1
    MaxEvents = 2
    MaxAttempts = 2
    JoinsPerDay = 1
PROPERTIES
    NoRowIsStuck
    HistoryIsWalked
CHECK_DEADLOCK FALSE
