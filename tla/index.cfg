SPECIFICATION IndexFairSpec
CONSTANTS
    Messages = {"m1", "m2", "m3"}
    StreamOf <- LiveAndScout
    TextOf <- Crosspost
    Extractable = {"announcement"}
    Processes = {"timer", "operator"}
    Builders = {"timer"}
    Answers <- Cafe
    MaxAttempts = 2
    RescanEvery = 1
    ChunkSize = 1
    Limit = 1
    MaxRemovals = 1
    MaxCommands = 1
    MaxTroubles = 1
    MaxVersions = 2
INVARIANTS
    AggregatesMatchMentions
    OneCopyIsSent
    CopiesAgree
    AnswersAreNotPaidAgain
PROPERTIES
    EveryRowReachesCorpus
    EveryJobSettles
CHECK_DEADLOCK FALSE
