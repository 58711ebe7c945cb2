SPECIFICATION DiscoveryFairSpec
CONSTANTS
    Peers = {p, q}
    Usernames = {a, b}
    NoPeer = NoPeer
    NoName = NoName
    Records = {r1, r2, r3, r4}
    NoRecord = NoRecord
    Jobs = {j}
    NoJob = NoJob
    SeedsOf <- MCSeedsOf
    JoinsOf <- MCJoinsOf
    Terms = {t}
    MinSources = 2
    MaxAutoWave = 1
    MaxCandidates = 3
    MaxWaves = 2
    MaxMoves = 1
    MaxRuns = 2
    MaxTroubles = 1
INVARIANTS
    LocatorsAreOwned
    SourcesAreCounted
    ApprovedIsSupported
PROPERTIES
    EveryJobEnds
CHECK_DEADLOCK FALSE
