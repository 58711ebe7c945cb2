SPECIFICATION PipelineFairSpec
CONSTANTS
    Messages = {m1}
    Watchers = {w1, w2}
    Workers = {k1}
    Versions = {1, 2}
    PolicyOf <- MixedPolicies
    None = None
    Outer = w2
    QueueSize = 1
    BatchSize = 2
    StoreAttempts = 2
    MaxStops = 1
    MaxDbFaults = 1
    MaxEdits = 1
INVARIANTS
    AlertIffAccepted
    RecoveredUnderStoredPolicy
PROPERTIES
    ImplementsDurableJob
    EveryJobFinishes
CHECK_DEADLOCK FALSE
