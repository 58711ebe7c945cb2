SPECIFICATION PipelineSpec
CONSTANTS
    Messages = {m1, m2}
    Watchers = {w1}
    Workers = {k1, k2}
    Versions = {1, 2}
    PolicyOf <- KeywordPolicy
    None = None
    Outer = None
    QueueSize = 1
    BatchSize = 1
    StoreAttempts = 2
    MaxStops = 1
    MaxDbFaults = 2
    MaxEdits = 1
SYMMETRY Symmetry
INVARIANTS
    PendingWorkIsHeld
    JobHasOneHolder
CHECK_DEADLOCK FALSE
