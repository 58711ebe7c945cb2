SPECIFICATION ReloadFairSpec
CONSTANTS
    Chats = {1}
    Watchers = {config, agent}
    Config = {config}
    Declared <- FirstChatDeclared
    Versions = {1, 2}
    Unusable = {2}
    NoOne = NoOne
    MaxWrites = 3
    MaxJoins = 1
    MaxFaults = 1
    MaxStops = 1
PROPERTIES
    ChangesReachRouting
INVARIANTS
    RoutedHasFilter
    NoChangeMissed
CHECK_DEADLOCK FALSE
