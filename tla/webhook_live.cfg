SPECIFICATION FairSpec
CONSTANTS
    Workers = {w1, w2}
    Endpoints = {hook}
    Events = {e1}
    MaxAttempts = 2
    AutoDisableAfter = 2
    FanAttempts = 2
    MaxStalls = 1
    MaxRaises = 1
    MaxRedeliveries = 2
    MaxToggles = 1
    Faults = {}
    MaxFaults = 0
    None = None
INVARIANTS PendingHasJob HistoryWhole
PROPERTY EverySettled
CHECK_DEADLOCK FALSE
