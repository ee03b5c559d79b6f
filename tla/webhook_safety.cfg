SPECIFICATION Spec
CONSTANTS
    Workers = {w1, w2}
    Endpoints = {hook}
    Events = {e1}
    MaxAttempts = 2
    AutoDisableAfter = 2
    FanAttempts = 2
    MaxStalls = 1
    MaxRaises = 2
    MaxRedeliveries = 1
    MaxToggles = 1
    Faults = {"throw", "kill", "stall", "lost add"}
    MaxFaults = 1
    None = None
INVARIANTS TypeOK HealthyWhileEnabled NoNeedlessPost HistoryWhole
SYMMETRY WorkerSymmetry
CHECK_DEADLOCK FALSE
