SPECIFICATION MCAsanaSpec
CONSTANTS
    x = x
    y = y
    Records = {x, y}
    Parent <- MCParent
    Concurrency = 2
    RunIds = {i1, i2}
    MaxChanges = 2
    MaxSwitches = 3
    SyncFaults = {"drop", "lapse", "fail", "refuse", "kill", "late", "lost add"}
    MaxSyncFaults = 1
    Nothing = Nothing
INVARIANTS NoDoubles ChangesAwaited
PROPERTY CatchesUp
CHECK_DEADLOCK FALSE
