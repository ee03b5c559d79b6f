\* Sessions, links between tasks, completions of repeating tasks, creates with a key.
SPECIFICATION MCSpec
CONSTANTS
    s1 = s1
    s2 = s2
    t3 = t3
    SessionIds = {s1, s2}
    Tabs = {t1, t2, t3}
    SessionOf <- TabsOf
    Calls = {c1, c2, c3}
    MaxRefreshes = 3
    MaxLosses = 1
    NoCall = NoCall
    LinkTasks = {a, b, c}
    LinkRequests = {p, q}
    MaxLinks = 2
    MaxTurns = 5
    MaxDepth = 1
    MaxUnsaid = 1
    NoTask = NoTask
    Edits = {e1, e2}
    MaxEdits = 4
    MaxSpawnFaults = 1
    Attempts = {i1, i2, i3}
    Bodies = {b1, b2}
    MaxSent = 4
    MaxCreateFaults = 2
    NoBody = NoBody
INVARIANTS OneOpenRow SignedOutStaysOut OnlyStrangersBlamed NoLoop FreedIsTold OneNext CreatedOnce
SYMMETRY Symmetric
\* Every bound is reached in the end.
CHECK_DEADLOCK FALSE
