SPECIFICATION FairSpec
CONSTANTS
    Rules = {r}
    Tasks = {t}
    Configs <- ThreeConfigs
    Kind <- ThreeKinds
    Occurs <- Timetable
    WholeProject = {"project"}
    Lead <- DayBefore
    Passes = {}
    Grace = 1
    FirstDate <- Dates
    Bodies <- DrawnAndNamed
    Managers = {m1, m2}
    Ticks = {k1}
    MaxTime = 2
    MaxRequests = 3
    MaxMoves = 0
    MaxFaults = 0
    None = None
INVARIANTS VersionsWhole NewestRuns
PROPERTIES HistoryKept SchedulesHeard
