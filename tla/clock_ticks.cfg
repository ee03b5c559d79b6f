SPECIFICATION Spec
CONSTANTS
    Rules = {r}
    Tasks = {t}
    Configs <- ThreeConfigs
    Kind <- ThreeKinds
    Occurs <- Timetable
    WholeProject = {"project"}
    Lead <- DayBefore
    Passes = {}
    Grace = 1
    FirstDate <- Dates
    Bodies <- Drawn
    Managers = {m1}
    Ticks = {k1, k2}
    MaxTime = 3
    MaxRequests = 2
    MaxMoves = 1
    MaxFaults = 1
    None = None
INVARIANTS TypeOK FiresOnce ClaimedIsSaid RunWasLive
SYMMETRY TickSymmetry
