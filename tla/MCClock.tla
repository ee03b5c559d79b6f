------------------------------- MODULE MCClock -------------------------------
(* One rule and one task for TLC to run the clock on.                      *)
EXTENDS AutomationClock, TLC

TickSymmetry == Permutations(Ticks)

\* Two schedules, of all open tasks and of the project, and a date trigger.
ThreeConfigs == {"tasks", "project", "due"}
ThreeKinds == [c \in ThreeConfigs |-> IF c = "due" THEN "date" ELSE "schedule"]
Timetable == [c \in ThreeConfigs |-> CASE c = "tasks" -> {1, 2} [] c = "project" -> {1}
                                       [] OTHER -> {}]
DayBefore == [c \in ThreeConfigs |-> 1]
Dates == [t \in Tasks |-> 2]
\* A canvas with its own trigger.
Drawn == {<<c, None>> : c \in ThreeConfigs}
\* And one with another trigger named; and one without a trigger node.
DrawnAndNamed == {<<"tasks", None>>, <<"due", None>>, <<"tasks", "project">>, <<None, None>>}
=============================================================================
