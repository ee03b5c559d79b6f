------------------------------ MODULE MCEngine ------------------------------
(* Small projects for TLC to run the automation engine on.  Each scenario  *)
(* names the rules' published versions; the configurations pick one and    *)
(* the people, faults and bounds that go with it.                          *)
EXTENDS AutomationEngine, TLC

WorkerSymmetry == Permutations(Workers)

\* Two rules that hear each other's changes; the older one waits in between.
TwoRules == {"r1", "r2"}
TwoAge == [r \in TwoRules |-> IF r = "r1" THEN 1 ELSE 2]
PingVersions == {"v1", "v2"}
PingRuleOf == [v \in PingVersions |-> IF v = "v1" THEN "r1" ELSE "r2"]
PingListens == [v \in PingVersions |-> "changed"]
PingSteps == [v \in PingVersions |->
                 IF v = "v1" THEN <<"a", "pause", "b">> ELSE <<"c">>]
PingFirst == [r \in TwoRules |-> IF r = "r1" THEN "v1" ELSE "v2"]
PingNodes == {"a", "pause", "b", "c", "done"}
PingKind == [n \in PingNodes |-> CASE n = "pause" -> "wait" [] n = "b" -> "note"
                                   [] n = "done" -> "complete"
                                   [] OTHER -> "change"]

\* The same two rules, where "v1" may be republished as "v1b": the Wait and the
\* step after it stay, a step is put between them, and a condition is added.
EditVersions == PingVersions \cup {"v1b"}
EditRuleOf == [v \in EditVersions |-> IF v = "v2" THEN "r2" ELSE "r1"]
EditListens == [v \in EditVersions |-> "changed"]
EditSteps == [v \in EditVersions |->
                 CASE v = "v1" -> <<"a", "pause", "b">>
                   [] v = "v1b" -> <<"b", "pause", "c", "b">>
                   [] v = "v2" -> <<"c">>]
Edited == {"v1b"}

\* Two rules that set each other off; one has more steps than a run may perform.
BusyVersions == {"v1", "v2"}
BusySteps == [v \in BusyVersions |-> IF v = "v1" THEN <<"a", "d", "b">> ELSE <<"c">>]
BusyNodes == {"a", "b", "c", "d"}
BusyKind == [n \in BusyNodes |-> IF n = "d" THEN "note" ELSE "change"]

\* A parent with two subtasks, one of which also holds up another task.
FourTasks == {"p", "s1", "s2", "d"}
FamilyParent == [t \in FourTasks |-> IF t \in {"s1", "s2"} THEN "p" ELSE None]
FamilyBlocks == {<<"s1", "d">>}
Subs == {"s1", "s2"}

\* One rule answers completions; the other answers tasks that are no longer
\* blocked, waiting and then completing the task.
DoneListens == [v \in PingVersions |-> IF v = "v1" THEN "completed" ELSE "unblocked"]
DoneSteps == [v \in PingVersions |-> IF v = "v1" THEN <<"b">> ELSE <<"pause", "done">>]

\* No task has a parent or a blocker.
OneTask == {"t"}
NoParent == [t \in OneTask |-> None]
=============================================================================
