SPECIFICATION FairSpec
CONSTANTS
    Workers = {w1}
    Rules <- TwoRules
    Age <- TwoAge
    Versions <- PingVersions
    RuleOf <- PingRuleOf
    Listens <- DoneListens
    Steps <- DoneSteps
    Conditional = {}
    First <- PingFirst
    NoChaining = {}
    Nodes <- PingNodes
    Kind <- PingKind
    Fallible = {}
    Tasks <- FourTasks
    Parent <- FamilyParent
    Blocks <- FamilyBlocks
    Completable <- Subs
    Changeable = {}
    Switchable = {}
    MaxEdits = 2
    MaxSwitches = 0
    MaxDepth = 2
    PerRun = 2
    PerChain = 3
    Attempts = 2
    MaxStalls = 1
    Faults = {"kill"}
    MaxFaults = 1
    None = None
INVARIANT FollowUpsSent
PROPERTIES RollupHeard WaitsAnswered
CHECK_DEADLOCK FALSE
