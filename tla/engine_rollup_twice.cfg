SPECIFICATION Spec
CONSTANTS
    Workers = {w1, w2}
    Rules <- TwoRules
    Age <- TwoAge
    Versions <- PingVersions
    RuleOf <- PingRuleOf
    Listens <- DoneListens
    Steps <- DoneSteps
    Conditional = {}
    First <- PingFirst
    NoChaining = {}
    Nodes <- PingNodes
    Kind <- PingKind
    Fallible = {}
    Tasks <- FourTasks
    Parent <- FamilyParent
    Blocks <- FamilyBlocks
    Completable <- Subs
    Changeable = {}
    Switchable = {}
    MaxEdits = 2
    MaxSwitches = 0
    MaxDepth = 2
    PerRun = 2
    PerChain = 3
    Attempts = 2
    MaxStalls = 1
    Faults = {}
    MaxFaults = 0
    None = None
INVARIANT RollupOnce
SYMMETRY WorkerSymmetry
CHECK_DEADLOCK FALSE
