SPECIFICATION Spec
CONSTANTS
    Workers = {w1, w2}
    Rules <- TwoRules
    Age <- TwoAge
    Versions <- PingVersions
    RuleOf <- PingRuleOf
    Listens <- PingListens
    Steps <- BusySteps
    Conditional = {}
    First <- PingFirst
    NoChaining = {}
    Nodes <- BusyNodes
    Kind <- BusyKind
    Fallible = {}
    Tasks <- OneTask
    Parent <- NoParent
    Blocks = {}
    Completable = {}
    Changeable <- OneTask
    Switchable = {}
    MaxEdits = 1
    MaxSwitches = 0
    MaxDepth = 2
    PerRun = 2
    PerChain = 3
    Attempts = 2
    MaxStalls = 1
    Faults = {"throw", "kill", "stall", "expire"}
    MaxFaults = 2
    None = None
INVARIANTS TypeOK NoStepTwice CompletedDidAll ChainWithinCap
SYMMETRY WorkerSymmetry
CHECK_DEADLOCK FALSE
