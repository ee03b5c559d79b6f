SPECIFICATION Spec
CONSTANTS
    Workers = {w1, w2}
    Rules <- TwoRules
    Age <- TwoAge
    Versions <- EditVersions
    RuleOf <- EditRuleOf
    Listens <- EditListens
    Steps <- EditSteps
    Conditional <- Edited
    First <- PingFirst
    NoChaining = {"r2"}
    Nodes <- PingNodes
    Kind <- PingKind
    Fallible = {"b"}
    Tasks <- OneTask
    Parent <- NoParent
    Blocks = {}
    Completable = {}
    Changeable <- OneTask
    Switchable <- EditVersions
    MaxEdits = 1
    MaxSwitches = 1
    MaxDepth = 1
    PerRun = 2
    PerChain = 3
    Attempts = 2
    MaxStalls = 1
    Faults = {"throw", "kill", "expire", "lost add", "tick dies"}
    MaxFaults = 1
    None = None
INVARIANT ResumesItsRun
PROPERTY KeepsLedger
CHECK_DEADLOCK FALSE
