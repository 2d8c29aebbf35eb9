SPECIFICATION ExecSpec
CONSTANTS
    Executor = "runtime"
    Sizes = {1, 3}
    Alignments = {2}
    MaxNodes = 4
    MaxValues = 10
    Graphs <- TwoOutputs
    Unset = Unset
    NoStage = NoStage
    MaxTasks = 4
    MaxDeps = 2
INVARIANTS OperandsIntact
