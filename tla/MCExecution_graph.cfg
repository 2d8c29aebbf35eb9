SPECIFICATION ExecSpec
CONSTANTS
    Executor = "graph"
    Sizes = {1, 3}
    Alignments = {2}
    MaxNodes = 4
    MaxValues = 10
    Graphs <- MCGraphs
    Unset = Unset
    NoStage = NoStage
    MaxTasks = 4
    MaxDeps = 2
INVARIANTS PlacementSound PlanExact OperandsIntact
PROPERTIES PlanningEnds
