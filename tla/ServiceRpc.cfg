SPECIFICATION FairSpec
CONSTANTS
    Service = {"A", "B", "C"}
    MayCall <- MCGraph
    Mix <- MCMix
    GoRouterNum <- MCGoRouterNum
    QueueLen = 2
    CanStop = TRUE
    MaxCalls = 2
    MaxAsync = 6
CHECK_DEADLOCK FALSE
INVARIANTS LoopInv ProgramOrder
PROPERTIES CallsComplete StopCompletes
