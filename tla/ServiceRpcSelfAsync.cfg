SPECIFICATION Spec
CONSTANTS
    Service = {"A"}
    MayCall <- MCSelfAsync
    Mix <- MCAsync
    GoRouterNum <- MCOne
    QueueLen = 3
    CanStop = FALSE
    MaxCalls = 1
    MaxAsync = 1
CHECK_DEADLOCK FALSE
INVARIANTS CallbackOnce
