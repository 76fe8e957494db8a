SPECIFICATION FairSpec
CONSTANTS
    Caller = {c1}
    Mix <- MCOneCall
    GoRouterNum = 1
    CanBreak = FALSE
    MaxCalls = 1
CHECK_DEADLOCK FALSE
PROPERTIES StrobesWhenComplete
