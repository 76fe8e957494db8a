SPECIFICATION FairSpec
CONSTANTS
    Caller = {c1}
    Mix <- MCOneCall
    GoRouterNum = 1
    CanBreak = TRUE
    MaxCalls = 1
CHECK_DEADLOCK FALSE
PROPERTIES Reconnects
