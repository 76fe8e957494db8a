SPECIFICATION FairSpec
CONSTANTS
    Caller = {c1, c2}
    Mix <- MCMix
    GoRouterNum = 1
    CanBreak = TRUE
    MaxCalls = 2
CHECK_DEADLOCK FALSE
INVARIANTS PendingInv ServingInv
PROPERTIES CallbackRuns
