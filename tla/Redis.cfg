SPECIFICATION Spec
CONSTANTS
    Client = {c1, c2}
    Router = {r1}
    None = None
    MAX_TASK_CHANNEL = 2
    MaxActive = 1
    MaxCalls = 3
    Mix <- MCMix
    Session = {p1, p2}
    Key = {k1, k2}
    MaxOps = 3
    MaxKeys = 2
    OtherKeys = {k1}
    MaxTimeout = 1
    Groups <- MCGroups
    Faults = TRUE
    NoOp = NoOp
    Member = {1, 2, 3, 4}
    Elements <- MCElements
    MaxScore = 2
    MaxZOps = 3
CHECK_DEADLOCK FALSE
INVARIANTS TaskInv RepliesInv
PROPERTIES GetReturns WholeWrites
