SPECIFICATION Spec
CONSTANTS
    Cron = {k1}
    Plain = TRUE
    ChanLen = 1
    MaxTimers = 3
    Notifier = {n1}
    EventLoop = {l1, l2}
    ChanNums = {2}
    DefaultLen = 1
    MaxEvents = 5
CHECK_DEADLOCK FALSE
INVARIANTS TrackInv EventInv
PROPERTIES TimerRuns NotifyReturns
