SPECIFICATION NetSpec
CONSTANTS
    Thread = {t1, t2}
    Msg = {m1, m2, m3}
    Nil = Nil
    Free = Free
    PendingWriteNum = 2
    Conn = {c1, c2, c3}
    MaxConnNum = 1
    Worker = {g1, g2, g3}
    MaxStarts = 2
CHECK_DEADLOCK FALSE
INVARIANTS TypeOK NoChannelPanic SendHasRoom GracefulFlush ServerInv ClientInv
PROPERTIES PipePromise CloseEndsWriter CloseReturns BacklogServed
