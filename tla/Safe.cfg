SPECIFICATION Spec
CONSTANTS
    Module = {m1, m2, m3}
    Root = root
    MaxId = 3
    SubNet = {"sn1", "sn2"}
    NodeId = {1, 2, 3}
    ServiceName = {"S", "T"}
    CurrentNodeId = 1
    NoSubNet = "NoSubNet"
    MaxNodes <- MCMaxNodes
    MaxServices = 1
    Obj = {"o1", "o2", "o3"}
    NameOf <- MCNameOf
    SetupFiles <- MCSetupFiles
    MaxSetups = 3
    Base = 2
    Args <- MCArgs
    LenArgs = {0, 1, 2, 4}
    MinArgs = {0, 2}
    MaxArgs = {0, 2, 5}
    MaxSets = 2
    MaxMsgs = 2
    HttpCaller = {h1, h2}
    MaxRequests = 2
    MaxGets = 4
    Val = {a, b}
    Nil = nil
    Panic = panic
    MinQueueLen = 2
    MaxCount = 5
    Secs = 2
    Mins = 2
    Hours = 2
    WeekDays = 3
    MonthDays <- MCMonthDays
    LeapYears <- MCLeapYears
    Offset = 0
    LastYear = 1
    MaxDay = 4
    SecFields <- MCSec
    MinFields <- MCTwo
    HourFields <- MCTwo
    DomFields <- MCDom
    MonthFields <- MCMonth
    DowFields <- MCDow
    QueueGo = {q1, q2, q3}
    MaxElems = 2
    MapGo = {r1, r2}
    MapKey = {"a", "b"}
    HashCode <- MCHashCode
    HashMapNums = {1, 2, 3}
    DefaultNum = 2
    MaxVal = 2
CHECK_DEADLOCK FALSE
INVARIANTS TreeInv NodeInv FrameInv HttpInv RingInv SyncInv MapInv SearchInv
PROPERTIES FifoPromise SearchEnds
