SPECIFICATION ModuleSpec
CONSTANTS
    Client = {c1, c2}
    ExecuteNum = 2
    MAX_EXECUTE_FUN = 1
    Hashes <- MCHashes
    Requests <- MCRequests
    CanRelease = TRUE
    MaxRequests = 2
    Session = {s1, s2}
    MaxConn = 2
    Column = {"id", "ID", "n"}
    Lower <- MCLower
    Text = {"7", "w"}
    Number = {"7"}
    Null = "NULL"
    Zero = "zero"
    Results <- MCResults
    ArgLists <- MCArgLists
    MaxCalls = 2
CHECK_DEADLOCK FALSE
INVARIANTS ResultInv TxInv RowsInv
PROPERTIES CallersReturn ExecutorsStop
