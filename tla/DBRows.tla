-------------------------------- MODULE DBRows --------------------------------
(***************************************************************************)
(* How the rows of a statement reach the caller's structs                  *)
(* (sysmodule/DBModule.go).  QueryEx copies every result set into a        *)
(* DataSetList, which DataSetList.UnMarshal decodes; Query hands out a     *)
(* DBResult with the open rows, which DBResult.UnMarshal reads and         *)
(* decodes.  Tx.QueryEx and Tx.Query are the same code on a transaction.   *)
(*                                                                         *)
(* The connection may break at any row: Next then returns false, and       *)
(* nothing but a log line tells it from the end.  Values are strings of    *)
(* the server, not empty; Null is SQL's NULL.                              *)
(***************************************************************************)
EXTENDS Naturals, Sequences

CONSTANTS Column,      \* names of columns as the server writes them
          Lower,       \* strings.ToLower of each
          Text,        \* the values
          Number,      \* the values that strconv parses
          Null, Zero,  \* NULL, and a field that was not assigned
          Results,     \* what a statement may return: sequences of result sets
          ArgLists,    \* arguments of UnMarshal: sequences of [kind, type]
          MaxCalls     \* bound on the calls of UnMarshal

\* The names a column can have in the structs.
Names == {Lower[c] : c \in Column}

\* A row has a value for each column of its set, and an answer has a set at
\* least.  Fields no column can have are left out of the arguments.
ASSUME RowsAssumption ==
    /\ DOMAIN Lower = Column /\ Number \subseteq Text /\ Null \notin Text /\ Zero \notin Text
    /\ Null # Zero /\ MaxCalls \in Nat
    /\ Results \subseteq Seq([cols : Seq(Column), rows : Seq(Seq(Text \cup {Null}))])
    /\ \A r \in Results : /\ r # <<>>
                           /\ \A s \in DOMAIN r : \A i \in DOMAIN r[s].rows :
                                  Len(r[s].rows[i]) = Len(r[s].cols)
    /\ \A as \in ArgLists : \A k \in 1..Len(as) : DOMAIN as[k].type \subseteq Names

VARIABLES
    rowsAt,              \* none; read (in QueryEx); list (QueryEx returned), unmarshal;
                         \* result (Query returned), scan; panic
    result,              \* what the statement returned
    set, row,            \* the cursor: result set, rows read of it
    broken,              \* the connection broke under the rows
    closed,              \* the rows are closed
    rowInfo,             \* dbResult.RowInfo, the values of each name; <<>> is no entry
    dataSetList,
    currentDataSetIdx,
    values, tableData,   \* of dbResult2Map
    args, out,           \* of the last UnMarshal: its arguments and what was filled
    verdict,             \* what it returned
    unMarshals           \* the calls of UnMarshal

cursorVars == <<result, set, row, broken, closed>>
decodeVars == <<args, out, verdict, unMarshals>>
listVars == <<rowInfo, dataSetList, currentDataSetIdx>>
tableVars == <<values, tableData>>
rowsVars == <<rowsAt, cursorVars, listVars, tableVars, decodeVars>>

NoInfo == [n \in Names |-> <<>>]

RowsTypeOK ==
    /\ rowsAt \in {"none", "read", "list", "unmarshal", "result", "scan", "panic"}
    /\ result \in Results \cup {<<>>} /\ broken \in BOOLEAN /\ closed \in BOOLEAN
    /\ DOMAIN rowInfo = Names /\ \A n \in Names : rowInfo[n] \in Seq(Text \cup {Null})
    /\ currentDataSetIdx \in Nat /\ verdict \in {"none", "ok", "err", "panic"}
    /\ unMarshals \in 0..MaxCalls

RowsInit ==
    /\ rowsAt = "none" /\ result = <<>> /\ set = 1 /\ row = 0 /\ broken = FALSE
    /\ closed = FALSE /\ rowInfo = NoInfo /\ dataSetList = <<>> /\ currentDataSetIdx = 0
    /\ values = <<>> /\ tableData = <<>> /\ args = <<>> /\ out = <<>> /\ verdict = "none"
    /\ unMarshals = 0

\* The columns and rows under the cursor.
Cols == result[set].cols
Rows == result[set].rows

\* db.Query succeeded: QueryEx goes on to read, Query returns.
OpenRows(r, at) ==
    /\ rowsAt = "none" /\ at \in {"read", "result"} /\ rowsAt' = at /\ result' = r
    /\ UNCHANGED <<set, row, broken, closed, listVars, tableVars, decodeVars>>

\* The connection breaks.
RowsBreak ==
    /\ rowsAt \in {"read", "result", "scan"} /\ ~broken /\ ~closed /\ broken' = TRUE
    /\ UNCHANGED <<rowsAt, result, set, row, closed, listVars, tableVars, decodeVars>>

\* rows.Next().
HasNext == ~broken /\ ~closed /\ row < Len(Rows)

-----------------------------------------------------------------------------
(* QueryEx.                                                                *)

\* The values of row r in the columns that are called n, in order.
ValuesOf(r, n) ==
    LET To[p \in 0..Len(Cols)] ==
            IF p = 0 THEN <<>>
            ELSE IF Lower[Cols[p]] = n THEN Append(To[p - 1], r[p]) ELSE To[p - 1]
    IN  To[Len(Cols)]

\* One row is appended, column by column.
QueryExRow ==
    /\ rowsAt = "read" /\ HasNext /\ row' = row + 1
    /\ rowInfo' = [n \in Names |-> rowInfo[n] \o ValuesOf(Rows[row + 1], n)]
    /\ UNCHANGED <<rowsAt, result, set, broken, closed, dataSetList, currentDataSetIdx, tableVars,
                   decodeVars>>

\* rows.NextResultSet(): the next set, or the rows are closed.
NextSet ==
    \/ ~broken /\ set < Len(result) /\ set' = set + 1 /\ row' = 0 /\ UNCHANGED closed
    \/ (broken \/ set = Len(result)) /\ closed' = TRUE /\ UNCHANGED <<set, row>>

\* Mutant of QueryExSet: dbResult is declared outside the loop.
QueryExSetKeepsRows ==
    /\ rowsAt = "read" /\ ~HasNext /\ UNCHANGED rowInfo
    /\ dataSetList' = Append(dataSetList, [rowNum |-> row, RowInfo |-> rowInfo])
    /\ NextSet /\ rowsAt' = IF closed' THEN "list" ELSE "read"
    /\ UNCHANGED <<result, broken, currentDataSetIdx, tableVars, decodeVars>>

\* The set is appended and the next one begun; after the last one, or when the
\* connection is broken (which is logged), the list is returned with a nil error.
QueryExSet ==
    /\ rowsAt = "read" /\ ~HasNext /\ rowInfo' = NoInfo
    /\ dataSetList' = Append(dataSetList, [rowNum |-> row, RowInfo |-> rowInfo])
    /\ NextSet /\ rowsAt' = IF closed' THEN "list" ELSE "read"
    /\ UNCHANGED <<result, broken, currentDataSetIdx, tableVars, decodeVars>>

-----------------------------------------------------------------------------
(* DataSetList.UnMarshal.                                                  *)

\* rowData2interface for field f of kind t and row i: its error and its value.
FieldErr(ds, i, f, t) ==
    LET c == ds.RowInfo[f]
    IN  c # <<>> /\ (Len(c) < i \/ (c[i] # Null /\ t = "int" /\ c[i] \notin Number))

FieldValue(ds, i, f) ==
    LET c == ds.RowInfo[f] IN IF c = <<>> \/ c[i] = Null THEN Zero ELSE c[i]

\* The rows an argument takes: the first one for a struct, even if there is
\* none, and all for a slice.
RowsFor(a, ds) == IF a.kind = "struct" THEN 1..1 ELSE 1..ds.rowNum

CallUnMarshal(as) ==
    /\ rowsAt = "list" /\ unMarshals < MaxCalls /\ unMarshals' = unMarshals + 1
    /\ out' = <<>> /\ args' = as
    /\ \/ Len(as) = Len(dataSetList) /\ rowsAt' = "unmarshal" /\ verdict' = "none"
       \/ Len(as) # Len(dataSetList) /\ rowsAt' = "list" /\ verdict' = "err"
    /\ UNCHANGED <<cursorVars, listVars, tableVars>>

\* One argument takes the data set the index is at.  An argument that is
\* neither a struct nor a slice is passed over.
UnMarshalArg ==
    LET a == args[Len(out) + 1]
        d == currentDataSetIdx + 1
        ds == dataSetList[d]
        fails == \E i \in RowsFor(a, ds), f \in DOMAIN a.type : FieldErr(ds, i, f, a.type[f])
    IN  /\ rowsAt = "unmarshal" /\ Len(out) < Len(args)
        /\ \/ /\ a.kind = "other" /\ currentDataSetIdx' = d
              /\ out' = Append(out, [from |-> d, rows |-> <<>>]) /\ UNCHANGED <<rowsAt, verdict>>
           \/ /\ a.kind # "other" /\ d > Len(dataSetList) /\ rowsAt' = "panic"
              /\ verdict' = "panic" /\ UNCHANGED <<currentDataSetIdx, out>>
           \/ /\ a.kind # "other" /\ d <= Len(dataSetList) /\ fails /\ rowsAt' = "list"
              /\ verdict' = "err" /\ UNCHANGED <<currentDataSetIdx, out>>
           \/ /\ a.kind # "other" /\ d <= Len(dataSetList) /\ ~fails /\ currentDataSetIdx' = d
              /\ out' = Append(out, [from |-> d, rows |->
                     [i \in RowsFor(a, ds) |-> [f \in DOMAIN a.type |-> FieldValue(ds, i, f)]]])
              /\ UNCHANGED <<rowsAt, verdict>>
        /\ UNCHANGED <<cursorVars, rowInfo, dataSetList, tableVars, args, unMarshals>>

UnMarshalReturns ==
    /\ rowsAt = "unmarshal" /\ Len(out) = Len(args) /\ rowsAt' = "list" /\ verdict' = "ok"
    /\ UNCHANGED <<cursorVars, listVars, tableVars, args, out, unMarshals>>

-----------------------------------------------------------------------------
(* DBResult.                                                               *)

\* UnMarshal: the columns of closed rows are an error; else the rows are read.
CallResultUnMarshal(a) ==
    /\ rowsAt = "result" /\ unMarshals < MaxCalls /\ unMarshals' = unMarshals + 1
    /\ args' = <<a>> /\ out' = <<>>
    /\ \/ closed /\ verdict' = "err" /\ UNCHANGED <<rowsAt, tableVars>>
       \/ /\ ~closed /\ rowsAt' = "scan" /\ verdict' = "none"
          /\ values' = [c \in DOMAIN Cols |-> Zero] /\ tableData' = <<>>
    /\ UNCHANGED <<cursorVars, listVars>>

\* dbResult2Map: Scan stops at a NULL, whose error is only printed, and the
\* strings of the row before stay where they are; a later column of a name wins.
ScanRow ==
    LET r == Rows[row + 1]
        v == [c \in DOMAIN Cols |-> IF \A d \in 1..c : r[d] # Null THEN r[c] ELSE values[c]]
        Last(n) == CHOOSE c \in DOMAIN Cols : /\ Lower[Cols[c]] = n
                                              /\ \A d \in DOMAIN Cols : Lower[Cols[d]] = n => d <= c
    IN  /\ rowsAt = "scan" /\ HasNext /\ row' = row + 1 /\ values' = v
        /\ tableData' = Append(tableData,
               [n \in {Lower[Cols[c]] : c \in DOMAIN Cols} |-> v[Last(n)]])
        /\ UNCHANGED <<rowsAt, result, set, broken, closed, listVars, decodeVars>>

\* mapSingle2interface for every row, a struct wants exactly one; the rows are
\* closed at the end of the last set.
ScanEnd ==
    LET a == args[1]
        fails == \/ a.kind = "struct" /\ Len(tableData) # 1
                 \/ a.kind = "other"
                 \/ \E i \in DOMAIN tableData, f \in DOMAIN a.type :
                        /\ f \in DOMAIN tableData[i] /\ tableData[i][f] # Zero
                        /\ a.type[f] = "int" /\ tableData[i][f] \notin Number
    IN  /\ rowsAt = "scan" /\ ~HasNext /\ rowsAt' = "result"
        /\ closed' = (closed \/ broken \/ set = Len(result))
        /\ \/ fails /\ verdict' = "err" /\ UNCHANGED out
           \/ /\ ~fails /\ verdict' = "ok"
              /\ out' = <<[from |-> set, rows |-> [i \in DOMAIN tableData |->
                     [f \in DOMAIN a.type |->
                         IF f \in DOMAIN tableData[i] THEN tableData[i][f] ELSE Zero]]]>>
        /\ UNCHANGED <<result, set, row, broken, listVars, tableVars, args, unMarshals>>

\* It skips what is left of the set.
NextResult ==
    /\ rowsAt = "result" /\ ~closed /\ NextSet /\ out' = <<>>
    /\ UNCHANGED <<rowsAt, result, broken, listVars, tableVars, args, verdict, unMarshals>>

CloseResult ==
    /\ rowsAt = "result" /\ ~closed /\ closed' = TRUE
    /\ UNCHANGED <<rowsAt, result, set, row, broken, listVars, tableVars, decodeVars>>

-----------------------------------------------------------------------------
RowsNext ==
    \/ \E r \in Results, at \in {"read", "result"} : OpenRows(r, at)
    \/ RowsBreak \/ QueryExRow \/ QueryExSet
    \/ \E as \in ArgLists :
        \/ CallUnMarshal(as)
        \/ Len(as) = 1 /\ CallResultUnMarshal(as[1])
    \/ UnMarshalArg \/ UnMarshalReturns
    \/ ScanRow \/ ScanEnd \/ NextResult \/ CloseResult

RowsSpec == RowsInit /\ [][RowsNext]_rowsVars

-----------------------------------------------------------------------------
(* Properties.                                                             *)

\* The value the server sent for name n in row i of set s, if it has one.
Sent(s, i, n) ==
    {result[s].rows[i][c] : c \in {c \in DOMAIN result[s].cols : Lower[result[s].cols[c]] = n}}

\* No two columns of set s have one name.
Distinct(s) ==
    \A c, d \in DOMAIN result[s].cols :
        Lower[result[s].cols[c]] = Lower[result[s].cols[d]] => c = d

\* What QueryEx returns with a nil error is what the server sent, set by set
\* and row by row, or the beginning of it if the connection broke.
ListIsBeginning ==
    rowsAt \in {"list", "unmarshal"} =>
        /\ Len(dataSetList) <= Len(result)
        /\ \A s \in DOMAIN dataSetList : dataSetList[s].rowNum <= Len(result[s].rows)
        /\ ~broken => /\ Len(dataSetList) = Len(result)
                      /\ \A s \in DOMAIN dataSetList :
                             dataSetList[s].rowNum = Len(result[s].rows)

\* The first UnMarshal of a list that returns nil has given the k-th argument
\* the k-th set, each row that was read its own values, if no two columns share
\* a name.
ListRowsAreOwn ==
    rowsAt = "list" /\ verdict = "ok" /\ unMarshals = 1 =>
        \A k \in DOMAIN out :
            /\ out[k].from = k
            /\ Distinct(k) => \A i \in DOMAIN out[k].rows : \A f \in DOMAIN out[k].rows[i] :
                   LET v == IF i <= dataSetList[k].rowNum THEN Sent(k, i, f) \ {Null} ELSE {}
                   IN  IF v = {} THEN out[k].rows[i][f] = Zero ELSE out[k].rows[i][f] \in v

\* A row decoded from a DBResult has its own values up to its first NULL; from
\* there on it has none or those of a row before it.
ResultRowsAreOwn ==
    rowsAt = "result" /\ verdict = "ok" /\ out # <<>> /\ Distinct(out[1].from) =>
        \A i \in DOMAIN out[1].rows : \A f \in DOMAIN out[1].rows[i] :
            LET s == out[1].from
                v == out[1].rows[i][f]
            IN  \/ v = Zero
                \/ v \in Sent(s, i, f)
                \/ /\ \E c \in DOMAIN result[s].cols : result[s].rows[i][c] = Null
                   /\ \E j \in 1..i - 1 : v \in Sent(s, j, f)

\* Only a second UnMarshal, with the index the first one left, runs off the list.
PanicsOnReuse == rowsAt = "panic" => unMarshals > 1 /\ currentDataSetIdx >= Len(dataSetList)

\* The caller gets the rows of its statement.
RowsInv ==
    RowsTypeOK /\ ListIsBeginning /\ ListRowsAreOwn /\ ResultRowsAreOwn /\ PanicsOnReuse

=============================================================================
