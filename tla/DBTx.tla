--------------------------------- MODULE DBTx ---------------------------------
(***************************************************************************)
(* The connections of sysmodule.DBModule (sysmodule/DBModule.go): Connect, *)
(* transactions, and statements run directly on the database, by several   *)
(* goroutines and RunPing.  database/sql, which is external, hands out at  *)
(* most maxconn connections and makes callers wait for one.                *)
(*                                                                         *)
(* A transaction keeps its connection until Commit or Rollback, a DBResult *)
(* until Close (or the last row); a caller may ask for a second one while  *)
(* it has one.  CheckArgs is given the arguments as one slice and refuses  *)
(* nothing.                                                                *)
(***************************************************************************)
EXTENDS Naturals, FiniteSets

CONSTANTS Session,    \* the goroutines that use the database
          MaxConn     \* maxconn

ASSUME TxAssumption == IsFiniteSet(Session) /\ MaxConn \in Nat \ {0}

VARIABLES
    db,         \* none, up, or nil after Connect failed
    inUse,      \* connections handed out
    sess,       \* each goroutine: the call it is in, its transaction, its open rows
    pinger,     \* RunPing: idle, wait, ping
    dbPanic     \* a nil dereference

dbVars == <<db, inUse, sess, pinger, dbPanic>>

Direct == {"Begin", "Query", "QueryEx", "Exec"}
SessIdle == [at |-> "idle", op |-> "none", tx |-> "none", rows |-> "none"]

DBTypeOK ==
    /\ db \in {"none", "up", "nil"} /\ inUse \in 0..MaxConn /\ dbPanic \in BOOLEAN
    /\ sess \in [Session -> [at : {"idle", "wait", "run", "txrun"}, op : Direct \cup {"none"},
                             tx : {"none", "nil", "open", "done"}, rows : {"none", "db", "tx"}]]
    /\ pinger \in {"idle", "wait", "ping"}

DBInit ==
    /\ db = "none" /\ inUse = 0 /\ sess = [g \in Session |-> SessIdle] /\ pinger = "idle"
    /\ dbPanic = FALSE

\* db is set only when the first Ping succeeds.
Connect ==
    /\ db = "none" /\ db' \in {"up", "nil"} /\ UNCHANGED <<inUse, sess, pinger, dbPanic>>

Becomes(g, s) == ~dbPanic /\ sess' = [sess EXCEPT ![g] = s]

\* The call of g returns.
Returns(s) == [s EXCEPT !.at = "idle", !.op = "none"]

-----------------------------------------------------------------------------
(* Statements on the database, and Begin.                                  *)

\* Without a database Query, QueryEx and Exec return an error; Begin does not
\* look.
CallDirect(g, op) ==
    /\ db # "none" /\ sess[g].at = "idle"
    /\ op = "Begin" => sess[g].tx # "open"
    /\ op = "Query" => sess[g].rows = "none"
    /\ \/ /\ db = "up" /\ Becomes(g, [sess[g] EXCEPT !.at = "wait", !.op = op])
          /\ UNCHANGED dbPanic
       \/ db = "nil" /\ op # "Begin" /\ ~dbPanic /\ UNCHANGED <<sess, dbPanic>>
       \/ db = "nil" /\ op = "Begin" /\ ~dbPanic /\ dbPanic' = TRUE /\ UNCHANGED sess
    /\ UNCHANGED <<db, inUse, pinger>>

\* database/sql hands out a connection.
GetConnection(g) ==
    /\ sess[g].at = "wait" /\ inUse < MaxConn /\ inUse' = inUse + 1
    /\ Becomes(g, [sess[g] EXCEPT !.at = "run"])
    /\ UNCHANGED <<db, pinger, dbPanic>>

\* Mutant of StatementErr: a failed Begin keeps the connection.
StatementErrKeeps(g) ==
    /\ sess[g].at = "run"
    /\ Becomes(g, Returns([sess[g] EXCEPT !.tx = IF sess[g].op = "Begin" THEN "nil" ELSE @]))
    /\ inUse' = IF sess[g].op = "Begin" THEN inUse ELSE inUse - 1
    /\ UNCHANGED <<db, pinger, dbPanic>>

\* The statement fails; Begin returns a Tx without a transaction.
StatementErr(g) ==
    /\ sess[g].at = "run" /\ inUse' = inUse - 1
    /\ Becomes(g, Returns([sess[g] EXCEPT !.tx = IF sess[g].op = "Begin" THEN "nil" ELSE @]))
    /\ UNCHANGED <<db, pinger, dbPanic>>

\* It succeeds: QueryEx has read and closed its rows when it returns.
StatementOk(g) ==
    /\ sess[g].at = "run"
    /\ \/ /\ sess[g].op = "Begin" /\ UNCHANGED inUse
          /\ Becomes(g, Returns([sess[g] EXCEPT !.tx = "open"]))
       \/ /\ sess[g].op = "Query" /\ UNCHANGED inUse
          /\ Becomes(g, Returns([sess[g] EXCEPT !.rows = "db"]))
       \/ /\ sess[g].op \in {"QueryEx", "Exec"} /\ Becomes(g, Returns(sess[g]))
          /\ inUse' = inUse - 1
    /\ UNCHANGED <<db, pinger, dbPanic>>

\* DBResult.Close.
CloseRows(g) ==
    /\ sess[g].at = "idle" /\ sess[g].rows # "none"
    /\ Becomes(g, [sess[g] EXCEPT !.rows = "none"])
    /\ inUse' = IF sess[g].rows = "db" THEN inUse - 1 ELSE inUse
    /\ UNCHANGED <<db, pinger, dbPanic>>

-----------------------------------------------------------------------------
(* The methods of Tx.                                                      *)

\* Without a transaction, or after its end, the statement is an error.
TxCall(g, op) ==
    /\ sess[g].at = "idle" /\ sess[g].tx # "none" /\ op \in Direct \ {"Begin"}
    /\ op = "Query" => sess[g].rows = "none"
    /\ \/ sess[g].tx = "open" /\ Becomes(g, [sess[g] EXCEPT !.at = "txrun", !.op = op])
       \/ sess[g].tx # "open" /\ ~dbPanic /\ UNCHANGED sess
    /\ UNCHANGED <<db, inUse, pinger, dbPanic>>

\* It runs on the transaction's connection.  Tx.Query leaves its rows open
\* there; Tx.QueryEx has closed them and Tx.Exec has none.
TxReturns(g) ==
    /\ sess[g].at = "txrun"
    /\ \E r \in {sess[g].rows} \cup (IF sess[g].op = "Query" THEN {"tx"} ELSE {}) :
           Becomes(g, Returns([sess[g] EXCEPT !.rows = r]))
    /\ UNCHANGED <<db, inUse, pinger, dbPanic>>

\* Commit and Rollback give the connection back, with the rows on it, also when
\* they fail; after the end they are an error.  They do not look for a nil tx.
EndTx(g) ==
    /\ sess[g].at = "idle"
    /\ \/ /\ sess[g].tx = "open" /\ inUse' = inUse - 1 /\ UNCHANGED dbPanic
          /\ Becomes(g, [sess[g] EXCEPT !.tx = "done",
                             !.rows = IF sess[g].rows = "tx" THEN "none" ELSE sess[g].rows])
       \/ sess[g].tx = "nil" /\ ~dbPanic /\ dbPanic' = TRUE /\ UNCHANGED <<inUse, sess>>
    /\ UNCHANGED <<db, pinger>>

-----------------------------------------------------------------------------
(* RunPing, which nothing stops.                                           *)

PingTick ==
    /\ db = "up" /\ ~dbPanic /\ pinger = "idle" /\ pinger' = "wait"
    /\ UNCHANGED <<db, inUse, sess, dbPanic>>

PingGets ==
    /\ ~dbPanic /\ pinger = "wait" /\ inUse < MaxConn /\ inUse' = inUse + 1 /\ pinger' = "ping"
    /\ UNCHANGED <<db, sess, dbPanic>>

PingReturns ==
    /\ ~dbPanic /\ pinger = "ping" /\ inUse' = inUse - 1 /\ pinger' = "idle"
    /\ UNCHANGED <<db, sess, dbPanic>>

-----------------------------------------------------------------------------
DBNext ==
    \/ Connect \/ PingTick \/ PingGets \/ PingReturns
    \/ \E g \in Session :
        \/ \E op \in Direct : CallDirect(g, op) \/ TxCall(g, op)
        \/ GetConnection(g) \/ StatementErr(g) \/ StatementOk(g) \/ CloseRows(g)
        \/ TxReturns(g) \/ EndTx(g)

DBSpec == DBInit /\ [][DBNext]_dbVars

-----------------------------------------------------------------------------
(* Properties.                                                             *)

\* Every connection that is handed out is that of a statement that runs, of an
\* open transaction, of open rows or of the ping: no path of the code, failed or
\* not, loses one.
ConnectionsAccounted ==
    inUse = Cardinality({g \in Session : sess[g].at = "run"})
              + Cardinality({g \in Session : sess[g].tx = "open"})
              + Cardinality({g \in Session : sess[g].rows = "db"})
              + (IF pinger = "ping" THEN 1 ELSE 0)

\* The process dies only of a Begin without a database and of the end of a
\* transaction that did not begin.
PanicsAreNil ==
    dbPanic => db = "nil" \/ \E g \in Session : sess[g].tx = "nil"

\* Callers that wait for a connection wait for one another and for nobody else.
TxInv == DBTypeOK /\ ConnectionsAccounted /\ PanicsAreNil

=============================================================================
