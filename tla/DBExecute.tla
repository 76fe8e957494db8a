------------------------------ MODULE DBExecute ------------------------------
(***************************************************************************)
(* The executors of sysmodule.DBModule (sysmodule/DBModule.go): SyncQuery, *)
(* SyncExec, AsyncQuery and AsyncExec hand a function to one of several    *)
(* goroutines, chosen by the caller's hash; Get waits for the answer of    *)
(* the synchronous ones with a timeout; OnRelease stops the goroutines.    *)
(*                                                                         *)
(* The database is external.  What it does with a statement is the fate of *)
(* the request: ok, sqlErr (it refuses the statement) or noDb (Init could  *)
(* not connect, so db is nil).  CheckArgs never refuses anything here: it  *)
(* is given the argument slice as one argument and looks at strings only.  *)
(***************************************************************************)
EXTENDS Integers, Sequences, FiniteSets

CONSTANTS Client,            \* goroutines that use the module
          ExecuteNum,        \* len(executeList)
          MAX_EXECUTE_FUN,   \* capacity of syncExecuteFun, 10000 in the code
          Hashes,            \* the values of queryHas in use
          Requests,          \* the requests in use: [kind, fate] records
          CanRelease,        \* the module may be released
          MaxRequests        \* bound on the requests

Sync == {"query", "exec"}
Kinds == Sync \cup {"asyncQuery", "asyncExec"}
Fates == {"ok", "sqlErr", "noDb"}

ASSUME DBAssumption ==
    /\ ExecuteNum \in Nat \ {0} /\ MAX_EXECUTE_FUN \in Nat \ {0} /\ MaxRequests \in Nat
    /\ Hashes \subseteq Int /\ Requests \subseteq [kind : Kinds, fate : Fates]
    /\ CanRelease \in BOOLEAN

VARIABLES
    reqs,       \* the requests made, in order: [by, kind, fate, hash, chan]
    cpc,        \* each client: idle, send (after the test of len), select, dataset
    cur,        \* the request the client is in
    fun,        \* syncExecuteFun of each executor
    exit,       \* OnRelease has closed the exit channels
    epc,        \* each executor: idle (in its select), run, push, ended
    job,        \* the request whose function the executor runs
    err, sres,  \* the channels of each request, of capacity 1: empty or what is in them
    got,        \* the result of Get: none, timeout, or what it returned
    executed,   \* history: the statements in the order they ran
    called,     \* the requests whose callback ran
    crashed     \* nil dereference in an executor

clientVars == <<reqs, cpc, cur, got>>
execVars == <<fun, exit, epc, job, executed, called, crashed>>
vars == <<clientVars, execVars, err, sres>>

Executor == 0..(ExecuteNum - 1)
Ids == 1..MaxRequests
Empty == "empty"
Full == "full"             \* the error "chan is full"

TypeOK ==
    /\ reqs \in Seq([by : Client, kind : Kinds, fate : Fates, hash : Hashes, chan : Executor])
    /\ cpc \in [Client -> {"idle", "send", "select", "dataset"}] /\ cur \in [Client -> 0..MaxRequests]
    /\ fun \in [Executor -> Seq(Ids)]
    /\ \A e \in Executor : Len(fun[e]) <= MAX_EXECUTE_FUN
    /\ exit \in BOOLEAN /\ crashed \in BOOLEAN
    /\ epc \in [Executor -> {"idle", "run", "push", "ended"}] /\ job \in [Executor -> 0..MaxRequests]
    /\ err \in [Ids -> {Empty, "nil", "sqlErr", "noDb", Full}]
    /\ sres \in [Ids -> {Empty, "nil", "zero", "data"}]
    /\ got \in [Ids -> {"none", "timeout", "nil", "sqlErr", "noDb", Full}]
    /\ executed \in Seq(Ids) /\ called \subseteq Ids

\* Init and OnInit: the channels are made and the executors started.
Init ==
    /\ reqs = <<>> /\ cpc = [c \in Client |-> "idle"] /\ cur = [c \in Client |-> 0]
    /\ fun = [e \in Executor |-> <<>>] /\ exit = FALSE
    /\ epc = [e \in Executor |-> "idle"] /\ job = [e \in Executor |-> 0]
    /\ err = [q \in Ids |-> Empty] /\ sres = [q \in Ids |-> Empty]
    /\ got = [q \in Ids |-> "none"] /\ executed = <<>> /\ called = {} /\ crashed = FALSE

-----------------------------------------------------------------------------
(* The statements: what they return, as a pair of result and error.        *)

\* QueryEx always returns a list of data sets, empty on an error.
QueryEx(f) == IF f = "ok" THEN [rsp |-> "data", err |-> "nil"] ELSE [rsp |-> "zero", err |-> f]

\* Exec returns a nil result with an error of the database.
Exec(f) ==
    CASE f = "ok"     -> [rsp |-> "data", err |-> "nil"]
      [] f = "noDb"   -> [rsp |-> "zero", err |-> f]
      [] f = "sqlErr" -> [rsp |-> "nil",  err |-> f]

-----------------------------------------------------------------------------
(* The clients.                                                            *)

\* Go's remainder has the sign of the dividend.
GoRem(a, n) == IF a >= 0 THEN a % n ELSE -((-a) % n)

\* Mutant of ChanIndex: the executor is drawn for every request.
ChanIndexRandom(h) == Executor

\* The executors a request may be given to: a negative remainder draws one.
ChanIndex(h) == IF GoRem(h, ExecuteNum) < 0 THEN Executor ELSE {GoRem(h, ExecuteNum)}

\* The four entry points up to the test of the channel's length.  A full
\* channel is an error: SyncQuery and SyncExec answer it themselves, SyncExec
\* without a result, and the other two return it.
Begin(c, r, h) ==
    LET q == Len(reqs) + 1
    IN  /\ ~crashed /\ cpc[c] = "idle" /\ Len(reqs) < MaxRequests
        /\ \E i \in ChanIndex(h) :
            /\ reqs' = Append(reqs, [by |-> c, kind |-> r.kind, fate |-> r.fate, hash |-> h,
                                     chan |-> i])
            /\ cur' = [cur EXCEPT ![c] = q]
            /\ \/ /\ Len(fun[i]) < MAX_EXECUTE_FUN
                  /\ cpc' = [cpc EXCEPT ![c] = "send"] /\ UNCHANGED <<err, sres>>
               \/ /\ Len(fun[i]) >= MAX_EXECUTE_FUN
                  /\ cpc' = [cpc EXCEPT ![c] = IF r.kind \in Sync THEN "select" ELSE "idle"]
                  /\ err' = IF r.kind \in Sync THEN [err EXCEPT ![q] = Full] ELSE err
                  /\ sres' = IF r.kind = "query" THEN [sres EXCEPT ![q] = "zero"] ELSE sres
        /\ UNCHANGED <<got, execVars>>

\* syncExecuteFun <- func() ..., which blocks when another client has filled
\* the channel in between; then Get, for the synchronous ones.
Send(c) ==
    LET q == cur[c]
        i == reqs[q].chan
    IN  /\ ~crashed /\ cpc[c] = "send" /\ Len(fun[i]) < MAX_EXECUTE_FUN
        /\ fun' = [fun EXCEPT ![i] = Append(@, q)]
        /\ cpc' = [cpc EXCEPT ![c] = IF reqs[q].kind \in Sync THEN "select" ELSE "idle"]
        /\ UNCHANGED <<reqs, cur, got, exit, epc, job, err, sres, executed, called, crashed>>

\* Get: the ticker wins the select, or the error does and the result is then
\* waited for without a timeout.  (The error is taken out of its channel by
\* GetDataset here: nobody else reads it.)
GetTimeout(c) ==
    /\ ~crashed /\ cpc[c] = "select"
    /\ cpc' = [cpc EXCEPT ![c] = "idle"] /\ got' = [got EXCEPT ![cur[c]] = "timeout"]
    /\ UNCHANGED <<reqs, cur, execVars, err, sres>>

GetErr(c) ==
    /\ ~crashed /\ cpc[c] = "select" /\ err[cur[c]] # Empty
    /\ cpc' = [cpc EXCEPT ![c] = "dataset"] /\ UNCHANGED <<reqs, cur, got, execVars, err, sres>>

GetDataset(c) ==
    LET q == cur[c]
    IN  /\ ~crashed /\ cpc[c] = "dataset" /\ sres[q] # Empty
        /\ cpc' = [cpc EXCEPT ![c] = "idle"] /\ got' = [got EXCEPT ![q] = err[q]]
        /\ err' = [err EXCEPT ![q] = Empty] /\ sres' = [sres EXCEPT ![q] = Empty]
        /\ UNCHANGED <<reqs, cur, execVars>>

\* A client that got a timeout may call Get again.
GetAgain(c) ==
    /\ ~crashed /\ cpc[c] = "idle" /\ cur[c] # 0 /\ got[cur[c]] = "timeout"
    /\ cpc' = [cpc EXCEPT ![c] = "select"] /\ got' = [got EXCEPT ![cur[c]] = "none"]
    /\ UNCHANGED <<reqs, cur, execVars, err, sres>>

-----------------------------------------------------------------------------
(* RunExecuteDBCoroutine and OnRelease.                                    *)

Take(e) ==
    /\ ~crashed /\ epc[e] = "idle" /\ fun[e] # <<>>
    /\ job' = [job EXCEPT ![e] = Head(fun[e])] /\ fun' = [fun EXCEPT ![e] = Tail(@)]
    /\ epc' = [epc EXCEPT ![e] = "run"]
    /\ UNCHANGED <<clientVars, exit, executed, called, crashed, err, sres>>

\* Mutant of Exit: only the first executor hears of the release.
ExitFirstOnly(e) ==
    /\ ~crashed /\ epc[e] = "idle" /\ exit /\ e = 0 /\ epc' = [epc EXCEPT ![e] = "ended"]
    /\ UNCHANGED <<clientVars, fun, exit, job, executed, called, crashed, err, sres>>

Exit(e) ==
    /\ ~crashed /\ epc[e] = "idle" /\ exit /\ epc' = [epc EXCEPT ![e] = "ended"]
    /\ UNCHANGED <<clientVars, fun, exit, job, executed, called, crashed, err, sres>>

Ran(e, to) == ~crashed /\ epc[e] = "run" /\ epc' = [epc EXCEPT ![e] = to]
              /\ executed' = Append(executed, job[e])

\* Mutant of RunQuery: the result of a failed query is not sent.
RunQueryErrOnly(e) ==
    LET q == job[e]
        r == QueryEx(reqs[q].fate)
    IN  /\ epc[e] = "run" /\ reqs[q].kind = "query"
        /\ Ran(e, IF r.err = "nil" THEN "push" ELSE "idle") /\ err' = [err EXCEPT ![q] = r.err]
        /\ UNCHANGED <<clientVars, fun, exit, job, called, crashed, sres>>

\* The function of SyncQuery: the error, then the result.
RunQuery(e) ==
    LET q == job[e]
    IN  /\ epc[e] = "run" /\ reqs[q].kind = "query"
        /\ Ran(e, "push") /\ err' = [err EXCEPT ![q] = QueryEx(reqs[q].fate).err]
        /\ UNCHANGED <<clientVars, fun, exit, job, called, crashed, sres>>

PushDataset(e) ==
    LET q == job[e]
    IN  /\ ~crashed /\ epc[e] = "push" /\ epc' = [epc EXCEPT ![e] = "idle"]
        /\ sres' = [sres EXCEPT ![q] = QueryEx(reqs[q].fate).rsp]
        /\ UNCHANGED <<clientVars, fun, exit, job, executed, called, crashed, err>>

\* The function of SyncExec: the error or the result.
RunExec(e) ==
    LET q == job[e]
        r == Exec(reqs[q].fate)
    IN  /\ epc[e] = "run" /\ reqs[q].kind = "exec" /\ Ran(e, "idle")
        /\ err' = IF r.err # "nil" THEN [err EXCEPT ![q] = r.err] ELSE err
        /\ sres' = IF r.err = "nil" THEN [sres EXCEPT ![q] = r.rsp] ELSE sres
        /\ UNCHANGED <<clientVars, fun, exit, job, called, crashed>>

\* The function of AsyncQuery.
RunAsyncQuery(e) ==
    /\ epc[e] = "run" /\ reqs[job[e]].kind = "asyncQuery" /\ Ran(e, "idle")
    /\ called' = called \cup {job[e]}
    /\ UNCHANGED <<clientVars, fun, exit, job, crashed, err, sres>>

\* The function of AsyncExec copies the result before it looks at the error.
RunAsyncExec(e) ==
    LET q == job[e]
        lost == Exec(reqs[q].fate).rsp = "nil"
    IN  /\ epc[e] = "run" /\ reqs[q].kind = "asyncExec" /\ Ran(e, "idle")
        /\ crashed' = lost /\ called' = IF lost THEN called ELSE called \cup {q}
        /\ UNCHANGED <<clientVars, fun, exit, job, err, sres>>

OnRelease ==
    /\ ~crashed /\ CanRelease /\ ~exit /\ exit' = TRUE
    /\ UNCHANGED <<clientVars, fun, epc, job, executed, called, crashed, err, sres>>

-----------------------------------------------------------------------------
Run(e) == RunQuery(e) \/ PushDataset(e) \/ RunExec(e) \/ RunAsyncQuery(e) \/ RunAsyncExec(e)

Next ==
    \/ \E c \in Client, r \in Requests, h \in Hashes : Begin(c, r, h)
    \/ \E c \in Client : Send(c) \/ GetTimeout(c) \/ GetErr(c) \/ GetDataset(c) \/ GetAgain(c)
    \/ \E e \in Executor : Take(e) \/ Exit(e) \/ Run(e)
    \/ OnRelease

Spec == Init /\ [][Next]_vars

\* Goroutines that can run do run, statements come to an end and tickers tick.
\* A select with two ready cases takes each of them now and then.
Fairness ==
    /\ \A c \in Client :
           WF_vars(Send(c)) /\ WF_vars(GetTimeout(c) \/ GetErr(c)) /\ WF_vars(GetDataset(c))
    /\ \A e \in Executor : WF_vars(Run(e)) /\ WF_vars(Take(e) \/ Exit(e)) /\ SF_vars(Exit(e))

FairSpec == Spec /\ Fairness

-----------------------------------------------------------------------------
(* Properties.                                                             *)

\* The statements a client issues with one hash run in the order it issued
\* them, unless the remainder of the hash is negative: what the hash is for.
HashOrder ==
    \A i, j \in DOMAIN executed :
        LET p == reqs[executed[i]]
            q == reqs[executed[j]]
        IN  i < j /\ p.by = q.by /\ p.hash = q.hash /\ GoRem(p.hash, ExecuteNum) >= 0
            => executed[i] < executed[j]

\* A Get that returns anything but a timeout returns the outcome of its own
\* statement, also when the answer came after an earlier Get had timed out.
GetIsOwn ==
    \A q \in DOMAIN reqs :
        got[q] \notin {"none", "timeout", Full} =>
            /\ \E i \in DOMAIN executed : executed[i] = q
            /\ got[q] = QueryEx(reqs[q].fate).err

\* Get on a SyncQuery comes back although it waits for the result without a
\* timeout once it has the error, whatever releases and full channels do
\* (unless the process dies).
QueryReturns ==
    \A c \in Client :
        cpc[c] \in {"select", "dataset"} /\ reqs[cur[c]].kind = "query"
            ~> cpc[c] = "idle" \/ crashed

\* As long as the module is not released every entry point returns, although
\* the channel may fill between the test of its length and the send.
SendReturns == \A c \in Client : cpc[c] = "send" ~> cpc[c] # "send" \/ exit \/ crashed

\* The executors stop after OnRelease, with functions left in their channels.
ExecutorsStop == exit ~> crashed \/ \A e \in Executor : epc[e] = "ended"

\* Statements run in the order their hash asks for, results belong to their
\* statements, and channels keep their bounds.
ResultInv == TypeOK /\ HashOrder /\ GetIsOwn

\* No caller stays in the module: neither in a send nor in the Get of a query.
CallersReturn == QueryReturns /\ SendReturns

=============================================================================
