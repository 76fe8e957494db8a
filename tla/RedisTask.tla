------------------------------ MODULE RedisTask ------------------------------
(***************************************************************************)
(* The task channel, the router goroutines, the connection pool and the    *)
(* result channels of sysmodule.RedisModule (sysmodule/RedisModule.go).    *)
(* A client runs an operation itself (SetString, DelString...) or hands it *)
(* to the routers (the Go... functions), with or without a RetError to Get *)
(* the result from.  A client waits for a result before it uses the        *)
(* RetError again, as its single channel of one slot demands.              *)
(***************************************************************************)
EXTENDS Integers, Sequences, FiniteSets

CONSTANTS
    Client,            \* goroutines that call the module
    Router,            \* the SyncRouterNum goroutines that run RunAnsyTask
    MAX_TASK_CHANNEL,  \* capacity of redisTask
    MaxActive,         \* connections the pool opens at most; Get waits for one
    MaxCalls,          \* bound: calls made in a behaviour
    Mix,               \* the operations of this instance, each with a fate
    None               \* nobody, nothing

\* "sync" runs in its caller.  The others are the four ways to queue a task:
\* "set" has its strings ready (GoSetStringExpire, GoSetMuchStringExpire,
\* GoDelString, GoDelMuchString, GoSetHash, GoSetMuchHashJSON, GoDelMuchHash,
\* gosetList); "stringJSON" (GoSetStringJSONExpire), "hashJSON" (GoSetHashJSON)
\* and "listJSON" (GoSetListJSONLpush, GoSetListJSONRpush) encode a value first.
AllOps == {"sync", "set", "stringJSON", "hashJSON", "listJSON"}

\* "badJSON": json.Marshal fails; "badKey": an empty key or an empty list of
\* keys; "connErr": the pool hands out a connection in error; "doErr": Do fails
\* or its reply has another type; "ok".
AllFates == {"badJSON", "badKey", "connErr", "doErr", "ok"}

ASSUME TaskAssumption ==
    /\ Client \cap Router = {} /\ None \notin Client \cup Router /\ IsFiniteSet(Router)
    /\ MAX_TASK_CHANNEL \in Nat \ {0} /\ MaxActive \in Nat \ {0} /\ MaxCalls \in Nat
    /\ Mix \subseteq AllOps \X AllFates
    /\ \A m \in Mix : m[2] = "badJSON" => m[1] \notin {"sync", "set"}

Proc == Client \cup Router
CallId == 1..MaxCalls

VARIABLES
    calls,      \* the calls made: operation, fate, caller, and whether it passed a RetError
    redisTask,  \* the task channel: call ids
    pc,         \* where each goroutine is
    cur,        \* the call each goroutine works for, or None
    active,     \* connections taken from the pool
    resultChan, \* resultChan[c]: channel of the RetError of client c, None before make
    got,        \* what Get returned for a call, "none" before
    dropped,    \* calls whose task GoTask refused
    executed,   \* calls in the order in which Do reached the database
    panicked    \* a goroutine dereferenced a nil RetError

taskVars == <<calls, redisTask, pc, cur, active, resultChan, got, dropped, executed, panicked>>

\* The error an operation of fate f returns; "ok" stands for nil.
Err(f) == f

-----------------------------------------------------------------------------
TaskInit ==
    /\ calls = <<>> /\ redisTask = <<>>
    /\ pc = [p \in Proc |-> IF p \in Router THEN "take" ELSE "idle"]
    /\ cur = [p \in Proc |-> None]
    /\ active = 0
    /\ resultChan = [c \in Client |-> None]
    /\ got = [q \in CallId |-> "none"]
    /\ dropped = {} /\ executed = <<>> /\ panicked = FALSE

To(p, where) == pc' = [pc EXCEPT ![p] = where]

Make(c) == resultChan' = [resultChan EXCEPT ![c] = <<>>]

\* GoTask for a task that has its data: the result channel is made before, and
\* when the task channel is full GoTask's error goes nowhere.
GoTask(c, q, ret) ==
    /\ IF ret THEN Make(c) ELSE UNCHANGED resultChan
    /\ IF Len(redisTask) >= MAX_TASK_CHANNEL
       THEN /\ dropped' = dropped \cup {q}
            /\ To(c, IF ret THEN "get" ELSE "idle")
       ELSE /\ To(c, "send") /\ UNCHANGED dropped
    /\ UNCHANGED panicked

\* A RetError that is nil is dereferenced.
Panic(c) == panicked' = TRUE /\ To(c, "idle") /\ UNCHANGED <<resultChan, dropped>>

\* The error of json.Marshal, on a channel made for it.
Report(c) ==
    /\ To(c, "get") /\ resultChan' = [resultChan EXCEPT ![c] = <<Err("badJSON")>>]
    /\ UNCHANGED <<dropped, panicked>>

\* GoSetStringJSONExpire sends the error on the channel as it stands: nil, in a
\* RetError that was not used before.
BadStringJSON(c, ret) ==
    \/ ~ret /\ Panic(c)
    \/ ret /\ resultChan[c] # None /\ Report(c)
    \/ ret /\ resultChan[c] = None /\ To(c, "nilChan") /\ UNCHANGED <<resultChan, dropped, panicked>>

\* GoSetHashJSON makes a channel for the error when it has a RetError.
BadHashJSON(c, ret) ==
    \/ ~ret /\ To(c, "idle") /\ UNCHANGED <<resultChan, dropped, panicked>>
    \/ ret /\ Report(c)

\* GoSetListJSONLpush and ...Rpush do so without looking whether they have one.
BadListJSON(c, ret) ==
    \/ ~ret /\ Panic(c)
    \/ ret /\ Report(c)

\* A client calls the module.
Call(c, op, f, ret) ==
    LET q == Len(calls) + 1 IN
    /\ pc[c] = "idle" /\ ~panicked /\ q \in CallId
    /\ op = "sync" => ~ret
    /\ calls' = Append(calls, [op |-> op, fate |-> f, by |-> c, ret |-> ret])
    /\ cur' = [cur EXCEPT ![c] = q]
    /\ CASE op = "sync" -> To(c, "key") /\ UNCHANGED <<resultChan, dropped, panicked>>
         [] f = "badJSON" /\ op = "stringJSON" -> BadStringJSON(c, ret)
         [] f = "badJSON" /\ op = "hashJSON" -> BadHashJSON(c, ret)
         [] f = "badJSON" /\ op = "listJSON" -> BadListJSON(c, ret)
         [] OTHER -> GoTask(c, q, ret)
    /\ UNCHANGED <<redisTask, active, got, executed>>

\* A client takes a new RetError for its next call.
NewRetError(c) ==
    /\ pc[c] = "idle" /\ resultChan[c] # None /\ Len(calls) < MaxCalls
    /\ resultChan' = [resultChan EXCEPT ![c] = None]
    /\ UNCHANGED <<calls, redisTask, pc, cur, active, got, dropped, executed, panicked>>

\* GoTask's send; the length was tested earlier, so it may have to wait.
Send(c) ==
    /\ pc[c] = "send" /\ Len(redisTask) < MAX_TASK_CHANNEL
    /\ redisTask' = Append(redisTask, cur[c])
    /\ To(c, IF calls[cur[c]].ret THEN "get" ELSE "idle")
    /\ UNCHANGED <<calls, cur, active, resultChan, got, dropped, executed, panicked>>

\* RetError.Get: waits for the one result.
Get(c) ==
    /\ pc[c] = "get" /\ resultChan[c] # None /\ resultChan[c] # <<>>
    /\ got' = [got EXCEPT ![cur[c]] = Head(resultChan[c])]
    /\ resultChan' = [resultChan EXCEPT ![c] = Tail(@)]
    /\ To(c, "idle")
    /\ UNCHANGED <<calls, redisTask, cur, active, dropped, executed, panicked>>

-----------------------------------------------------------------------------
(* A router takes a task and runs it.                                      *)

\* Mutant of RunAnsyTask: the last task is taken first.
RunAnsyTaskLast(r) ==
    /\ pc[r] = "take" /\ redisTask # <<>>
    /\ cur' = [cur EXCEPT ![r] = redisTask[Len(redisTask)]]
    /\ redisTask' = SubSeq(redisTask, 1, Len(redisTask) - 1)
    /\ To(r, "key")
    /\ UNCHANGED <<calls, active, resultChan, got, dropped, executed, panicked>>

RunAnsyTask(r) ==
    /\ pc[r] = "take" /\ redisTask # <<>>
    /\ cur' = [cur EXCEPT ![r] = Head(redisTask)]
    /\ redisTask' = Tail(redisTask)
    /\ To(r, "key")
    /\ UNCHANGED <<calls, active, resultChan, got, dropped, executed, panicked>>

\* An operation of p returns to the task function, or to the caller.
Returned(p) == To(p, IF p \in Router THEN "answer" ELSE "idle")

\* The test of the keys, before a connection is asked for.
CheckKey(p) ==
    /\ pc[p] = "key"
    /\ IF calls[cur[p]].fate = "badKey" THEN Returned(p) ELSE To(p, "conn")
    /\ UNCHANGED <<calls, redisTask, cur, active, resultChan, got, dropped, executed, panicked>>

\* getConn: waits while MaxActive connections are out, and closes one in error.
GetConn(p) ==
    /\ pc[p] = "conn" /\ active < MaxActive
    /\ IF calls[cur[p]].fate = "connErr" THEN Returned(p) /\ UNCHANGED active
       ELSE To(p, "do") /\ active' = active + 1
    /\ UNCHANGED <<calls, redisTask, cur, resultChan, got, dropped, executed, panicked>>

\* conn.Do, the look at its reply, and the deferred conn.Close.
Do(p) ==
    /\ pc[p] = "do"
    /\ executed' = Append(executed, cur[p])
    /\ active' = active - 1
    /\ Returned(p)
    /\ UNCHANGED <<calls, redisTask, cur, resultChan, got, dropped, panicked>>

\* Mutant of Answer: only errors are reported.
AnswerErrOnly(r) ==
    LET c == calls[cur[r]].by IN
    /\ pc[r] = "answer"
    /\ IF ~calls[cur[r]].ret \/ calls[cur[r]].fate = "ok" THEN UNCHANGED resultChan
       ELSE /\ resultChan[c] = <<>>
            /\ resultChan' = [resultChan EXCEPT ![c] = <<Err(calls[cur[r]].fate)>>]
    /\ To(r, "take") /\ cur' = [cur EXCEPT ![r] = None]
    /\ UNCHANGED <<calls, redisTask, active, got, dropped, executed, panicked>>

\* The task function sends the result to the RetError it was given, on the
\* channel that is in it now; the slot must be free.
Answer(r) ==
    LET c == calls[cur[r]].by IN
    /\ pc[r] = "answer"
    /\ IF ~calls[cur[r]].ret THEN UNCHANGED resultChan
       ELSE /\ resultChan[c] = <<>>
            /\ resultChan' = [resultChan EXCEPT ![c] = <<Err(calls[cur[r]].fate)>>]
    /\ To(r, "take") /\ cur' = [cur EXCEPT ![r] = None]
    /\ UNCHANGED <<calls, redisTask, active, got, dropped, executed, panicked>>

-----------------------------------------------------------------------------
Operation(p) == CheckKey(p) \/ GetConn(p) \/ Do(p)
RouterStep(r) == RunAnsyTask(r) \/ Operation(r) \/ Answer(r)
ClientStep(c) == Send(c) \/ Get(c) \/ Operation(c)

TaskNext ==
    \/ \E c \in Client, m \in Mix, ret \in BOOLEAN : Call(c, m[1], m[2], ret)
    \/ \E c \in Client : NewRetError(c) \/ ClientStep(c)
    \/ \E r \in Router : RouterStep(r)

TaskSpec == TaskInit /\ [][TaskNext]_taskVars

\* Goroutines that can run do run, the database answers, and a connection that
\* is given back goes to one that waits.  Nobody has to make a call.
TaskFairness ==
    /\ \A r \in Router : WF_taskVars(RouterStep(r))
    /\ \A c \in Client : WF_taskVars(ClientStep(c))

TaskFairSpec == TaskSpec /\ TaskFairness

-----------------------------------------------------------------------------
(* Properties.                                                             *)

TaskTypeOK ==
    /\ calls \in Seq([op : AllOps, fate : AllFates, by : Client, ret : BOOLEAN]) /\ Len(calls) <= MaxCalls
    /\ redisTask \in Seq(CallId) /\ Len(redisTask) <= MAX_TASK_CHANNEL
    /\ pc \in [Proc -> {"idle", "send", "get", "nilChan", "take", "key", "conn", "do", "answer"}]
    /\ cur \in [Proc -> CallId \cup {None}]
    /\ active \in 0..MaxActive
    /\ \A c \in Client : resultChan[c] = None \/ resultChan[c] \in Seq(AllFates)
    /\ got \in [CallId -> AllFates \cup {"none"}]
    /\ dropped \subseteq CallId /\ executed \in Seq(CallId) /\ panicked \in BOOLEAN

\* Get returns the outcome of the call it was asked for, never that of another
\* call made with the same RetError, and "no error" only when the command of
\* that call has reached the database.
GetIsOwn ==
    \A q \in CallId : got[q] # "none" =>
        /\ got[q] = Err(calls[q].fate)
        /\ got[q] \in {"ok", "doErr"} => \E i \in DOMAIN executed : executed[i] = q

\* With one router the commands a client hands to the routers reach the
\* database in the order of its calls, waiting for results or not.
QueueOrder ==
    Cardinality(Router) = 1 =>
        \A i, j \in DOMAIN executed :
            LET a == calls[executed[i]]
                b == calls[executed[j]]
            IN  (i < j /\ a.by = b.by /\ a.op # "sync" /\ b.op # "sync") => executed[i] < executed[j]

\* A Get on a call whose task entered the channel, or whose value could not be
\* encoded, returns, although routers and clients share a pool that may be exhausted
\* and the tasks of other clients are ahead.
GetReturns ==
    \A c \in Client :
        pc[c] = "get" /\ cur[c] \notin dropped ~> pc[c] # "get"

\* Results belong to their calls and keep the order of the queue in every state,
\* and channel and pool keep their bounds.
TaskInv == TaskTypeOK /\ GetIsOwn /\ QueueOrder

=============================================================================
