------------------------------- MODULE MCRedis -------------------------------
(***************************************************************************)
(* The sides of RedisModule for TLC: the tasks with their goroutines, the  *)
(* commands on strings, hash and list, and those on a sorted set.  They    *)
(* share no state, so a behaviour takes steps of one of them while the     *)
(* others are as they were created: the states add up and do not multiply. *)
(***************************************************************************)
EXTENDS RedisTask, RedisZSet

vars == <<taskVars, dataVars, zsetVars>>

Init == TaskInit /\ DataInit /\ ZSetInit

\* The sessions are alike: while all are free, it is this one that starts.  So are
\* the clients, and the first call of all is this one's.
FirstSession == CHOOSE p \in Session : TRUE
FirstClient == CHOOSE c \in Client : TRUE
FirstStarts(now, next) ==
    (\A p \in Session : now[p] = NoOp) => \A p \in Session \ {FirstSession} : next[p] = NoOp

\* Bound: where a key held a value of another type, two operations at most.
NoOther == \A m \in past : \A k \in Key : m[1]["string"][k] # Other
Bounded == NoOther \/ \A i \in OpId : i > 2 => kind'[i] = NoOp

TaskStep ==
    /\ DataInit /\ NoOther /\ ZSetInit /\ TaskNext /\ UNCHANGED <<dataVars, zsetVars>>
    /\ calls = <<>> => \A j \in DOMAIN calls' : calls'[j].by = FirstClient
DataStep ==
    /\ TaskInit /\ ZSetInit /\ DataNext /\ UNCHANGED <<taskVars, zsetVars>> /\ Bounded
    /\ FirstStarts(curOp, curOp')
ZSetStep ==
    /\ TaskInit /\ DataInit /\ NoOther /\ ZSetNext /\ UNCHANGED <<taskVars, dataVars>>
    /\ FirstStarts(zcall, zcall')

Next == TaskStep \/ DataStep \/ ZSetStep

Spec == Init /\ [][Next]_vars /\ TaskFairness

\* Every way to queue a task, and every fate that takes another path.  An
\* encoded value that json.Marshal accepts is queued like any other, so the
\* JSON operations appear with the fate "badJSON" only; a Do that fails ends as
\* one that succeeds, with another result.
MCMix ==
    {<<"sync", "ok">>} \cup ({"set"} \X {"ok", "badKey", "connErr"})
        \cup ({"stringJSON", "hashJSON", "listJSON"} \X {"badJSON"})

\* Operations on one kind of value at a time; three of them where a read needs
\* two writes to be interesting.
MCGroups ==
    {[ops |-> StringOps, max |-> 2],
     [ops |-> HashOps, max |-> 2],
     [ops |-> ListOps, max |-> 2],
     [ops |-> {"setString", "setStringJSON", "getMuchJSON"}, max |-> 3]}

\* Two members that are JSON, one that is two values, and one that is none.
MCElements == <<1, 1, 2, 0>>

=============================================================================
