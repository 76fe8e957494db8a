-------------------------------- MODULE MCSafe --------------------------------
(***************************************************************************)
(* The components that promise what is never wrong, for TLC: the tree of   *)
(* modules, the set-up of a node from the cluster's configuration, the     *)
(* framing of messages, the HTTP requests, the queues, the maps and the    *)
(* search of a cron expression, which also ends.  They share no state, so  *)
(* a behaviour takes steps of one of them while the others are as they     *)
(* were created: the states add up and do not multiply.                    *)
(***************************************************************************)
EXTENDS ModuleTree, NodeSetup, MsgParser, HttpClientPool, RingQueue, SyncQueue, UMap, CronExpr

treeNodeVars == <<treeVars, nodeVars>>
queuesVars == <<queueVars, syncVars>>
wireVars == <<parserVars, httpVars>>
dataVars == <<wireVars, queuesVars, mapVars>>
vars == <<treeNodeVars, dataVars, cronVars>>

TreeNodeInit == TreeInit /\ NodeInit
QueuesInit == QueueInit /\ SyncInit
WireInit == ParserInit /\ HttpInit
DataInit == WireInit /\ QueuesInit /\ MapInit
Init == TreeNodeInit /\ DataInit /\ CronInit

TreeNodeStep ==
    \/ NodeInit /\ TreeNext /\ UNCHANGED nodeVars
    \/ TreeInit /\ NodeNext /\ UNCHANGED treeVars

QueuesStep ==
    \/ SyncInit /\ QueueNext /\ UNCHANGED syncVars
    \/ QueueInit /\ SyncNext /\ UNCHANGED queueVars

WireStep ==
    \/ HttpInit /\ ParserNext /\ UNCHANGED httpVars
    \/ ParserInit /\ HttpNext /\ UNCHANGED parserVars

DataStep ==
    \/ QueuesInit /\ MapInit /\ WireStep /\ UNCHANGED <<queuesVars, mapVars>>
    \/ WireInit /\ MapInit /\ QueuesStep /\ UNCHANGED <<wireVars, mapVars>>
    \/ WireInit /\ QueuesInit /\ MapNext /\ UNCHANGED <<wireVars, queuesVars>>

Next ==
    \/ DataInit /\ CronInit /\ TreeNodeStep /\ UNCHANGED <<dataVars, cronVars>>
    \/ TreeNodeInit /\ CronInit /\ DataStep /\ UNCHANGED <<treeNodeVars, cronVars>>
    \/ TreeNodeInit /\ DataInit /\ CronNext /\ UNCHANGED <<treeNodeVars, dataVars>>

Spec == Init /\ [][Next]_vars /\ CronFairness

-----------------------------------------------------------------------------
(* Two subnets; the program's objects, two of which have one name.         *)

MCMaxNodes == [sn1 |-> 2, sn2 |-> 1]
MCNameOf == [o1 |-> "S", o2 |-> "T", o3 |-> "S"]

Entry(s, l) == [name |-> s, local |-> l]
NodeEntry(n, L) == [NodeId |-> n, ServiceList |-> L]

\* Services are set up on files with two nodes of one subnet, each of which
\* offers nothing or one service, public or private.
MCSetupFiles ==
    LET Lists == {<<>>} \cup {<<Entry(s, l)>> : s \in ServiceName, l \in BOOLEAN}
    IN  {[sn \in SubNet |-> IF sn = "sn1" THEN l ELSE <<>>] :
            l \in {<<NodeEntry(1, L), NodeEntry(2, K)>> : L, K \in Lists}}
-----------------------------------------------------------------------------
(* Bytes of two values: lengths in 1, 2 and 4 bytes are at most 1, 3, 15.  *)

MCArgs == {<<>>, <<<<1>>>>, <<<<0>>, <<1>>>>, <<<<1, 0>>, <<0>>>>, <<<<0, 0, 1, 1>>>>}

-----------------------------------------------------------------------------
(* A calendar of two-second minutes, two-minute hours, two-hour days,      *)
(* three-day weeks and two months, the last one longer in leap years.      *)

El(lo, hi, incr) == [lo |-> lo, hi |-> hi, incr |-> incr]

Every == {El(Star, Absent, Absent)}
Just(n) == {El(n, Absent, Absent)}

MCMonthDays == <<2, 3>>
MCLeapYears == {2}

\* *, the two numbers, and a number the field does not allow.
MCSec == {Every, Just(1)}
MCTwo == {Every, Just(0), Just(1), Just(7)}

\* *, a day of leap years only, and a list with a range.
MCDom == {Every, Just(4), Just(1) \cup {El(3, 4, Absent)}}

\* *, a number and 2/2; * and */2.
MCMonth == {Every, Just(1), {El(2, Absent, 2)}}
MCDow == {Every, {El(Star, Absent, 2)}}

-----------------------------------------------------------------------------
(* Two keys, in one stripe or, with two stripes or more, in different ones. *)

MCHashCode == [a |-> 0, b |-> 5]

=============================================================================
