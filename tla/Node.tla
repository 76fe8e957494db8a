-------------------------------- MODULE Node --------------------------------
(***************************************************************************)
(* The main goroutine of a node: node.Start (node/node.go) starts the      *)
(* cluster's server and the services, waits for a signal, closes closeSig  *)
(* and waits for the services (service/servicemgr.go).  The loop of each   *)
(* service is reduced to whether it runs; ServiceRpc has its detail.       *)
(***************************************************************************)
EXTENDS Naturals

CONSTANTS Service,
          SigBuf,       \* capacity of the sigs channel (3 in the code)
          MaxSignals    \* bound on the signals sent to the process

VARIABLES npc,        \* main goroutine: start, loop, stop, wait, exited
          sigs,       \* signals buffered in sigs
          sent,       \* signals sent so far
          closeSig,   \* closeSig is closed
          svc         \* each service: new, running, stopped

vars == <<npc, sigs, sent, closeSig, svc>>

Init ==
    /\ npc = "start" /\ sigs = 0 /\ sent = 0 /\ closeSig = FALSE
    /\ svc = [s \in Service |-> "new"]

\* cluster.Start, then service.Start over the map of services, in any order.
StartService(s) ==
    /\ npc = "start" /\ svc[s] = "new"
    /\ svc' = [svc EXCEPT ![s] = "running"]
    /\ npc' = IF \A t \in Service \ {s} : svc[t] = "running" THEN "loop" ELSE npc
    /\ UNCHANGED <<sigs, sent, closeSig>>

\* signal.Notify never blocks: a signal that finds sigs full is dropped.
Signal ==
    /\ sent < MaxSignals /\ sent' = sent + 1
    /\ sigs' = IF sigs < SigBuf THEN sigs + 1 ELSE sigs
    /\ UNCHANGED <<npc, closeSig, svc>>

\* case <-sigs: the break ends the select; the for statement goes on.
LoopSignal ==
    /\ npc = "loop" /\ sigs > 0
    /\ sigs' = sigs - 1 /\ npc' = "loop"
    /\ UNCHANGED <<sent, closeSig, svc>>

\* The statements after the loop.
CloseSig ==
    /\ npc = "stop" /\ npc' = "wait" /\ closeSig' = TRUE
    /\ UNCHANGED <<sigs, sent, svc>>

\* A service whose loop sees closeSig stops.
ServiceStops(s) ==
    /\ closeSig /\ svc[s] = "running"
    /\ svc' = [svc EXCEPT ![s] = "stopped"]
    /\ UNCHANGED <<npc, sigs, sent, closeSig>>

\* service.WaitStop returns.
WaitStop ==
    /\ npc = "wait" /\ \A s \in Service : svc[s] = "stopped"
    /\ npc' = "exited" /\ UNCHANGED <<sigs, sent, closeSig, svc>>

Next ==
    \/ \E s \in Service : StartService(s) \/ ServiceStops(s)
    \/ Signal \/ LoopSignal \/ CloseSig \/ WaitStop

\* The main goroutine and the services are scheduled; signals need not come.
Fairness ==
    /\ \A s \in Service : WF_vars(StartService(s)) /\ WF_vars(ServiceStops(s))
    /\ WF_vars(LoopSignal) /\ WF_vars(CloseSig) /\ WF_vars(WaitStop)

FairSpec == Init /\ [][Next]_vars /\ Fairness

\* A signal received by a started node stops its services and ends Start.
StopsOnSignal == sigs > 0 ~> npc = "exited"
=============================================================================
