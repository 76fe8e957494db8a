------------------------------ MODULE NodeSetup ------------------------------
(***************************************************************************)
(* How the services of a node come up: node.Setup, node.Init and           *)
(* node.Start (node/node.go) on top of the cluster's configuration and the *)
(* table of services (service/servicemgr.go).  The program calls Setup     *)
(* when it likes, Init once and Start last.                                *)
(*                                                                         *)
(* A service object is a value of some type; the type's name is the        *)
(* service's name, so two objects may have the same one.                   *)
(***************************************************************************)
EXTENDS ClusterCfg

CONSTANTS Obj,           \* the service objects of the program
          NameOf,        \* the name of each
          SetupFiles,    \* the configurations explored when services are set up
          MaxSetups      \* bound on the calls of Setup

ASSUME SetupAssumption ==
    NameOf \in [Obj -> ServiceName] /\ SetupFiles \subseteq Files /\ MaxSetups \in Nat

VARIABLES
    nodePhase,         \* setup, cluster, services, inited, started
    preSetupService,   \* the objects passed to Setup, in order
    atInit,            \* history: its length when Init walked over it
    initNext,          \* index of the next object Init looks at
    ranOnInit,         \* history: objects whose OnInit ran, in order
    mapServiceName,    \* the installed objects, by name
    started            \* objects whose Start was called

setupVars == <<nodePhase, preSetupService, atInit, initNext, ranOnInit, mapServiceName, started>>
nodeVars == <<clusterVars, setupVars>>

SetupTypeOK ==
    /\ nodePhase \in {"setup", "cluster", "services", "inited", "started"}
    /\ preSetupService \in Seq(Obj) /\ ranOnInit \in Seq(Obj)
    /\ atInit \in 0..MaxSetups /\ initNext \in 1..MaxSetups + 1
    /\ DOMAIN mapServiceName \subseteq ServiceName
    /\ \A s \in DOMAIN mapServiceName : mapServiceName[s] \in Obj
    /\ started \subseteq Obj

SetupInit ==
    /\ nodePhase = "setup" /\ preSetupService = <<>> /\ atInit = 0 /\ initNext = 1
    /\ ranOnInit = <<>> /\ mapServiceName = <<>> /\ started = {}

NodeInit == ClusterInit /\ SetupInit

-----------------------------------------------------------------------------
\* node.Setup only remembers the object.
NodeSetup(o) ==
    /\ nodePhase \in {"setup", "inited"} /\ Len(preSetupService) < MaxSetups
    /\ nodePhase = "inited" => file \in SetupFiles
    /\ preSetupService' = Append(preSetupService, o)
    /\ UNCHANGED <<clusterVars, nodePhase, atInit, initNext, ranOnInit, mapServiceName, started>>

\* node.Init: Cluster.Init, whose failure is a panic ...
InitCluster ==
    /\ nodePhase \in {"setup", "cluster"} /\ nodePhase' = "cluster"
    /\ ClusterNext(IF preSetupService = <<>> THEN Files ELSE SetupFiles)
    /\ UNCHANGED <<preSetupService, atInit, initNext, ranOnInit, mapServiceName, started>>

\* ... service.Init, which finds no service installed yet ...
InitServices ==
    /\ nodePhase = "cluster" /\ phase = "ready" /\ nodePhase' = "services"
    /\ atInit' = Len(preSetupService)
    /\ UNCHANGED <<clusterVars, preSetupService, initNext, ranOnInit, mapServiceName, started>>

\* service.Setup: the first object of a name is installed.
Install(o) ==
    mapServiceName' = IF NameOf[o] \in DOMAIN mapServiceName THEN mapServiceName
                      ELSE [s \in DOMAIN mapServiceName \cup {NameOf[o]} |->
                               IF s = NameOf[o] THEN o ELSE mapServiceName[s]]

\* ... and the objects in the order of Setup: Service.Init, which calls OnInit
\* and ignores its error, and then Setup if the node is configured for it.
InitService ==
    LET o == preSetupService[initNext]
    IN  /\ nodePhase = "services" /\ initNext <= atInit /\ initNext' = initNext + 1
        /\ ranOnInit' = Append(ranOnInit, o)
        /\ IF IsConfigService(NameOf[o]) THEN Install(o) ELSE UNCHANGED mapServiceName
        /\ UNCHANGED <<clusterVars, nodePhase, preSetupService, atInit, started>>

InitReturns ==
    /\ nodePhase = "services" /\ initNext > atInit /\ nodePhase' = "inited"
    /\ UNCHANGED <<clusterVars, preSetupService, atInit, initNext, ranOnInit, mapServiceName, started>>

\* node.Start: the rpc server listens and service.Start starts what is installed.
NodeStart ==
    /\ nodePhase = "inited" /\ nodePhase' = "started"
    /\ started' = {mapServiceName[s] : s \in DOMAIN mapServiceName}
    /\ UNCHANGED <<clusterVars, preSetupService, atInit, initNext, ranOnInit, mapServiceName>>

NodeNext ==
    \/ \E o \in Obj : NodeSetup(o)
    \/ InitCluster \/ InitServices \/ InitService \/ InitReturns \/ NodeStart

NodeSpec == NodeInit /\ [][NodeNext]_nodeVars

\* Cluster.FindRpcHandler: the object that serves requests for s, if any.
FindRpcHandler(s) == {o \in Obj : s \in DOMAIN mapServiceName /\ mapServiceName[s] = o}

-----------------------------------------------------------------------------
(* Properties.                                                             *)

\* The objects Init knew of.
InTime == {preSetupService[i] : i \in 1..atInit}

\* On a started node a route to this node is served by a started object, if
\* the program set one of that name up before Init: a service that another node
\* or a local caller is sent here for is found by FindRpcHandler.
LocalRouteServed ==
    nodePhase = "started" =>
        \A o \in InTime : OnlyClient(NameOf[o], CurrentNodeId) =>
            FindRpcHandler(NameOf[o]) # {} /\ FindRpcHandler(NameOf[o]) \subseteq started

\* Only objects that were set up before Init and that this node is configured
\* for are installed, the first one of each name, and each after its OnInit.
InstalledInOrder ==
    \A s \in DOMAIN mapServiceName :
        /\ IsConfigService(s)
        /\ \E i \in 1..Len(ranOnInit) :
               /\ ranOnInit[i] = mapServiceName[s]
               /\ \A j \in 1..i - 1 : NameOf[ranOnInit[j]] # s

\* OnInit runs for every object set up before Init, configured here or not, as
\* often as it was set up, and never for one set up later.
InitRunsForAll ==
    nodePhase \in {"inited", "started"} => ranOnInit = SubSeq(preSetupService, 1, atInit)

\* What the node runs, and what it routes to, is what the configuration and the
\* program agree on.
NodeInv == SetupTypeOK /\ RoutesInv /\ LocalRouteServed /\ InstalledInOrder /\ InitRunsForAll

=============================================================================
