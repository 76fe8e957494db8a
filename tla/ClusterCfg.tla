----------------------------- MODULE ClusterCfg -----------------------------
(***************************************************************************)
(* How a node learns where services are: Cluster.InitCfg folds the         *)
(* cluster.json files into maps (cluster/parsecfg.go), Cluster.Init makes  *)
(* one rpc.Client per node of the local subnet, and GetRpcClient routes    *)
(* "Service.Method" through both (cluster/cluster.go).                     *)
(*                                                                         *)
(* A ServiceList entry is a name and whether it starts with "_".  The      *)
(* files are whatever they are found to be when they are read; the order   *)
(* in which Go walks the map of subnets is left open.                      *)
(***************************************************************************)
EXTENDS Naturals, Sequences, SequencesExt

CONSTANTS SubNet, NodeId, ServiceName,
          CurrentNodeId,   \* node.GetNodeId()
          NoSubNet,        \* the empty subnet name
          MaxNodes,        \* bound on the NodeList of each subnet
          MaxServices      \* bound on a ServiceList

ASSUME ClusterAssumption ==
    /\ NodeId \subseteq Nat \ {0} /\ CurrentNodeId \in Nat \ {0}
    /\ NoSubNet \notin SubNet
    /\ MaxNodes \in [SubNet -> Nat] /\ MaxServices \in Nat

ServiceEntry == [name : ServiceName, local : BOOLEAN]
NodeInfo == [NodeId : NodeId, ServiceList : BoundedSeq(ServiceEntry, MaxServices)]
Files == {f \in [SubNet -> UNION {BoundedSeq(NodeInfo, MaxNodes[sn]) : sn \in SubNet}] :
             \A sn \in SubNet : Len(f[sn]) <= MaxNodes[sn]}

VARIABLES
    file,                    \* the NodeList of each subnet's cluster.json
    phase,                   \* read, analyse, load, connect, ready, failed
    err,                     \* ReadAllSubNetConfig failed
    mapSubNetInfo,           \* the subnets that were read
    todo,                    \* subnets not yet walked
    localSubnetName,
    next,                    \* index of the next node of the local NodeList
    localSubNetMapNode,      \* node ids of the local subnet
    localSubNetMapService,   \* service name -> node ids, in append order
    localNodeMapService,     \* services configured on this node
    mapRpc                   \* node id -> kind of rpc.Client

clusterVars == <<file, phase, err, mapSubNetInfo, todo, localSubnetName, next,
                localSubNetMapNode, localSubNetMapService, localNodeMapService, mapRpc>>

ClusterTypeOK ==
    /\ file \in [SubNet -> Seq(NodeInfo)]
    /\ phase \in {"read", "analyse", "load", "connect", "ready", "failed"}
    /\ err \in BOOLEAN
    /\ mapSubNetInfo \subseteq SubNet /\ todo \subseteq mapSubNetInfo
    /\ localSubnetName \in SubNet \cup {NoSubNet}
    /\ next \in Nat
    /\ localSubNetMapNode \subseteq NodeId
    /\ localSubNetMapService \in [ServiceName -> Seq(NodeId)]
    /\ localNodeMapService \subseteq ServiceName
    /\ DOMAIN mapRpc \subseteq NodeId
    /\ \A n \in DOMAIN mapRpc : mapRpc[n] \in {"localhost", "remote"}

ClusterInit ==
    /\ file = [sn \in SubNet |-> <<>>]
    /\ phase = "read" /\ err = FALSE
    /\ mapSubNetInfo = {} /\ todo = {} /\ localSubnetName = NoSubNet /\ next = 1
    /\ localSubNetMapNode = {}
    /\ localSubNetMapService = [s \in ServiceName |-> <<>>]
    /\ localNodeMapService = {} /\ mapRpc = <<>>

-----------------------------------------------------------------------------
(* Cluster.InitCfg.                                                        *)

\* ReadAllSubNetConfig: all subnets, or those before a file that is missing or
\* malformed.  The files are among F.
ReadAllSubNetConfig(F) ==
    /\ phase = "read" /\ phase' = "analyse" /\ file' \in F
    /\ \/ mapSubNetInfo' = SubNet /\ err' = FALSE
       \/ \E sub \in SUBSET SubNet : sub # SubNet /\ mapSubNetInfo' = sub /\ err' = TRUE
    /\ todo' = mapSubNetInfo'
    /\ UNCHANGED <<localSubnetName, next, localSubNetMapNode, localSubNetMapService,
                   localNodeMapService, mapRpc>>

\* Some node of subnet sn has the id of this process.
Has(sn) == \E i \in DOMAIN file[sn] : file[sn][i].NodeId = CurrentNodeId

\* The walk that finds the subnet of this process; a later one overrides.
Analyse(sn) ==
    /\ phase = "analyse" /\ sn \in todo /\ todo' = todo \ {sn}
    /\ localSubnetName' = IF Has(sn) THEN sn ELSE localSubnetName
    /\ UNCHANGED <<file, phase, err, mapSubNetInfo, next, localSubNetMapNode,
                   localSubNetMapService, localNodeMapService, mapRpc>>

\* Without a subnet for this process InitCfg returns an error.
Analysed ==
    /\ phase = "analyse" /\ todo = {}
    /\ phase' = IF localSubnetName \in mapSubNetInfo THEN "load" ELSE "failed"
    /\ UNCHANGED <<file, err, mapSubNetInfo, todo, localSubnetName, next,
                   localSubNetMapNode, localSubNetMapService, localNodeMapService, mapRpc>>

NodeList == file[localSubnetName]

\* Mutant of Listed: the "_" is ignored.
ListedAnyPrefix(L, s) == \E e \in ToSet(L) : e.name = s

\* The entries that the loop over a ServiceList does not skip: "_" ones are.
Listed(L, s) == [name |-> s, local |-> FALSE] \in ToSet(L)

\* One such entry: a name that is already in the map gets a new, empty list, and
\* the node is appended.  A name that is listed twice ends with the same list.
AddService(l, n) == Append(IF l # <<>> THEN <<>> ELSE l, n)

\* The body of the loop over the local NodeList.
LoadNode ==
    /\ phase = "load" /\ next <= Len(NodeList) /\ next' = next + 1
    /\ LET node == NodeList[next]
       IN  /\ localSubNetMapNode' = localSubNetMapNode \cup {node.NodeId}
           /\ localNodeMapService' =
                  IF node.NodeId = CurrentNodeId
                  THEN localNodeMapService \cup {e.name : e \in ToSet(node.ServiceList)}
                  ELSE localNodeMapService
           /\ localSubNetMapService' =
                  [s \in ServiceName |->
                      IF Listed(node.ServiceList, s)
                      THEN AddService(localSubNetMapService[s], node.NodeId)
                      ELSE localSubNetMapService[s]]
    /\ UNCHANGED <<file, phase, err, mapSubNetInfo, todo, localSubnetName, mapRpc>>

\* InitCfg returns the error of ReadAllSubNetConfig after all.
Loaded ==
    /\ phase = "load" /\ next > Len(NodeList)
    /\ phase' = IF err THEN "failed" ELSE "connect"
    /\ UNCHANGED <<file, err, mapSubNetInfo, todo, localSubnetName, next,
                   localSubNetMapNode, localSubNetMapService, localNodeMapService, mapRpc>>

-----------------------------------------------------------------------------
(* Cluster.Init, and the lookups.                                          *)

\* One client per node of the subnet; the one of this node is "localhost".
ConnectNode(n) ==
    /\ phase = "connect" /\ n \in localSubNetMapNode \ DOMAIN mapRpc
    /\ mapRpc' = [k \in DOMAIN mapRpc \cup {n} |->
                     IF k # n THEN mapRpc[k]
                     ELSE IF n = CurrentNodeId THEN "localhost" ELSE "remote"]
    /\ phase' = IF localSubNetMapNode \subseteq DOMAIN mapRpc' THEN "ready" ELSE phase
    /\ UNCHANGED <<file, err, mapSubNetInfo, todo, localSubnetName, next,
                   localSubNetMapNode, localSubNetMapService, localNodeMapService>>

GetNodeIdByService(s) == localSubNetMapService[s]

\* GetRpcClient: the places of the list whose node has a client; those without
\* are skipped.
GetRpcClient(s) ==
    {i \in DOMAIN GetNodeIdByService(s) : GetNodeIdByService(s)[i] \in DOMAIN mapRpc}

\* What the callers accept: a list of one client, the one of node n.
OnlyClient(s, n) ==
    \E i \in DOMAIN GetNodeIdByService(s) :
        GetRpcClient(s) = {i} /\ GetNodeIdByService(s)[i] = n

IsConfigService(s) == s \in localNodeMapService

-----------------------------------------------------------------------------
ClusterNext(F) ==
    \/ ReadAllSubNetConfig(F) \/ Analysed \/ LoadNode \/ Loaded
    \/ \E sn \in SubNet : Analyse(sn)
    \/ \E n \in NodeId : ConnectNode(n)

-----------------------------------------------------------------------------
(* Properties.                                                             *)

\* Node n of the local subnet offers s to the subnet.
Offers(n, s) ==
    \E i \in DOMAIN NodeList :
        /\ NodeList[i].NodeId = n
        /\ \E j \in DOMAIN NodeList[i].ServiceList :
               NodeList[i].ServiceList[j] = [name |-> s, local |-> FALSE]

\* Routing is sound and total on a started node: a service is routed exactly
\* when some node of the subnet offers it, only to nodes that offer it, and
\* never through "_" entries.
RoutesToOffers ==
    phase = "ready" =>
        \A s \in ServiceName :
            /\ \A i \in DOMAIN GetNodeIdByService(s) : Offers(GetNodeIdByService(s)[i], s)
            /\ (\E n \in NodeId : Offers(n, s)) => GetNodeIdByService(s) # <<>>

\* goRpc, callRpc and asyncCallRpc take pClientList[0] of a list that was not
\* an error: on a started node every routed node has a client, and the client
\* of this node, and no other, is the local one.
RouteHasClient ==
    phase = "ready" =>
        \A s \in ServiceName :
            /\ GetNodeIdByService(s) # <<>> => GetRpcClient(s) # {}
            /\ \A i \in GetRpcClient(s) :
                   mapRpc[GetNodeIdByService(s)[i]] = "localhost"
                       <=> GetNodeIdByService(s)[i] = CurrentNodeId

\* A call that the callers accept (one client) and that is local finds a
\* service this node is configured to set up.
LocalRouteIsInstalled ==
    phase = "ready" =>
        \A s \in ServiceName :
            OnlyClient(s, CurrentNodeId) => IsConfigService(s)

\* The tables of a started node agree on where a service is: types, routes to
\* offers only, with a client each, and a local route to what this node sets up.
RoutesInv == ClusterTypeOK /\ RoutesToOffers /\ RouteHasClient /\ LocalRouteIsInstalled

=============================================================================
