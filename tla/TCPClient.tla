------------------------------ MODULE TCPClient ------------------------------
(***************************************************************************)
(* network.TCPClient (network/tcp_client.go): Start, the goroutines running *)
(* connect, and Close, which the owner may follow by another Start.        *)
(* Agents are external: Run returns after the socket is closed and may     *)
(* return on its own; they do not call Start or Close themselves (what     *)
(* happens when rpc.Client does is in RpcRemote).                          *)
(***************************************************************************)
EXTENDS Naturals, FiniteSets

CONSTANTS Worker,          \* the goroutines of connect: ConnNum of them
          MaxStarts        \* bound on the calls of Start

ASSUME ClientAssumption ==
    IsFiniteSet(Worker) /\ MaxStarts \in Nat

VARIABLES
    connectPc,        \* connect of each goroutine: none, dial, lock, run, close, delete,
                      \* onclose, sleep
    clientSock,       \* the socket the goroutine holds: none, open, closed
    clientConns,      \* TCPClient.conns: the goroutines whose socket is in it
    clientConnsNil,   \* it is nil
    clientCloseFlag,  \* TCPClient.closeFlag
    AutoReconnect,    \* set by the owner before the first Start
    wg,               \* counter of TCPClient.wg
    user,             \* the owner: stopped, running, waiting (in wg.Wait)
    starts,           \* the calls of Start
    fatal             \* a write to the nil map, or init's "client is running"

userVars == <<user, starts, AutoReconnect>>
clientVars == <<connectPc, clientSock, clientConns, clientConnsNil, clientCloseFlag, wg,
                userVars, fatal>>

ClientTypeOK ==
    /\ connectPc \in [Worker ->
           {"none", "dial", "lock", "run", "close", "delete", "onclose", "sleep"}]
    /\ clientSock \in [Worker -> {"none", "open", "closed"}]
    /\ clientConns \subseteq Worker /\ clientConnsNil \in BOOLEAN /\ clientCloseFlag \in BOOLEAN
    /\ wg = Cardinality({g \in Worker : connectPc[g] # "none"})
    /\ user \in {"stopped", "running", "waiting"} /\ starts \in 0..MaxStarts
    /\ AutoReconnect \in BOOLEAN /\ fatal \in BOOLEAN

ClientInit ==
    /\ connectPc = [g \in Worker |-> "none"] /\ clientSock = [g \in Worker |-> "none"]
    /\ clientConns = {} /\ clientConnsNil = TRUE /\ clientCloseFlag = FALSE /\ wg = 0
    /\ user = "stopped" /\ starts = 0 /\ AutoReconnect = FALSE /\ fatal = FALSE

\* Start: init, which insists on a nil clientConns, and the goroutines.
ClientStart ==
    /\ ~fatal /\ user = "stopped" /\ starts < MaxStarts /\ starts' = starts + 1
    /\ AutoReconnect' \in IF starts = 0 THEN BOOLEAN ELSE {AutoReconnect}
    /\ user' = "running" /\ clientCloseFlag' = FALSE
    /\ clientConnsNil' = FALSE /\ clientConns' = {}
    /\ fatal' = ~clientConnsNil
    /\ connectPc' = [g \in Worker |-> "dial"] /\ clientSock' = [g \in Worker |-> "none"]
    /\ wg' = wg + Cardinality(Worker)

-----------------------------------------------------------------------------
(* connect.                                                                *)

Go(g, from, to) == ~fatal /\ connectPc[g] = from /\ connectPc' = [connectPc EXCEPT ![g] = to]

\* net.Dial succeeds.
DialOk(g) ==
    /\ Go(g, "dial", "lock") /\ clientSock' = [clientSock EXCEPT ![g] = "open"]
    /\ UNCHANGED <<clientConns, clientConnsNil, clientCloseFlag, wg, userVars, fatal>>

\* It fails after Close: dial returns nil and connect ends.  A failure before
\* Close is tried again after a sleep and changes nothing.
DialErr(g) ==
    /\ clientCloseFlag /\ Go(g, "dial", "none") /\ wg' = wg - 1
    /\ UNCHANGED <<clientSock, clientConns, clientConnsNil, clientCloseFlag, userVars, fatal>>

\* Mutant of Insert: the flag is not tested under the lock.
InsertUnchecked(g) ==
    /\ Go(g, "lock", "run")
    /\ clientConns' = clientConns \cup {g} /\ fatal' = clientConnsNil
    /\ UNCHANGED <<clientSock, wg, clientConnsNil, clientCloseFlag, userVars>>

\* Under the lock: give up after Close, else enter the connection in clientConns.
Insert(g) ==
    /\ \/ /\ clientCloseFlag /\ Go(g, "lock", "none")
          /\ clientSock' = [clientSock EXCEPT ![g] = "closed"] /\ wg' = wg - 1
          /\ UNCHANGED <<clientConns, fatal>>
       \/ /\ ~clientCloseFlag /\ Go(g, "lock", "run")
          /\ clientConns' = clientConns \cup {g} /\ fatal' = clientConnsNil
          /\ UNCHANGED <<clientSock, wg>>
    /\ UNCHANGED <<clientConnsNil, clientCloseFlag, userVars>>

\* agent.Run returns.
ClientRunReturns(g) ==
    /\ Go(g, "run", "close")
    /\ UNCHANGED <<clientSock, clientConns, clientConnsNil, clientCloseFlag, wg, userVars, fatal>>

\* tcpConn.Close(): the socket is left to the writer goroutine of the TCPConn.
ClientConnClose(g) ==
    /\ Go(g, "close", "delete")
    /\ UNCHANGED <<clientSock, clientConns, clientConnsNil, clientCloseFlag, wg, userVars, fatal>>

\* delete(client.conns, conn) under the lock; a nil map is left alone.
ClientDelete(g) ==
    /\ Go(g, "delete", "onclose") /\ clientConns' = clientConns \ {g}
    /\ UNCHANGED <<clientSock, clientConnsNil, clientCloseFlag, wg, userVars, fatal>>

\* agent.OnClose(), then sleep and reconnect, or end.
ClientOnClose(g) ==
    /\ \/ AutoReconnect /\ Go(g, "onclose", "sleep") /\ UNCHANGED wg
       \/ ~AutoReconnect /\ Go(g, "onclose", "none") /\ wg' = wg - 1
    /\ UNCHANGED <<clientSock, clientConns, clientConnsNil, clientCloseFlag, userVars, fatal>>

Reconnect(g) ==
    /\ Go(g, "sleep", "dial") /\ clientSock' = [clientSock EXCEPT ![g] = "none"]
    /\ UNCHANGED <<clientConns, clientConnsNil, clientCloseFlag, wg, userVars, fatal>>

\* The other end closes the connection.
ServerHangup(g) ==
    /\ connectPc[g] = "run" /\ clientSock[g] = "open"
    /\ clientSock' = [clientSock EXCEPT ![g] = "closed"]
    /\ UNCHANGED <<connectPc, clientConns, clientConnsNil, clientCloseFlag, wg, userVars, fatal>>

-----------------------------------------------------------------------------
(* Close.                                                                  *)

\* Under the lock: set the flag, close the connections, drop the map.
ClientClose ==
    /\ ~fatal /\ user = "running" /\ user' = "waiting"
    /\ clientCloseFlag' = TRUE
    /\ clientSock' = [g \in Worker |-> IF g \in clientConns THEN "closed" ELSE clientSock[g]]
    /\ clientConns' = {} /\ clientConnsNil' = TRUE
    /\ UNCHANGED <<connectPc, wg, starts, AutoReconnect, fatal>>

\* wg.Wait(), and Close returns.
ClientWait ==
    /\ ~fatal /\ user = "waiting" /\ wg = 0 /\ user' = "stopped"
    /\ UNCHANGED <<connectPc, clientSock, clientConns, clientConnsNil, clientCloseFlag, wg, starts,
                   AutoReconnect, fatal>>

-----------------------------------------------------------------------------
Connect(g) ==
    \/ Insert(g) \/ ClientConnClose(g) \/ ClientDelete(g) \/ ClientOnClose(g) \/ Reconnect(g)

ClientNext ==
    \/ \E g \in Worker :
        Connect(g) \/ DialOk(g) \/ DialErr(g) \/ ClientRunReturns(g) \/ ServerHangup(g)
    \/ ClientStart \/ ClientClose \/ ClientWait

ClientSpec == ClientInit /\ [][ClientNext]_clientVars

\* Goroutines that can run do run, dial returns after Close (with or without a
\* connection), and an agent whose socket is closed gets a read error.
ClientFairness ==
    /\ WF_clientVars(ClientWait)
    /\ \A g \in Worker :
        /\ WF_clientVars(Connect(g))
        /\ WF_clientVars(clientCloseFlag /\ (DialOk(g) \/ DialErr(g)))
        /\ WF_clientVars(clientSock[g] = "closed" /\ ClientRunReturns(g))

ClientFairSpec == ClientSpec /\ ClientFairness

-----------------------------------------------------------------------------
(* Properties.                                                             *)

\* No connect goroutine writes to the map that Close dropped, and a Start after
\* Close finds it dropped: a dial that succeeds while Close runs sees
\* closeFlag.
NeverFatal == ~fatal

\* When the owner's Close has returned, no goroutine of connect is left,
\* whatever was dialling, running or cleaning up, and so no agent either.
StoppedIsQuiet == user = "stopped" => \A g \in Worker : connectPc[g] = "none"

\* A connection in Run can be closed by Close: it is in clientConns.
RunningIsTracked ==
    \A g \in Worker : connectPc[g] = "run" /\ clientSock[g] = "open" => g \in clientConns

\* Close returns, with AutoReconnect too.
ClientCloseReturns == user = "waiting" ~> user = "stopped"

\* The set of connections is sound while connect and Close share it, and Close
\* leaves nothing running.
ClientInv == ClientTypeOK /\ NeverFatal /\ RunningIsTracked /\ StoppedIsQuiet

=============================================================================
