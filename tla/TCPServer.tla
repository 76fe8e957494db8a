------------------------------ MODULE TCPServer ------------------------------
(***************************************************************************)
(* network.TCPServer (network/tcp_server.go): Start, the accept loop of    *)
(* run, the goroutine of each connection, and Close.                       *)
(*                                                                         *)
(* A connection is a client's attempt, named by Conn.  Agents are external *)
(* (rpc.RpcAgent, the agents of TcpService): Run returns after the socket  *)
(* is closed, by either side, and may return on its own.  TCPConn.Close is *)
(* module TCPConn; here it leaves the socket to its writer goroutine.      *)
(***************************************************************************)
EXTENDS Naturals, FiniteSets

CONSTANTS Conn, MaxConnNum

ASSUME ServerAssumption == IsFiniteSet(Conn) /\ MaxConnNum \in Nat \ {0}

VARIABLES
    lnOpen,    \* the listener is open
    runPc,     \* run: new (before Start), add (before wgLn.Add), accept, lock, serve, exited
    held,      \* the connection run has accepted and not handed over: a set of one
    wgLn,      \* counters of the two WaitGroups
    wgConns,
    conns,     \* TCPServer.conns
    connsNil,  \* conns is nil
    sock,      \* each socket: none, backlog, open, closed
    agent,     \* each agent goroutine: none, run, close, delete, onclose, done
    closePc,   \* Close: idle, waitLn, lock, waitConns, returned
    nilWrite   \* a write to the nil map

serverVars == <<lnOpen, runPc, held, wgLn, wgConns, conns, connsNil, sock, agent, closePc, nilWrite>>

AgentPc == {"none", "run", "close", "delete", "onclose", "done"}

ServerTypeOK ==
    /\ lnOpen \in BOOLEAN /\ runPc \in {"new", "add", "accept", "lock", "serve", "exited"}
    /\ held \subseteq Conn /\ Cardinality(held) <= 1
    /\ wgLn \in {0, 1} /\ wgConns \in 0..Cardinality(Conn)
    /\ conns \subseteq Conn /\ connsNil \in BOOLEAN
    /\ sock \in [Conn -> {"none", "backlog", "open", "closed"}]
    /\ agent \in [Conn -> AgentPc]
    /\ closePc \in {"idle", "waitLn", "lock", "waitConns", "returned"}
    /\ nilWrite \in BOOLEAN

ServerInit ==
    /\ lnOpen = FALSE /\ runPc = "new" /\ held = {} /\ wgLn = 0 /\ wgConns = 0
    /\ conns = {} /\ connsNil = TRUE
    /\ sock = [c \in Conn |-> "none"] /\ agent = [c \in Conn |-> "none"]
    /\ closePc = "idle" /\ nilWrite = FALSE

-----------------------------------------------------------------------------
(* The clients.                                                            *)

Dial(c) ==
    /\ lnOpen /\ sock[c] = "none" /\ sock' = [sock EXCEPT ![c] = "backlog"]
    /\ UNCHANGED <<lnOpen, runPc, held, wgLn, wgConns, conns, connsNil, agent, closePc, nilWrite>>

Hangup(c) ==
    /\ sock[c] = "open" /\ sock' = [sock EXCEPT ![c] = "closed"]
    /\ UNCHANGED <<lnOpen, runPc, held, wgLn, wgConns, conns, connsNil, agent, closePc, nilWrite>>

-----------------------------------------------------------------------------
(* Start and run.                                                          *)

\* Start: init opens the listener and makes conns; the goroutine of run.
Start ==
    /\ runPc = "new" /\ runPc' = "add" /\ lnOpen' = TRUE /\ connsNil' = FALSE
    /\ UNCHANGED <<held, wgLn, wgConns, conns, sock, agent, closePc, nilWrite>>

\* wgLn.Add(1): in run, not in Start.
RunBegin ==
    /\ ~nilWrite /\ runPc = "add" /\ runPc' = "accept" /\ wgLn' = wgLn + 1
    /\ UNCHANGED <<lnOpen, held, wgConns, conns, connsNil, sock, agent, closePc, nilWrite>>

\* Accept returns a connection.  Its temporary errors, after which run sleeps
\* and tries again, change nothing.
Accept(c) ==
    /\ ~nilWrite /\ runPc = "accept" /\ lnOpen /\ sock[c] = "backlog"
    /\ sock' = [sock EXCEPT ![c] = "open"] /\ held' = {c} /\ runPc' = "lock"
    /\ UNCHANGED <<lnOpen, wgLn, wgConns, conns, connsNil, agent, closePc, nilWrite>>

\* Accept fails for good: the listener is closed.  run returns.
AcceptErr ==
    /\ ~nilWrite /\ runPc = "accept" /\ ~lnOpen /\ runPc' = "exited" /\ wgLn' = wgLn - 1
    /\ UNCHANGED <<lnOpen, held, wgConns, conns, connsNil, sock, agent, closePc, nilWrite>>

\* Mutant of Register: run returns, where it should go on, at the limit.
RegisterReturns(c) ==
    /\ ~nilWrite /\ runPc = "lock" /\ c \in held
    /\ \/ /\ Cardinality(conns) >= MaxConnNum
          /\ sock' = [sock EXCEPT ![c] = "closed"] /\ held' = {} /\ runPc' = "exited"
          /\ wgLn' = wgLn - 1 /\ UNCHANGED <<conns, nilWrite>>
       \/ /\ Cardinality(conns) < MaxConnNum
          /\ conns' = conns \cup {c} /\ nilWrite' = connsNil /\ runPc' = "serve"
          /\ UNCHANGED <<sock, held, wgLn>>
    /\ UNCHANGED <<lnOpen, wgConns, connsNil, agent, closePc>>

\* Under mutexConns: refuse the connection, or enter it in conns.  len of the
\* nil map is 0 and a write to it panics.
Register(c) ==
    /\ ~nilWrite /\ runPc = "lock" /\ c \in held
    /\ \/ /\ Cardinality(conns) >= MaxConnNum
          /\ sock' = [sock EXCEPT ![c] = "closed"] /\ held' = {} /\ runPc' = "accept"
          /\ UNCHANGED <<conns, nilWrite>>
       \/ /\ Cardinality(conns) < MaxConnNum
          /\ conns' = conns \cup {c} /\ nilWrite' = connsNil /\ runPc' = "serve"
          /\ UNCHANGED <<sock, held>>
    /\ UNCHANGED <<lnOpen, wgLn, wgConns, connsNil, agent, closePc>>

\* wgConns.Add(1), newTCPConn, NewAgent and the goroutine of the connection.
Serve(c) ==
    /\ ~nilWrite /\ runPc = "serve" /\ c \in held
    /\ wgConns' = wgConns + 1 /\ agent' = [agent EXCEPT ![c] = "run"]
    /\ held' = {} /\ runPc' = "accept"
    /\ UNCHANGED <<lnOpen, wgLn, conns, connsNil, sock, closePc, nilWrite>>

-----------------------------------------------------------------------------
(* The goroutine of a connection.                                          *)

AgentGo(c, from, to) == ~nilWrite /\ agent[c] = from /\ agent' = [agent EXCEPT ![c] = to]

\* agent.Run returns.
RunReturns(c) ==
    /\ AgentGo(c, "run", "close")
    /\ UNCHANGED <<lnOpen, runPc, held, wgLn, wgConns, conns, connsNil, sock, closePc, nilWrite>>

\* tcpConn.Close(): the writer goroutine will close the socket.
AgentConnClose(c) ==
    /\ AgentGo(c, "close", "delete")
    /\ UNCHANGED <<lnOpen, runPc, held, wgLn, wgConns, conns, connsNil, sock, closePc, nilWrite>>

\* That goroutine closes it, once it has written what was queued.
WriterCloses(c) ==
    /\ ~nilWrite /\ agent[c] \in {"delete", "onclose", "done"} /\ sock[c] = "open"
    /\ sock' = [sock EXCEPT ![c] = "closed"]
    /\ UNCHANGED <<lnOpen, runPc, held, wgLn, wgConns, conns, connsNil, agent, closePc, nilWrite>>

\* delete(server.conns, conn) under mutexConns; a nil map is left alone.
Delete(c) ==
    /\ AgentGo(c, "delete", "onclose") /\ conns' = conns \ {c}
    /\ UNCHANGED <<lnOpen, runPc, held, wgLn, wgConns, connsNil, sock, closePc, nilWrite>>

\* agent.OnClose() and wgConns.Done().
OnClose(c) ==
    /\ AgentGo(c, "onclose", "done") /\ wgConns' = wgConns - 1
    /\ UNCHANGED <<lnOpen, runPc, held, wgLn, conns, connsNil, sock, closePc, nilWrite>>

-----------------------------------------------------------------------------
(* Close.                                                                  *)

\* ln.Close(): connections nobody accepted are reset.
CloseListener ==
    /\ ~nilWrite /\ runPc # "new" /\ closePc = "idle"
    /\ closePc' = "waitLn" /\ lnOpen' = FALSE
    /\ sock' = [c \in Conn |-> IF sock[c] = "backlog" THEN "closed" ELSE sock[c]]
    /\ UNCHANGED <<runPc, held, wgLn, wgConns, conns, connsNil, agent, nilWrite>>

\* Mutant of WaitLn: Close does not wait for the accept loop.
WaitLnSkipped ==
    /\ ~nilWrite /\ closePc = "waitLn" /\ closePc' = "lock"
    /\ UNCHANGED <<lnOpen, runPc, held, wgLn, wgConns, conns, connsNil, sock, agent, nilWrite>>

\* wgLn.Wait().
WaitLn ==
    /\ ~nilWrite /\ closePc = "waitLn" /\ wgLn = 0 /\ closePc' = "lock"
    /\ UNCHANGED <<lnOpen, runPc, held, wgLn, wgConns, conns, connsNil, sock, agent, nilWrite>>

\* Mutant of CloseConns: the sockets are left open.
CloseConnsLeft ==
    /\ ~nilWrite /\ closePc = "lock" /\ closePc' = "waitConns"
    /\ conns' = {} /\ connsNil' = TRUE
    /\ UNCHANGED <<lnOpen, runPc, held, wgLn, wgConns, sock, agent, nilWrite>>

\* Under mutexConns: close every connection in conns and drop the map.
CloseConns ==
    /\ ~nilWrite /\ closePc = "lock" /\ closePc' = "waitConns"
    /\ sock' = [c \in Conn |-> IF c \in conns THEN "closed" ELSE sock[c]]
    /\ conns' = {} /\ connsNil' = TRUE
    /\ UNCHANGED <<lnOpen, runPc, held, wgLn, wgConns, agent, nilWrite>>

\* wgConns.Wait(), and Close returns.
WaitConns ==
    /\ ~nilWrite /\ closePc = "waitConns" /\ wgConns = 0 /\ closePc' = "returned"
    /\ UNCHANGED <<lnOpen, runPc, held, wgLn, wgConns, conns, connsNil, sock, agent, nilWrite>>

-----------------------------------------------------------------------------
RunStep == RunBegin \/ AcceptErr \/ \E c \in Conn : Accept(c) \/ Register(c) \/ Serve(c)
Cleanup(c) == AgentConnClose(c) \/ Delete(c) \/ OnClose(c)
CloseStep == WaitLn \/ CloseConns \/ WaitConns

ServerNext ==
    \/ \E c \in Conn : Dial(c) \/ Hangup(c) \/ RunReturns(c) \/ WriterCloses(c) \/ Cleanup(c)
    \/ Start \/ RunStep \/ CloseListener \/ CloseStep

ServerSpec == ServerInit /\ [][ServerNext]_serverVars

\* Goroutines that can run do run; an agent whose socket is closed gets a read
\* error and returns.  Nobody has to dial, hang up or call Close.
ServerFairness ==
    /\ WF_serverVars(RunStep) /\ WF_serverVars(CloseStep)
    /\ \A c \in Conn :
           WF_serverVars(Cleanup(c)) /\ WF_serverVars(sock[c] = "closed" /\ RunReturns(c))

ServerFairSpec == ServerSpec /\ ServerFairness

-----------------------------------------------------------------------------
(* Properties.                                                             *)

\* Close drops the conns map only when run can no longer write to it, although
\* run counts itself in wgLn after Start has returned.
NoNilMapWrite == ~nilWrite

\* No more than MaxConnNum agents are in Run: an agent is counted in conns for
\* as long as it runs, or Close has closed its socket.
AgentsBounded ==
    /\ Cardinality({c \in Conn : agent[c] = "run"}) <= MaxConnNum
    /\ \A c \in Conn : agent[c] = "run" => c \in conns \/ sock[c] = "closed"

\* When Close returns, run has ended or will accept nothing, and every agent
\* has had its OnClose.
CloseIsComplete ==
    closePc = "returned" =>
        /\ runPc \in {"add", "accept", "exited"} /\ held = {}
        /\ \A c \in Conn : agent[c] \in {"none", "done"}

\* Close returns: no accept loop, agent or clean-up keeps it waiting.
ServerCloseReturns == closePc = "waitLn" ~> closePc = "returned"

\* A connection in the backlog is accepted, and then served or closed.
BacklogServed ==
    \A c \in Conn : sock[c] = "backlog" ~> agent[c] # "none" \/ sock[c] = "closed"

\* The set of connections is sound while run, the agents and Close share it, and
\* Close leaves nothing running.
ServerInv == ServerTypeOK /\ NoNilMapWrite /\ AgentsBounded /\ CloseIsComplete

=============================================================================
