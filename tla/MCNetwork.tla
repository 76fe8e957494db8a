------------------------------ MODULE MCNetwork ------------------------------
(***************************************************************************)
(* Package network for TLC: the connection, and the server and the client, *)
(* each against any peer.  They share no state, so a behaviour takes steps *)
(* of one of them while the others are as they were created: the states    *)
(* add up and do not multiply.                                             *)
(***************************************************************************)
EXTENDS TCPConn, TCPServer, TCPClient

netVars == <<vars, serverVars, clientVars>>

NetInit == Init /\ ServerInit /\ ClientInit

NetNext ==
    \/ ServerInit /\ ClientInit /\ Next /\ UNCHANGED <<serverVars, clientVars>>
    \/ Init /\ ClientInit /\ ServerNext /\ UNCHANGED <<vars, clientVars>>
    \/ Init /\ ServerInit /\ ClientNext /\ UNCHANGED <<vars, serverVars>>

NetSpec ==
    NetInit /\ [][NetNext]_netVars /\ Fairness /\ ServerFairness /\ ClientFairness

\* Close returns at both ends, whatever accepts, dials, runs or cleans up.
CloseReturns == ServerCloseReturns /\ ClientCloseReturns

=============================================================================
