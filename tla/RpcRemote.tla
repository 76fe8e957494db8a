------------------------------ MODULE RpcRemote ------------------------------
(***************************************************************************)
(* A remote call of originnet's rpc package: rpc.Client over its one       *)
(* TCPClient connection (rpc/client.go, network/tcp_client.go), the        *)
(* RpcAgent that reads requests on the serving node (rpc/server.go) and    *)
(* the RpcHandler of the called service (rpc/rpchandler.go).               *)
(*                                                                         *)
(* A call is named by its sequence number.  Its fate is what the program   *)
(* will find out about it on the way:                                      *)
(*   ok         the method runs and returns nil                            *)
(*   retErr     the method returns an error                                *)
(*   badArg     the arguments cannot be marshalled or the frame is too big *)
(*   noService  the serving node has no such service                       *)
(*   noMethod   the service has no such method                             *)
(*   badParam   some of the parameter does not unmarshal                   *)
(*   badReply   the result does not unmarshal into the caller's type       *)
(* A value is named by the call whose parameter it was computed from.      *)
(*                                                                         *)
(* Nothing resets the two objects that all requests of a method share, and *)
(* what happens to a field (or map entry) of one does not depend on the    *)
(* other fields.  The model follows one field, any one: a call says        *)
(* whether the text of its parameter carries it (sent) and whether the     *)
(* method assigns it (assigned).                                           *)
(*                                                                         *)
(* The two 100000-slot channels of RpcHandler and the 10000-slot writeChan *)
(* are unbounded here: MaxCalls is far below their capacity.               *)
(***************************************************************************)
EXTENDS Naturals, Sequences, FiniteSets

CONSTANTS Caller,        \* service goroutines of the calling node
          Mix,           \* the calls: <<entry point, fate, mutiCoroutine, sent, assigned>>
          GoRouterNum,   \* goroutines of the called service
          CanBreak,      \* the connection may break
          MaxCalls       \* bound on startSeq

Kinds == {"call", "async", "go"}
Fates == {"ok", "retErr", "badArg", "noService", "noMethod", "badParam", "badReply"}

ASSUME RpcAssumption ==
    /\ Mix \subseteq Kinds \X Fates \X BOOLEAN \X BOOLEAN \X BOOLEAN
    /\ GoRouterNum \in Nat \ {0} /\ CanBreak \in BOOLEAN /\ MaxCalls \in Nat

VARIABLES
    calls,        \* the Call records, indexed by Seq; startSeq is the length
    pending,      \* Client.pending: registered sequence numbers
    pc,           \* each caller: idle, write (between Unlock and WriteMsg), done
    cpc,          \* connect goroutine: dial, read, wait (in wg.Wait)
    wg,           \* TCPClient.wg: connect goroutines not yet returned
    link,         \* the connection: none, up, broken
    c2s, s2c,     \* frames in flight, in order
    agentUp,      \* RpcAgent.Run is running
    callRequest,  \* RpcHandler.callRequest of the called service
    hpc,          \* HandlerRpcRequest of each request: none, decode, invoke, reply, end
    serving,      \* requests in the hands of the service's own goroutines
    iparam,       \* the field of RpcMethodInfo.iparam, the one input object
    oParam,       \* the field of RpcMethodInfo.oParam, the one output object
    executed,     \* history: requests in the order their method ran
    overlapped,   \* history: requests whose use of the two objects overlapped
    outcome,      \* what Client.Run did with the reply of each call
    result,       \* the value stored in the Reply of each call
    cbq,          \* callResponeCallBack of each caller's service
    returned,     \* history: calls whose callback ran or whose Done returned
    crashed       \* the calling process died of a nil dereference

callerVars == <<calls, pending, pc>>
clientVars == <<cpc, wg, outcome, result>>
netVars == <<link, c2s, s2c>>
objectVars == <<iparam, oParam, executed, overlapped>>
serverVars == <<agentUp, callRequest, hpc, serving, objectVars>>
vars == <<callerVars, clientVars, netVars, serverVars, cbq, returned, crashed>>

Seqs == 1..MaxCalls
Kind(q) == calls[q].kind
Fate(q) == calls[q].fate

\* 0 stands for the zero value that suitableMethods allocates.
NoSeq == 0

TypeOK ==
    /\ calls \in Seq([by : Caller, kind : Kinds, fate : Fates, muti : BOOLEAN,
                      sent : BOOLEAN, assigned : BOOLEAN])
    /\ Len(calls) <= MaxCalls
    /\ pending \subseteq 1..Len(calls)
    /\ pc \in [Caller -> [at : {"idle", "write", "done"}, seq : Seqs \cup {NoSeq}]]
    /\ cpc \in {"dial", "read", "wait"} /\ wg \in Nat
    /\ link \in {"none", "up", "broken"}
    /\ c2s \in Seq(Seqs)
    /\ s2c \in Seq([seq : Seqs, err : BOOLEAN, val : Seqs \cup {NoSeq}])
    /\ agentUp \in BOOLEAN
    /\ callRequest \in Seq(Seqs)
    /\ hpc \in [Seqs -> {"none", "decode", "invoke", "reply", "end"}]
    /\ serving \subseteq Seqs /\ Cardinality(serving) <= GoRouterNum
    /\ iparam \in Seqs \cup {NoSeq} /\ oParam \in Seqs \cup {NoSeq}
    /\ executed \in Seq(Seqs) /\ overlapped \subseteq Seqs
    /\ outcome \in [Seqs -> {"none", "lost", "callback", "strobe", "panic"}]
    /\ result \in [Seqs -> Seqs \cup {NoSeq}]
    /\ cbq \in [Caller -> Seq(Seqs)]
    /\ returned \subseteq Seqs /\ crashed \in BOOLEAN

\* Connect has run Start: one connect goroutine, which dials.
Init ==
    /\ calls = <<>> /\ pending = {}
    /\ pc = [c \in Caller |-> [at |-> "idle", seq |-> NoSeq]]
    /\ cpc = "dial" /\ wg = 1
    /\ link = "none" /\ c2s = <<>> /\ s2c = <<>>
    /\ agentUp = FALSE /\ callRequest = <<>>
    /\ hpc = [q \in Seqs |-> "none"] /\ serving = {}
    /\ iparam = NoSeq /\ oParam = NoSeq /\ executed = <<>> /\ overlapped = {}
    /\ outcome = [q \in Seqs |-> "none"] /\ result = [q \in Seqs |-> NoSeq]
    /\ cbq = [c \in Caller |-> <<>>] /\ returned = {} /\ crashed = FALSE

-----------------------------------------------------------------------------
(* The calling side: Client.Go and Client.AsycGo.                          *)

\* Mutant of Register: the pending entry is left to a later step.
RegisterLate(c, k, f, m, s, a) ==
    /\ ~crashed /\ pc[c].at = "idle" /\ Len(calls) < MaxCalls
    /\ calls' = Append(calls, [by |-> c, kind |-> k, fate |-> f, muti |-> m,
                                sent |-> s, assigned |-> a])
    /\ pc' = [pc EXCEPT ![c] = [at |-> "write", seq |-> Len(calls) + 1]]
    /\ UNCHANGED <<pending, clientVars, netVars, serverVars, cbq, returned, crashed>>

\* The first half, under pendingLock: a sequence number and the pending entry.
Register(c, k, f, m, s, a) ==
    /\ ~crashed /\ pc[c].at = "idle" /\ Len(calls) < MaxCalls
    /\ calls' = Append(calls, [by |-> c, kind |-> k, fate |-> f, muti |-> m,
                                sent |-> s, assigned |-> a])
    /\ pending' = pending \cup {Len(calls) + 1}
    /\ pc' = [pc EXCEPT ![c] = [at |-> "write", seq |-> Len(calls) + 1]]
    /\ UNCHANGED <<clientVars, netVars, serverVars, cbq, returned, crashed>>

\* WriteMsg on a connection that is down drops the frame and returns nil.
SendRequest(q) == c2s' = IF link = "up" THEN Append(c2s, q) ELSE c2s

\* The second half: marshal and write.  callRpc then waits in Done, whatever
\* call.Err says.  Before the first connection slf.conn is nil: AsycGo tests
\* it, Go dereferences it.
WriteRequest(c) ==
    LET q == pc[c].seq
        noConn == link = "none"
    IN  /\ ~crashed /\ pc[c].at = "write"
        /\ pc' = [pc EXCEPT ![c].at = IF Kind(q) = "call" THEN "done" ELSE "idle"]
        /\ \/ /\ Fate(q) = "badArg"
              /\ UNCHANGED <<c2s, crashed>>
           \/ /\ Fate(q) # "badArg" /\ ~noConn
              /\ SendRequest(q) /\ UNCHANGED crashed
           \/ /\ Fate(q) # "badArg" /\ noConn
              /\ crashed' = (Kind(q) # "async") /\ UNCHANGED c2s
        /\ UNCHANGED <<calls, pending, clientVars, link, s2c, serverVars, cbq, returned>>

\* Service.Run of an idle caller takes a finished call and runs its callback.
HandlerRpcResponeCB(c) ==
    /\ ~crashed /\ pc[c].at = "idle" /\ cbq[c] # <<>>
    /\ returned' = returned \cup {Head(cbq[c])}
    /\ cbq' = [cbq EXCEPT ![c] = Tail(@)]
    /\ UNCHANGED <<callerVars, clientVars, netVars, serverVars, crashed>>

-----------------------------------------------------------------------------
(* The connect goroutine: TCPClient.connect and Client.Run.                *)

\* dial succeeds, the serving node accepts, NewClientAgent stores the
\* connection and both Run loops start.
Connected ==
    /\ ~crashed /\ cpc = "dial"
    /\ cpc' = "read" /\ link' = "up" /\ agentUp' = TRUE
    /\ c2s' = <<>> /\ s2c' = <<>>
    /\ UNCHANGED <<callerVars, wg, outcome, result, callRequest, hpc, serving, objectVars,
                   cbq, returned, crashed>>

(***************************************************************************)
(* What the rest of Run does with a reply whose sequence number is         *)
(* pending.  Call.callback is nil for a synchronous call, and IsValid on   *)
(* that nil *reflect.Value panics; AsycGo always stores a function.        *)
(***************************************************************************)
Callback(q) == IF Kind(q) = "async" THEN "func" ELSE "nil"

Verdict(q) ==
    CASE Fate(q) = "badReply"   -> "lost"
      [] Callback(q) = "nil"    -> "panic"
      [] Callback(q) = "func"   -> "callback"
      [] OTHER                  -> "strobe"

\* Run reads a reply.  encoding/json writes a non-nil error as an object and
\* refuses to read one into an error field, so an error reply stops at the head.
RunReply ==
    LET r == Head(s2c)
        q == r.seq
        found == ~r.err /\ q \in pending
        v == Verdict(q)
    IN  /\ ~crashed /\ cpc = "read" /\ s2c # <<>>
        /\ s2c' = Tail(s2c)
        /\ \/ ~found /\ UNCHANGED <<callerVars, outcome, result, cbq, returned, crashed>>
           \/ /\ found
              /\ pending' = pending \ {q}
              /\ outcome' = [outcome EXCEPT ![q] = v]
              /\ result' = IF v = "lost" THEN result ELSE [result EXCEPT ![q] = r.val]
              /\ crashed' = (v = "panic")
              /\ cbq' = IF v = "callback" THEN [cbq EXCEPT ![calls[q].by] = Append(@, q)]
                                          ELSE cbq
              /\ pc' = IF v = "strobe" THEN [pc EXCEPT ![calls[q].by].at = "idle"] ELSE pc
              /\ returned' = IF v = "strobe" THEN returned \cup {q} ELSE returned
              /\ UNCHANGED calls
        /\ UNCHANGED <<cpc, wg, link, c2s, serverVars>>

\* ReadMsg fails: TCPClient.Close closes the connections and waits for the
\* connect goroutines to return, of which this one is one; Start would dial
\* again.  The wait ends only if no goroutine is counted.
RunReadErr ==
    /\ ~crashed /\ cpc = "read" /\ link = "broken"
    /\ cpc' = IF wg = 0 THEN "dial" ELSE "wait"
    /\ s2c' = <<>>
    /\ UNCHANGED <<callerVars, wg, outcome, result, link, c2s, serverVars, cbq, returned,
                   crashed>>

\* The network, or the other node, breaks the connection; what is in flight
\* may still be read up to any point.
Break ==
    /\ CanBreak /\ link = "up" /\ link' = "broken"
    /\ UNCHANGED <<callerVars, clientVars, c2s, s2c, serverVars, cbq, returned, crashed>>

-----------------------------------------------------------------------------
(* The serving side: RpcAgent.Run, Service.Run and HandlerRpcRequest.      *)

\* RpcAgent.Run reads a request.  An unknown service is logged and skipped.
AgentRequest ==
    LET q == Head(c2s)
    IN  /\ agentUp /\ c2s # <<>>
        /\ c2s' = Tail(c2s)
        /\ \/ Fate(q) = "noService" /\ UNCHANGED <<callRequest, hpc>>
           \/ /\ Fate(q) # "noService" /\ calls[q].muti
              /\ hpc' = [hpc EXCEPT ![q] = "decode"] /\ UNCHANGED callRequest
           \/ /\ Fate(q) # "noService" /\ ~calls[q].muti
              /\ callRequest' = Append(callRequest, q) /\ UNCHANGED hpc
        /\ UNCHANGED <<callerVars, clientVars, link, s2c, agentUp, serving, objectVars, cbq,
                       returned, crashed>>

AgentReadErr ==
    /\ agentUp /\ link = "broken"
    /\ agentUp' = FALSE /\ c2s' = <<>>
    /\ UNCHANGED <<callerVars, clientVars, link, s2c, callRequest, hpc, serving, objectVars,
                   cbq, returned, crashed>>

\* Mutant of TakeRequest: the goroutines of the service are not counted.
TakeRequestUncounted ==
    /\ callRequest # <<>>
    /\ serving' = serving \cup {Head(callRequest)}
    /\ hpc' = [hpc EXCEPT ![Head(callRequest)] = "decode"]
    /\ callRequest' = Tail(callRequest)
    /\ UNCHANGED <<callerVars, clientVars, netVars, agentUp, objectVars, cbq, returned,
                   crashed>>

\* A goroutine of the called service takes the next request from its channel.
TakeRequest ==
    /\ callRequest # <<>> /\ Cardinality(serving) < GoRouterNum
    /\ serving' = serving \cup {Head(callRequest)}
    /\ hpc' = [hpc EXCEPT ![Head(callRequest)] = "decode"]
    /\ callRequest' = Tail(callRequest)
    /\ UNCHANGED <<callerVars, clientVars, netVars, agentUp, objectVars, cbq, returned,
                   crashed>>

\* Mutant of RequestHandle: the reply of a call that wants none and vice versa.
RequestHandleInverted(q, err, val) ==
    s2c' = IF Kind(q) = "go" /\ link = "up"
           THEN Append(s2c, [seq |-> q, err |-> err, val |-> val]) ELSE s2c

\* requestHandle, the closure RpcAgent.Run gives a request that wants a reply.
RequestHandle(q, err, val) ==
    s2c' = IF Kind(q) # "go" /\ link = "up"
           THEN Append(s2c, [seq |-> q, err |-> err, val |-> val]) ELSE s2c

\* The goroutine that handled q is done with it.
HandlerEnds(q) == hpc' = [hpc EXCEPT ![q] = "end"] /\ serving' = serving \ {q}

\* The requests that are using the two shared objects.
Sharers == {q \in Seqs : hpc[q] \in {"invoke", "reply"}}

\* HandlerRpcRequest up to the call of the method: look the method up and
\* decode the parameter into the object all requests of the method share, over
\* what earlier requests left there.  A parameter error is answered, and the
\* method is called all the same.
Decode(q) ==
    /\ hpc[q] = "decode"
    /\ \/ /\ Fate(q) = "noMethod"
          /\ RequestHandle(q, TRUE, NoSeq) /\ HandlerEnds(q) /\ UNCHANGED <<iparam, overlapped>>
       \/ /\ Fate(q) # "noMethod"
          /\ IF Fate(q) = "badParam" THEN RequestHandle(q, TRUE, NoSeq) ELSE UNCHANGED s2c
          /\ iparam' = IF calls[q].sent THEN q ELSE iparam
          /\ overlapped' = IF Sharers = {} THEN overlapped
                                           ELSE overlapped \cup Sharers \cup {q}
          /\ hpc' = [hpc EXCEPT ![q] = "invoke"] /\ UNCHANGED serving
    /\ UNCHANGED <<callerVars, clientVars, link, c2s, agentUp, callRequest, oParam, executed,
                   cbq, returned, crashed>>

\* The method computes what it assigns of the shared output object from the
\* shared input object, and leaves the rest as the requests before it left it.
Invoke(q) ==
    /\ hpc[q] = "invoke"
    /\ executed' = Append(executed, q)
    /\ oParam' = IF calls[q].assigned THEN iparam ELSE oParam
    /\ hpc' = [hpc EXCEPT ![q] = "reply"]
    /\ UNCHANGED <<callerVars, clientVars, netVars, agentUp, callRequest, serving, iparam,
                   overlapped, cbq, returned, crashed>>

\* The method's error, or an earlier parameter error, goes with the reply.
Reply(q) ==
    /\ hpc[q] = "reply"
    /\ RequestHandle(q, Fate(q) \in {"retErr", "badParam"}, oParam)
    /\ HandlerEnds(q)
    /\ UNCHANGED <<callerVars, clientVars, link, c2s, agentUp, callRequest, objectVars, cbq,
                   returned, crashed>>

-----------------------------------------------------------------------------
CallerStep(c) == WriteRequest(c) \/ HandlerRpcResponeCB(c)
ClientStep == Connected \/ RunReply \/ RunReadErr
Handler(q) == Decode(q) \/ Invoke(q) \/ Reply(q)
ServerStep == AgentRequest \/ AgentReadErr \/ TakeRequest

Next ==
    \/ \E c \in Caller, x \in Mix : Register(c, x[1], x[2], x[3], x[4], x[5])
    \/ \E c \in Caller : CallerStep(c)
    \/ ClientStep \/ Break \/ ServerStep
    \/ \E q \in Seqs : Handler(q)

Spec == Init /\ [][Next]_vars

\* Goroutines that can run do run, and a listening node is reached by dial.
\* Nobody has to make a call and the connection need not break.
Fairness ==
    /\ \A c \in Caller : WF_vars(WriteRequest(c)) /\ WF_vars(HandlerRpcResponeCB(c))
    /\ WF_vars(Connected) /\ WF_vars(RunReply) /\ WF_vars(RunReadErr)
    /\ WF_vars(AgentRequest) /\ WF_vars(AgentReadErr) /\ WF_vars(TakeRequest)
    /\ \A q \in Seqs : WF_vars(Handler(q))

FairSpec == Spec /\ Fairness

-----------------------------------------------------------------------------
(* Properties.                                                             *)

\* The method ran for p before it ran for q.
RanBefore(p, q) == \E i, j \in DOMAIN executed : i < j /\ executed[i] = p /\ executed[j] = q

\* v is what the answer of q holds if no other request interferes: the value of
\* q's own parameter where q sent the field and the method assigned it, and
\* otherwise what the objects held before, from a request that ran earlier.
AnswerOf(q, v) ==
    IF calls[q].sent /\ calls[q].assigned THEN v = q ELSE v = NoSeq \/ RanBefore(v, q)

\* A call whose request had the shared objects (RpcMethodInfo.iparam and oParam)
\* to itself is completed with its own value in what it sent and the method
\* assigned, and with nothing from a request that had not run before it.  What
\* it did not send, or the method did not assign, may well be another call's.
ReplyIsOwn ==
    \A q \in Seqs :
        outcome[q] \in {"callback", "strobe"} /\ q \notin overlapped => AnswerOf(q, result[q])

\* With one goroutine in the called service, and while no call asks for
\* mutiCoroutine, every request has the shared objects to itself.
OneAtATime == (\A q \in 1..Len(calls) : ~calls[q].muti) => overlapped = {}

\* A reply that Client.Run can read finds its call: the entry is in pending
\* before the request can be answered, and stays there until it is.
ReplyFindsCall == \A i \in DOMAIN s2c : ~s2c[i].err => s2c[i].seq \in pending

\* The serving node runs the requests of one caller in the order the caller
\* made them, whatever other callers interleave between Unlock and WriteMsg.
CallerOrder ==
    \A i, j \in DOMAIN executed :
        /\ i < j
        /\ calls[executed[i]].by = calls[executed[j]].by
        /\ ~calls[executed[i]].muti /\ ~calls[executed[j]].muti
        => executed[i] < executed[j]

\* A caller gets its own results, unless it asked for requests to overlap, and
\* its requests are served in its order.
ServingInv == ReplyIsOwn /\ OneAtATime /\ CallerOrder

\* q is a request on its way to the serving node.
Travelling(q) == \E i \in DOMAIN c2s : c2s[i] = q

\* An asynchronous call that reaches the wire and whose method returns nil has
\* its callback run, unless the connection breaks, the calling process dies or
\* the calling service stays in the Done of a synchronous call.
CallbackRuns ==
    \A q \in Seqs :
        Travelling(q) /\ Kind(q) = "async" /\ Fate(q) = "ok"
            ~> \/ q \in returned \/ link = "broken" \/ crashed
               \/ q \in DOMAIN calls /\ pc[calls[q].by].at = "done"

\* What the done channel is for: a synchronous call whose request reaches the
\* serving node and whose method returns nil eventually returns from Done.
StrobesWhenComplete ==
    \A q \in Seqs :
        Travelling(q) /\ Kind(q) = "call" /\ Fate(q) = "ok" ~> q \in returned

\* A client whose connection was lost connects again.
Reconnects == link = "broken" ~> link = "up" \/ crashed

\* The bookkeeping of Client.pending: types, and a reply finds its call.
PendingInv == TypeOK /\ ReplyFindsCall

=============================================================================
