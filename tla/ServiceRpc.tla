----------------------------- MODULE ServiceRpc -----------------------------
(***************************************************************************)
(* Calls between the services of one node: the event loop of service.Run   *)
(* (service/service.go), the request and response channels of RpcHandler   *)
(* (rpc/rpchandler.go) and the local branches of callRpc, asyncCallRpc and *)
(* goRpc with the Server functions behind them (rpc/server.go).            *)
(*                                                                         *)
(* A service has GoRouterNum goroutines in its loop.  Each takes one thing *)
(* at a time: a request, the response of an asynchronous call, a timer, or *)
(* the stop signal; code that runs in a handler, a callback or a timer may *)
(* call other services.  A request with mutiCoroutine set is handled by a  *)
(* goroutine of its own.                                                   *)
(*                                                                         *)
(* The fate of a call: ok; noService, the name is not set up here;         *)
(* noMethod, the service lacks the method; nilArg, the arguments are nil,  *)
(* so the handler tries to unmarshal an empty InParam.                     *)
(***************************************************************************)
EXTENDS Naturals, Sequences, FiniteSets

CONSTANTS Service,
          MayCall,       \* <<s, t, k>>: code of s makes calls of kind k to t
          Mix,           \* the calls in use: <<entry point, fate, mutiCoroutine>>
          GoRouterNum,   \* Service.gorouterNum of each service at Start
          QueueLen,      \* capacity of callRequest and callResponeCallBack
          CanStop,       \* closeSig may be closed
          MaxCalls,      \* bound on the calls made
          MaxAsync       \* bound when all of them are plain asynchronous ones

Kinds == {"call", "async", "go"}
Fates == {"ok", "noService", "noMethod", "nilArg"}

ASSUME ServiceAssumption ==
    /\ "muti" \notin Service /\ MayCall \subseteq Service \X Service \X Kinds
    /\ Mix \subseteq Kinds \X Fates \X BOOLEAN /\ CanStop \in BOOLEAN
    /\ GoRouterNum \in [Service -> Nat \ {0}] /\ QueueLen \in Nat \ {0}
    /\ MaxCalls \in Nat /\ MaxAsync \in Nat /\ MaxCalls <= MaxAsync

VARIABLES
    calls,         \* the calls made, in order
    w,             \* each goroutine: where it is, the request it handles, the call it makes
    callRequest,   \* RpcHandler.callRequest of each service
    callRespone,   \* RpcHandler.callResponeCallBack of each service
    nilReply,      \* asynchronous calls whose Call.Reply is the nil interface
    done,          \* items in Call.done of each call (capacity 1)
    ran,           \* how often the method of each call was invoked
    cbRan,         \* how often the callback of each call was invoked
    handled,       \* history: requests whose HandlerRpcRequest returned
    returned,      \* history: synchronous calls that returned
    closeSig,      \* the node closed closeSig
    gorouterNum,   \* Service.gorouterNum
    released,      \* services whose OnRelease was called
    crashed        \* the process died in a reflect call with a nil argument

chans == <<callRequest, callRespone, done, nilReply>>
counts == <<ran, cbRan, handled, returned>>
stopVars == <<closeSig, gorouterNum, released>>
vars == <<calls, w, chans, counts, stopVars, crashed>>

Seqs == 1..MaxAsync
None == 0
Loop == UNION {{s} \X (1..GoRouterNum[s]) : s \in Service}   \* of Service.Start
Muti == {"muti"} \X (1..MaxCalls)       \* the goroutines of mutiCoroutine requests
Worker == Loop \cup Muti

\* The service whose code goroutine g runs.
Home(g) == IF g \in Loop THEN g[1] ELSE calls[g[2]].to

TypeOK ==
    /\ calls \in Seq([by : Worker, from : Service, to : Service, kind : Kinds,
                      fate : Fates, muti : BOOLEAN])
    /\ Len(calls) <= MaxAsync
    /\ w \in [Worker -> [at : {"select", "handle", "run", "push", "wait", "stopped", "none"},
                         req : Seqs \cup {None}, call : Seqs \cup {None}]]
    /\ callRequest \in [Service -> Seq(Seqs)] /\ callRespone \in [Service -> Seq(Seqs)]
    /\ \A s \in Service : Len(callRequest[s]) <= QueueLen /\ Len(callRespone[s]) <= QueueLen
    /\ done \in [Seqs -> {0, 1}] /\ nilReply \subseteq Seqs
    /\ ran \in [Seqs -> 0..2] /\ cbRan \in [Seqs -> 0..2]
    /\ handled \subseteq Seqs /\ returned \subseteq Seqs
    /\ closeSig \in BOOLEAN
    /\ (\A s \in Service : gorouterNum[s] \in 0..GoRouterNum[s]) /\ released \subseteq Service
    /\ crashed \in BOOLEAN

At(l) == [at |-> l, req |-> None, call |-> None]

\* Start has run: every goroutine of every service is at its select.
Init ==
    /\ calls = <<>>
    /\ w = [g \in Worker |-> At(IF g \in Loop THEN "select" ELSE "none")]
    /\ callRequest = [s \in Service |-> <<>>] /\ callRespone = [s \in Service |-> <<>>]
    /\ done = [q \in Seqs |-> 0] /\ nilReply = {}
    /\ ran = [q \in Seqs |-> 0] /\ cbRan = [q \in Seqs |-> 0]
    /\ handled = {} /\ returned = {}
    /\ closeSig = FALSE /\ gorouterNum = GoRouterNum
    /\ released = {} /\ crashed = FALSE

\* The process lives and goroutine g is at l.
Is(g, l) == ~crashed /\ w[g].at = l

-----------------------------------------------------------------------------
(* The cases of the select in Service.Run.                                 *)

\* Mutant of TakeRequest: the newest request is taken first.
TakeRequestLast(g) ==
    LET s == g[1]
        n == Len(callRequest[s])
    IN  /\ Is(g, "select") /\ callRequest[s] # <<>>
        /\ w' = [w EXCEPT ![g].at = "handle", ![g].req = callRequest[s][n]]
        /\ callRequest' = [callRequest EXCEPT ![s] = SubSeq(@, 1, n - 1)]
        /\ UNCHANGED <<calls, callRespone, done, nilReply, counts, stopVars, crashed>>

TakeRequest(g) ==
    LET s == g[1]
    IN  /\ Is(g, "select") /\ callRequest[s] # <<>>
        /\ w' = [w EXCEPT ![g].at = "handle", ![g].req = Head(callRequest[s])]
        /\ callRequest' = [callRequest EXCEPT ![s] = Tail(@)]
        /\ UNCHANGED <<calls, callRespone, done, nilReply, counts, stopVars, crashed>>

\* HandlerRpcResponeCB: the callback runs on the calling service's goroutine;
\* calling it with the Value of a nil Reply panics.
TakeRespone(g) ==
    LET s == g[1]
        q == Head(callRespone[s])
    IN  /\ Is(g, "select") /\ callRespone[s] # <<>>
        /\ w' = [w EXCEPT ![g].at = "run"]
        /\ crashed' = (q \in nilReply)
        /\ cbRan' = IF q \in nilReply THEN cbRan ELSE [cbRan EXCEPT ![q] = @ + 1]
        /\ callRespone' = [callRespone EXCEPT ![s] = Tail(@)]
        /\ UNCHANGED <<calls, callRequest, done, nilReply, ran, handled, returned, stopVars>>

\* The callback or timer returns to the select.
EndCallback(g) ==
    /\ Is(g, "run") /\ w[g].req = None
    /\ w' = [w EXCEPT ![g].at = "select"]
    /\ UNCHANGED <<calls, chans, counts, stopVars, crashed>>

\* Mutant of TakeCloseSig: OnRelease one goroutine too early.
TakeCloseSigEarly(g) ==
    LET s == g[1]
    IN  /\ Is(g, "select") /\ closeSig
        /\ w' = [w EXCEPT ![g].at = "stopped"]
        /\ gorouterNum' = [gorouterNum EXCEPT ![s] = @ - 1]
        /\ released' = IF gorouterNum[s] - 1 <= 1 THEN released \cup {s} ELSE released
        /\ UNCHANGED <<calls, chans, counts, closeSig, crashed>>

\* Mutant of TakeCloseSig: the goroutine count is not decremented.
TakeCloseSigUncounted(g) ==
    LET s == g[1]
    IN  /\ Is(g, "select") /\ closeSig
        /\ w' = [w EXCEPT ![g].at = "stopped"]
        /\ released' = IF gorouterNum[s] <= 0 THEN released \cup {s} ELSE released
        /\ UNCHANGED <<calls, chans, counts, closeSig, gorouterNum, crashed>>

\* closeSig is closed: leave the loop; the last goroutine calls OnRelease.
TakeCloseSig(g) ==
    LET s == g[1]
    IN  /\ Is(g, "select") /\ closeSig
        /\ w' = [w EXCEPT ![g].at = "stopped"]
        /\ gorouterNum' = [gorouterNum EXCEPT ![s] = @ - 1]
        /\ released' = IF gorouterNum[s] - 1 <= 0 THEN released \cup {s} ELSE released
        /\ UNCHANGED <<calls, chans, counts, closeSig, crashed>>

-----------------------------------------------------------------------------
(* HandlerRpcRequest.                                                      *)

\* requestHandle(Returns, Err) of q: a synchronous call is strobed, an
\* asynchronous one goes back to the caller's service with Reply = Returns, a
\* Go has no requestHandle.  Both sends block while the channel is full.
RequestHandle(q, isNil) ==
    \/ /\ calls[q].kind = "call"
       /\ done[q] = 0 /\ done' = [done EXCEPT ![q] = 1]
       /\ UNCHANGED <<callRequest, callRespone, nilReply>>
    \/ /\ calls[q].kind = "async"
       /\ Len(callRespone[calls[q].from]) < QueueLen
       /\ callRespone' = [callRespone EXCEPT ![calls[q].from] = Append(@, q)]
       /\ nilReply' = IF isNil THEN nilReply \cup {q} ELSE nilReply \ {q}
       /\ UNCHANGED <<callRequest, done>>
    \/ calls[q].kind = "go" /\ UNCHANGED chans

\* The handler of g's request returns; a mutiCoroutine goroutine ends with it.
HandlerReturns(g) ==
    /\ w' = [w EXCEPT ![g] = At(IF g \in Loop THEN "select" ELSE "none")]
    /\ handled' = handled \cup {w[g].req}

\* Mutant of Handle: an unknown method is logged and not answered.
HandleUnanswered(g) ==
    LET q == w[g].req
    IN  /\ Is(g, "handle")
        /\ \/ /\ calls[q].fate = "noMethod"
              /\ HandlerReturns(g) /\ UNCHANGED <<chans, ran>>
           \/ /\ calls[q].fate # "noMethod"
              /\ w' = [w EXCEPT ![g].at = "run"]
              /\ ran' = [ran EXCEPT ![q] = @ + 1] /\ UNCHANGED <<chans, handled>>
        /\ UNCHANGED <<calls, cbRan, returned, stopVars, crashed>>

\* The lookup and the parameter.  An unknown method is answered and the
\* handler returns; a parameter error is answered and the handler goes on.
Handle(g) ==
    LET q == w[g].req
    IN  /\ Is(g, "handle")
        /\ \/ /\ calls[q].fate = "noMethod"
              /\ RequestHandle(q, TRUE) /\ HandlerReturns(g) /\ UNCHANGED ran
           \/ /\ calls[q].fate # "noMethod"
              /\ IF calls[q].fate = "nilArg" THEN RequestHandle(q, TRUE) ELSE UNCHANGED chans
              /\ w' = [w EXCEPT ![g].at = "run"]
              /\ ran' = [ran EXCEPT ![q] = @ + 1] /\ UNCHANGED handled
        /\ UNCHANGED <<calls, cbRan, returned, stopVars, crashed>>

\* The method returns and its result is handed to requestHandle.
EndMethod(g) ==
    /\ Is(g, "run") /\ w[g].req # None
    /\ RequestHandle(w[g].req, FALSE) /\ HandlerReturns(g)
    /\ UNCHANGED <<calls, ran, cbRan, returned, stopVars, crashed>>

-----------------------------------------------------------------------------
(* Call, AsyncCall and Go, from code that goroutine g runs.                *)

\* The call is made by a handler, by a callback, or by a timer's callback, whose
\* case of the select is merged with the call (a timer that makes no call
\* changes nothing here).
NewCall(g, t, k, f, m) ==
    /\ Is(g, "run") \/ (g \in Loop /\ Is(g, "select"))
    /\ <<Home(g), t, k>> \in MayCall
    /\ Len(calls) < IF \A c \in {calls[i] : i \in DOMAIN calls} \cup
                                {[kind |-> k, fate |-> f, muti |-> m, from |-> Home(g), to |-> t]} :
                          c.kind = "async" /\ c.fate = "ok" /\ ~c.muti /\ c.from # c.to
                    THEN MaxAsync ELSE MaxCalls
    /\ calls' = Append(calls, [by |-> g, from |-> Home(g), to |-> t, kind |-> k,
                               fate |-> f, muti |-> m])

\* rpcHandlerGo and rpcHandlerAsyncGo to another service.  The push is a step
\* of its own because it waits for room.
CallOther(g, t, k, f, m) ==
    LET q == Len(calls) + 1
    IN  /\ NewCall(g, t, k, f, m) /\ Home(g) # t
        /\ \/ /\ f = "noService"
              /\ returned' = IF k = "call" THEN returned \cup {q} ELSE returned
              /\ w' = [w EXCEPT ![g].at = "run"]
           \/ /\ f # "noService"
              /\ w' = [w EXCEPT ![g].at = "push", ![g].call = q]
              /\ UNCHANGED returned
        /\ UNCHANGED <<chans, ran, cbRan, handled, stopVars, crashed>>

\* CallMethod calls the method through reflect, which panics on the Value of a
\* nil argument; goRpc passes a nil reply.
CallMethodPanics(k, f) == f # "noMethod" /\ (k = "go" \/ f = "nilArg")

\* callRpc and goRpc to the service itself: CallMethod, on this goroutine.
CallSelf(g, k, f, m) ==
    LET q == Len(calls) + 1
    IN  /\ k # "async" /\ f # "noService" /\ NewCall(g, Home(g), k, f, m)
        /\ crashed' = CallMethodPanics(k, f)
        /\ ran' = IF f = "noMethod" \/ CallMethodPanics(k, f) THEN ran
                  ELSE [ran EXCEPT ![q] = @ + 1]
        /\ returned' = IF k = "call" THEN returned \cup {q} ELSE returned
        /\ w' = [w EXCEPT ![g].at = "run"]
        /\ UNCHANGED <<chans, cbRan, handled, stopVars>>

\* asyncCallRpc to the service itself: method and callback run here, and then
\* the request is pushed as if to another service.
AsyncCallSelf(g, f, m) ==
    LET q == Len(calls) + 1
        panics == CallMethodPanics("async", f)
    IN  /\ f # "noService" /\ NewCall(g, Home(g), "async", f, m)
        /\ crashed' = panics
        /\ ran' = IF f = "noMethod" \/ panics THEN ran ELSE [ran EXCEPT ![q] = @ + 1]
        /\ cbRan' = IF panics THEN cbRan ELSE [cbRan EXCEPT ![q] = @ + 1]
        /\ w' = [w EXCEPT ![g].at = "push", ![g].call = q]
        /\ UNCHANGED <<chans, handled, returned, stopVars>>

\* Where goroutine g goes once its request is handed over.
AfterPush(g) == IF calls[w[g].call].kind = "call" THEN "wait" ELSE "run"

\* PushRequest, or a goroutine of its own for a mutiCoroutine request.
Push(g) ==
    LET q == w[g].call
        t == calls[q].to
    IN  /\ Is(g, "push")
        /\ \/ /\ calls[q].muti
              /\ w' = [w EXCEPT ![g].at = AfterPush(g),
                                ![<<"muti", q>>] = [At("handle") EXCEPT !.req = q]]
              /\ UNCHANGED callRequest
           \/ /\ ~calls[q].muti /\ Len(callRequest[t]) < QueueLen
              /\ w' = [w EXCEPT ![g].at = AfterPush(g)]
              /\ callRequest' = [callRequest EXCEPT ![t] = Append(@, q)]
        /\ UNCHANGED <<calls, callRespone, done, nilReply, counts, stopVars, crashed>>

\* pCall.Done returns in callRpc.
Done(g) ==
    LET q == w[g].call
    IN  /\ Is(g, "wait") /\ done[q] = 1
        /\ done' = [done EXCEPT ![q] = 0]
        /\ w' = [w EXCEPT ![g].at = "run"]
        /\ returned' = returned \cup {q}
        /\ UNCHANGED <<calls, callRequest, callRespone, nilReply, ran, cbRan, handled, stopVars,
                       crashed>>

\* node.Start closes closeSig (the node's main goroutine).
CloseSig ==
    /\ ~crashed /\ CanStop /\ ~closeSig /\ closeSig' = TRUE
    /\ UNCHANGED <<calls, w, chans, counts, gorouterNum, released, crashed>>

-----------------------------------------------------------------------------
Select(g) == TakeRequest(g) \/ TakeRespone(g) \/ TakeCloseSig(g)

\* What goroutine g does inside a handler, except making calls.
Body(g) == Handle(g) \/ EndMethod(g) \/ EndCallback(g) \/ Push(g) \/ Done(g)

MakeCall(g) ==
    /\ w[g].at \in {"run", "select"}
    /\ \E x \in Mix :
           \/ \E t \in Service : CallOther(g, t, x[1], x[2], x[3])
           \/ CallSelf(g, x[1], x[2], x[3])
           \/ x[1] = "async" /\ AsyncCallSelf(g, x[2], x[3])

Next ==
    \/ \E g \in Loop : Select(g)
    \/ \E g \in Worker : Body(g) \/ MakeCall(g)
    \/ CloseSig

Spec == Init /\ [][Next]_vars

\* A goroutine of a loop takes a ready case or goes on; the others go on.
Runs == (\E g \in Loop : Select(g)) \/ (\E g \in Worker : Body(g))

\* Goroutines that can run do run; nobody has to make a call or stop the node.
\* The calls made give rise to finitely many steps, so fairness to all of them
\* together is fairness to each, and which ready case a select takes is open.
Fairness == WF_vars(Runs)

FairSpec == Spec /\ Fairness

-----------------------------------------------------------------------------
(* Properties.                                                             *)

\* Goroutine g waits for room in a channel of service s, or for the answer to a
\* request that lies in it.
BlockedOn(g, s) ==
    \/ /\ w[g].at = "push" /\ calls[w[g].call].to = s /\ ~calls[w[g].call].muti
       /\ Len(callRequest[s]) = QueueLen
    \/ /\ w[g].req # None /\ calls[w[g].req].kind = "async"
       /\ \/ w[g].at = "run"
          \/ w[g].at = "handle" /\ calls[w[g].req].fate \in {"noMethod", "nilArg"}
       /\ calls[w[g].req].from = s /\ Len(callRespone[s]) = QueueLen
    \/ w[g].at = "wait" /\ \E i \in DOMAIN callRequest[s] : callRequest[s][i] = w[g].call

\* The goroutines of the services in S have stopped or wait for one another.
Jammed(S) ==
    \A g \in Loop : g[1] \in S => w[g].at = "stopped" \/ \E s \in S : BlockedOn(g, s)

\* Nothing is promised once the process died, or once a goroutine waits for
\* services that have stopped or wait for one another.
Excused ==
    \/ crashed
    \/ \E S \in SUBSET Service : Jammed(S) /\ \E g \in Worker, s \in S : BlockedOn(g, s)

\* A synchronous call returns: when calls between services form no cycle, no
\* goroutine stays in Done for ever, through chains of calls, unknown methods,
\* nil arguments and full channels (unless the process is excused or stops).
SyncReturns ==
    \A g \in Worker : w[g].at = "wait" ~> w[g].at # "wait" \/ Excused \/ closeSig

\* A request to a service with one goroutine, through its request channel.
InTurn(q) ==
    /\ calls[q].from # calls[q].to /\ calls[q].fate # "noService" /\ ~calls[q].muti
    /\ GoRouterNum[calls[q].to] = 1

\* A synchronous call returns only after every earlier request of the same
\* goroutine to the same service was handled: a Go before a Call takes effect
\* before the Call's answer.
ProgramOrder ==
    \A q \in returned, p \in Seqs :
        /\ p < q /\ calls[p].by = calls[q].by /\ calls[p].to = calls[q].to
        /\ InTurn(p) /\ InTurn(q)
        => p \in handled

\* q is an asynchronous call to another service, of a method that exists.
AsyncMade(q) ==
    /\ q <= Len(calls) /\ calls[q].kind = "async" /\ calls[q].fate = "ok"
    /\ calls[q].from # calls[q].to

\* Such a call has its callback run, unless the process is excused or stops.
AsyncCompletes == \A q \in Seqs : AsyncMade(q) ~> cbRan[q] > 0 \/ Excused \/ closeSig

\* The method of a call to another service runs at most once, and so does its
\* callback, but for nil arguments: HandlerRpcRequest answers those twice.
OtherOnce ==
    \A q \in 1..Len(calls) :
        calls[q].from # calls[q].to =>
            ran[q] <= 1 /\ (calls[q].fate # "nilArg" => cbRan[q] <= 1)

\* OnRelease is called when no goroutine of the service is left in its loop.
ReleaseIsLast ==
    \A g \in Loop : g[1] \in released => w[g].at = "stopped"

\* After closeSig is closed every goroutine leaves its loop and every service
\* is released, so that WaitStop returns, unless the process is excused.
StopCompletes ==
    closeSig ~> \/ released = Service /\ \A g \in Loop : w[g].at = "stopped"
                \/ Excused

\* The callback of an asynchronous call runs at most once, also when a service
\* calls itself.
CallbackOnce == \A q \in Seqs : cbRan[q] <= 1

\* The queues and loops are in order in every state: types, calls to another
\* service carried out at most once, and OnRelease after the last goroutine.
LoopInv == TypeOK /\ OtherOnce /\ ReleaseIsLast

\* Calls between services complete, waiting for the answer or not.
CallsComplete == SyncReturns /\ AsyncCompletes

=============================================================================
