---------------------------- MODULE HttpClientPool ----------------------------
(***************************************************************************)
(* sysmodule.HttpClientPoolModule: SyncRequest runs Request in a goroutine *)
(* that sends the response to a channel of one slot, and Get waits for it  *)
(* with a timeout (sysmodule/HttpClientPoolModule.go).  A handle is a      *)
(* value and may be copied, so several callers may wait on one.  The HTTP  *)
(* client is external: it fails or answers, and the body may break off.    *)
(***************************************************************************)
EXTENDS Integers, Sequences, FiniteSets

CONSTANTS
    HttpCaller,  \* goroutines that call Get
    MaxRequests, \* bound: requests made
    MaxGets      \* bound: calls of Get

ASSUME HttpAssumption == MaxRequests \in Nat \ {0} /\ MaxGets \in Nat

ReqId == 1..MaxRequests

VARIABLES
    client,   \* whether Init has made the client
    reqAt,    \* reqAt[q]: where the goroutine of request q is
    rsp,      \* rsp[q]: the response Request builds: [err, body, status]
    resp,     \* resp[q]: the channel of the handle
    getting,  \* getting[c]: the request whose handle c waits on, 0 for none
    answers,  \* answers[q]: the responses that Get has returned for q
    gets,     \* calls of Get made
    noClient  \* a goroutine found no client and panicked

httpVars == <<client, reqAt, rsp, resp, getting, answers, gets, noClient>>

\* A response of the zero value, before Request fills it in.
Blank == [err |-> FALSE, body |-> "none", status |-> FALSE]

-----------------------------------------------------------------------------
HttpInit ==
    /\ client = FALSE /\ noClient = FALSE /\ gets = 0
    /\ reqAt = [q \in ReqId |-> "none"] /\ rsp = [q \in ReqId |-> Blank]
    /\ resp = [q \in ReqId |-> <<>>] /\ answers = [q \in ReqId |-> <<>>]
    /\ getting = [c \in HttpCaller |-> 0]

\* Init makes the client; a later call makes another one.
HttpClientInit ==
    /\ ~noClient /\ client' = TRUE
    /\ UNCHANGED <<reqAt, rsp, resp, getting, answers, gets, noClient>>

ReqStep(q, from, to) == ~noClient /\ reqAt[q] = from /\ reqAt' = [reqAt EXCEPT ![q] = to]

\* SyncRequest makes the channel and starts the goroutine.
SyncRequest(q) ==
    /\ ReqStep(q, "none", "request") /\ \A r \in 1..(q - 1) : reqAt[r] # "none"
    /\ UNCHANGED <<client, rsp, resp, getting, answers, gets, noClient>>

\* Request without a client panics, which ends the process.
RequestPanics(q) ==
    /\ ~noClient /\ reqAt[q] = "request" /\ ~client /\ noClient' = TRUE
    /\ UNCHANGED <<client, reqAt, rsp, resp, getting, answers, gets>>

\* NewRequest and Do: an error of either is the response.
RequestDo(q) ==
    /\ client
    /\ \/ ReqStep(q, "request", "send") /\ rsp' = [rsp EXCEPT ![q].err = TRUE]
       \/ ReqStep(q, "request", "body") /\ UNCHANGED rsp
    /\ UNCHANGED <<client, resp, getting, answers, gets, noClient>>

\* Mutant of ReadBody: the error of ReadAll is ignored.
ReadBodyUnchecked(q) ==
    /\ ReqStep(q, "body", "send")
    /\ \E b \in {"part", "whole"} : rsp' = [rsp EXCEPT ![q].body = b, ![q].status = TRUE]
    /\ UNCHANGED <<client, resp, getting, answers, gets, noClient>>

\* ReadAll: a body that breaks off leaves what was read, and the error; the
\* status and the header are taken over after a whole body only.
ReadBody(q) ==
    /\ ReqStep(q, "body", "send")
    /\ \/ rsp' = [rsp EXCEPT ![q].body = "part", ![q].err = TRUE]
       \/ rsp' = [rsp EXCEPT ![q].body = "whole", ![q].status = TRUE]
    /\ UNCHANGED <<client, resp, getting, answers, gets, noClient>>

\* The goroutine sends the response and ends; the slot takes it although no
\* Get, or none any more, waits for it.
SendResp(q) ==
    /\ Len(resp[q]) < 1 /\ ReqStep(q, "send", "ended")
    /\ resp' = [resp EXCEPT ![q] = Append(@, rsp[q])]
    /\ UNCHANGED <<client, rsp, getting, answers, gets, noClient>>

\* A caller waits on a handle.
CallGet(c, q) ==
    /\ ~noClient /\ getting[c] = 0 /\ reqAt[q] # "none" /\ gets < MaxGets
    /\ getting' = [getting EXCEPT ![c] = q] /\ gets' = gets + 1
    /\ UNCHANGED <<client, reqAt, rsp, resp, answers, noClient>>

\* Get returns the response.
GetResp(c) ==
    LET q == getting[c] IN
    /\ ~noClient /\ q # 0 /\ resp[q] # <<>>
    /\ answers' = [answers EXCEPT ![q] = Append(@, Head(resp[q]))]
    /\ resp' = [resp EXCEPT ![q] = Tail(@)] /\ getting' = [getting EXCEPT ![c] = 0]
    /\ UNCHANGED <<client, reqAt, rsp, gets, noClient>>

\* The ticker ticks first, or both are ready and the select takes its arm: Get
\* returns an error and leaves the response in the channel.
HttpTimeout(c) ==
    /\ ~noClient /\ getting[c] # 0 /\ getting' = [getting EXCEPT ![c] = 0]
    /\ UNCHANGED <<client, reqAt, rsp, resp, answers, gets, noClient>>

HttpNext ==
    \/ HttpClientInit
    \/ \E q \in ReqId :
        \/ SyncRequest(q) \/ RequestPanics(q) \/ RequestDo(q) \/ ReadBody(q) \/ SendResp(q)
        \/ \E c \in HttpCaller : CallGet(c, q)
    \/ \E c \in HttpCaller : GetResp(c) \/ HttpTimeout(c)

HttpSpec == HttpInit /\ [][HttpNext]_httpVars

-----------------------------------------------------------------------------
(* Properties.                                                             *)

HttpTypeOK ==
    /\ client \in BOOLEAN /\ noClient \in BOOLEAN /\ gets \in 0..MaxGets
    /\ reqAt \in [ReqId -> {"none", "request", "body", "send", "ended"}]
    /\ getting \in [HttpCaller -> ReqId \cup {0}]

\* However many callers wait on a handle and time out, the response of a request
\* is returned by one Get at most and is never lost: it is in the channel or it
\* was returned, also when it comes after every Get has timed out.
AnsweredOnce ==
    \A q \in ReqId :
        Len(answers[q]) + Len(resp[q]) = IF reqAt[q] = "ended" THEN 1 ELSE 0

\* A response without an error has its status and the whole body.
NoErrIsWhole ==
    \A q \in ReqId : \A j \in DOMAIN answers[q] :
        ~answers[q][j].err => answers[q][j].status /\ answers[q][j].body = "whole"

\* The goroutine of a request never waits for a Get.
SendFindsRoom == \A q \in ReqId : reqAt[q] = "send" => resp[q] = <<>>

\* What Get returns is the outcome of its request, once.
HttpInv == HttpTypeOK /\ AnsweredOnce /\ NoErrIsWhole /\ SendFindsRoom

=============================================================================
