--------------------------- MODULE SysmoduleProofs ---------------------------
(***************************************************************************)
(* Safety of sysmodule.HttpClientPoolModule, for any callers, requests and *)
(* timeouts; of the tasks of sysmodule.RedisModule, for any clients,       *)
(* routers, operations and capacities; and of its commands on strings,     *)
(* hash and list, for any connections, keys and operations, and on a       *)
(* sorted set, for any goroutines, members and scores.                     *)
(***************************************************************************)
EXTENDS HttpClientPool, RedisTask, RedisZSet, ProofLemmas

(***************************************************************************)
(* The HTTP requests.  A response is filled in before it is sent, so what  *)
(* Get returns was whole or had its error when it entered the channel.     *)
(***************************************************************************)
Response == [err : BOOLEAN, body : {"none", "part", "whole"}, status : BOOLEAN]

\* A response that says what it is.
Sound(r) == r.err \/ (r.status /\ r.body = "whole")

ResponsesInv ==
    /\ rsp \in [ReqId -> Response]
    /\ resp \in [ReqId -> Seq(Response)] /\ answers \in [ReqId -> Seq(Response)]
    /\ \A q \in ReqId : reqAt[q] \in {"send", "ended"} => Sound(rsp[q])
    /\ \A q \in ReqId : \A j \in 1..Len(resp[q]) : Sound(resp[q][j])
    /\ \A q \in ReqId : \A j \in 1..Len(answers[q]) : Sound(answers[q][j])

HttpIInv == HttpTypeOK /\ ResponsesInv /\ AnsweredOnce

\* The sums of AnsweredOnce.
LEMMA Sums ==
    ASSUME NEW a \in Nat, NEW b \in Nat
    PROVE  /\ a + b = 0 => a = 0 /\ b = 0 /\ a + (b + 1) = 1
           /\ (a + 1) + (b - 1) = a + b
OBVIOUS

\* Initially no request was made.
LEMMA HttpInitInv == HttpInit => HttpIInv
<1> SUFFICES ASSUME HttpInit PROVE HttpIInv
  OBVIOUS
<1>1. client \in BOOLEAN /\ noClient \in BOOLEAN
  BY DEF HttpInit
<1>2. HttpTypeOK
  BY <1>1, HttpAssumption DEF HttpInit, HttpTypeOK
<1>3. Blank \in Response
  BY DEF Blank, Response
<1>4. ResponsesInv
  BY <1>3 DEF HttpInit, ResponsesInv
<1>5. AnsweredOnce
  BY DEF HttpInit, AnsweredOnce
<1> QED BY <1>2, <1>4, <1>5 DEF HttpIInv

\* The types of the requests and of those who wait for them.
LEMMA HttpTypeStep == HttpTypeOK /\ [HttpNext]_httpVars => HttpTypeOK'
<1> SUFFICES ASSUME HttpTypeOK, [HttpNext]_httpVars PROVE HttpTypeOK'
  OBVIOUS
<1>1. client' \in BOOLEAN /\ noClient' \in BOOLEAN
  BY DEF HttpTypeOK, HttpNext, HttpClientInit, SyncRequest, RequestPanics, RequestDo, ReadBody,
         SendResp, CallGet, GetResp, HttpTimeout, httpVars
<1>2. gets' \in 0..MaxGets
  <2>1. gets' = gets \/ (gets < MaxGets /\ gets' = gets + 1)
    BY DEF HttpNext, HttpClientInit, SyncRequest, RequestPanics, RequestDo, ReadBody, SendResp,
           CallGet, GetResp, HttpTimeout, httpVars
  <2> QED BY <2>1, HttpAssumption DEF HttpTypeOK
<1>3. reqAt' \in [ReqId -> {"none", "request", "body", "send", "ended"}]
  BY DEF HttpTypeOK, HttpNext, HttpClientInit, SyncRequest, RequestPanics, RequestDo, ReadBody,
         SendResp, CallGet, GetResp, HttpTimeout, httpVars, ReqStep
<1>4. getting' \in [HttpCaller -> ReqId \cup {0}]
  BY DEF HttpTypeOK, HttpNext, HttpClientInit, SyncRequest, RequestPanics, RequestDo, ReadBody,
         SendResp, CallGet, GetResp, HttpTimeout, httpVars
<1> QED BY <1>1, <1>2, <1>3, <1>4 DEF HttpTypeOK

\* Every step keeps responses sound and a response in one place.
LEMMA HttpStep == HttpIInv /\ [HttpNext]_httpVars => HttpIInv'
<1> SUFFICES ASSUME HttpIInv, [HttpNext]_httpVars PROVE HttpIInv'
  OBVIOUS
<1>0. HttpTypeOK /\ HttpTypeOK' /\ ResponsesInv /\ AnsweredOnce
  BY HttpTypeStep DEF HttpIInv
<1>a. /\ reqAt \in [ReqId -> {"none", "request", "body", "send", "ended"}]
      /\ rsp \in [ReqId -> Response] /\ resp \in [ReqId -> Seq(Response)]
      /\ answers \in [ReqId -> Seq(Response)] /\ getting \in [HttpCaller -> ReqId \cup {0}]
  BY <1>0 DEF HttpTypeOK, ResponsesInv
<1>1. ASSUME UNCHANGED <<rsp, resp, answers>>,
             \A q \in ReqId : reqAt'[q] \in {"send", "ended"} <=> reqAt[q] \in {"send", "ended"},
             \A q \in ReqId : reqAt'[q] = "ended" <=> reqAt[q] = "ended"
      PROVE  HttpIInv'
  BY <1>0, <1>1 DEF HttpIInv, ResponsesInv, AnsweredOnce
<1>2. CASE UNCHANGED httpVars
  BY <1>1, <1>2 DEF httpVars
<1>3. CASE HttpClientInit
  BY <1>1, <1>3 DEF HttpClientInit
<1>4. ASSUME NEW q \in ReqId, SyncRequest(q) PROVE HttpIInv'
  BY <1>1, <1>4, <1>a DEF SyncRequest, ReqStep
<1>5. ASSUME NEW q \in ReqId, RequestPanics(q) PROVE HttpIInv'
  BY <1>1, <1>5 DEF RequestPanics
<1>6. ASSUME NEW q \in ReqId, NEW r \in Response, Sound(r), rsp' = [rsp EXCEPT ![q] = r],
             reqAt[q] \in {"request", "body"}, reqAt' = [reqAt EXCEPT ![q] = "send"],
             UNCHANGED <<resp, answers>>
      PROVE  HttpIInv'
  <2>1. reqAt'[q] = "send" /\ \A p \in ReqId : p # q => reqAt'[p] = reqAt[p]
    BY <1>6, <1>a
  <2>2. rsp' \in [ReqId -> Response] /\ rsp'[q] = r /\ \A p \in ReqId : p # q => rsp'[p] = rsp[p]
    BY <1>6, <1>a
  <2>3. \A p \in ReqId : reqAt'[p] \in {"send", "ended"} => Sound(rsp'[p])
    BY <1>0, <1>6, <2>1, <2>2 DEF ResponsesInv
  <2>4. ResponsesInv'
    BY <1>0, <1>6, <2>2, <2>3 DEF ResponsesInv
  <2>5. AnsweredOnce'
    BY <1>0, <1>6, <2>1 DEF AnsweredOnce
  <2> QED BY <1>0, <2>4, <2>5 DEF HttpIInv
<1>7. ASSUME NEW q \in ReqId, RequestDo(q) PROVE HttpIInv'
  <2>1. UNCHANGED <<resp, answers>> /\ reqAt[q] = "request"
    BY <1>7 DEF RequestDo, ReqStep
  <2>2. CASE reqAt' = [reqAt EXCEPT ![q] = "send"] /\ rsp' = [rsp EXCEPT ![q].err = TRUE]
    <3> DEFINE r == [rsp[q] EXCEPT !.err = TRUE]
    <3>1. r \in Response /\ r.err
      BY <1>a DEF Response
    <3>2. rsp' = [rsp EXCEPT ![q] = r] /\ Sound(r)
      BY <2>2, <3>1 DEF Sound
    <3> QED BY <1>6, <2>1, <2>2, <3>1, <3>2
  <2>3. CASE reqAt' = [reqAt EXCEPT ![q] = "body"] /\ UNCHANGED rsp
    <3>1. \A p \in ReqId : p # q => reqAt'[p] = reqAt[p]
      BY <1>a, <2>3
    <3>2. reqAt'[q] = "body"
      BY <1>a, <2>3
    <3> QED BY <1>1, <2>1, <2>3, <3>1, <3>2
  <2> QED BY <1>7, <2>2, <2>3 DEF RequestDo, ReqStep
<1>8. ASSUME NEW q \in ReqId, ReadBody(q) PROVE HttpIInv'
  <2>1. UNCHANGED <<resp, answers>> /\ reqAt[q] = "body" /\ reqAt' = [reqAt EXCEPT ![q] = "send"]
    BY <1>8 DEF ReadBody, ReqStep
  <2>2. CASE rsp' = [rsp EXCEPT ![q].body = "part", ![q].err = TRUE]
    <3> DEFINE r == [rsp[q] EXCEPT !.body = "part", !.err = TRUE]
    <3>1. r \in Response /\ r.err
      BY <1>a DEF Response
    <3>2. rsp' = [rsp EXCEPT ![q] = r] /\ Sound(r)
      BY <1>a, <2>2, <3>1 DEF Sound
    <3> QED BY <1>6, <2>1, <3>1, <3>2
  <2>3. CASE rsp' = [rsp EXCEPT ![q].body = "whole", ![q].status = TRUE]
    <3> DEFINE r == [rsp[q] EXCEPT !.body = "whole", !.status = TRUE]
    <3>1. r \in Response /\ r.body = "whole" /\ r.status
      BY <1>a DEF Response
    <3>2. rsp' = [rsp EXCEPT ![q] = r] /\ Sound(r)
      BY <1>a, <2>3, <3>1 DEF Sound
    <3> QED BY <1>6, <2>1, <3>1, <3>2
  <2> QED BY <1>8, <2>2, <2>3 DEF ReadBody
<1>9. ASSUME NEW q \in ReqId, SendResp(q) PROVE HttpIInv'
  <2>1. /\ reqAt[q] = "send" /\ reqAt' = [reqAt EXCEPT ![q] = "ended"] /\ UNCHANGED <<rsp, answers>>
        /\ resp' = [resp EXCEPT ![q] = Append(@, rsp[q])]
    BY <1>9 DEF SendResp, ReqStep
  <2>2. rsp[q] \in Response /\ Sound(rsp[q]) /\ resp[q] \in Seq(Response)
    BY <1>0, <1>a, <2>1 DEF ResponsesInv
  <2>3. Len(resp[q]) = 0 /\ Len(answers[q]) + (Len(resp[q]) + 1) = 1
    <3>1. Len(answers[q]) \in Nat /\ Len(resp[q]) \in Nat
      BY <1>a, LenProperties
    <3>2. Len(answers[q]) + Len(resp[q]) = 0
      BY <1>0, <2>1 DEF AnsweredOnce
    <3> QED BY <3>1, <3>2, Sums
  <2>4. /\ resp'[q] = Append(resp[q], rsp[q]) /\ resp'[q] \in Seq(Response)
        /\ Len(resp'[q]) = Len(resp[q]) + 1 /\ resp'[q][Len(resp[q]) + 1] = rsp[q]
    BY <1>a, <2>1, <2>2, SeqAppend
  <2>5. \A p \in ReqId : p # q => resp'[p] = resp[p] /\ reqAt'[p] = reqAt[p]
    BY <1>a, <2>1
  <2>6. reqAt'[q] = "ended"
    BY <1>a, <2>1
  <2>7. resp' \in [ReqId -> Seq(Response)]
    BY <1>a, <2>1, <2>4
  <2>8. \A j \in 1..Len(resp'[q]) : Sound(resp'[q][j])
    <3>1. Len(resp'[q]) = 1 /\ resp'[q][1] = rsp[q]
      BY <2>3, <2>4
    <3> QED BY <2>2, <3>1
  <2>9. ResponsesInv'
    BY <1>0, <2>1, <2>2, <2>5, <2>7, <2>8 DEF ResponsesInv
  <2>10. AnsweredOnce'
    <3>1. Len(answers'[q]) + Len(resp'[q]) = 1
      BY <2>1, <2>3, <2>4
    <3>2. \A p \in ReqId : p # q => answers'[p] = answers[p] /\ resp'[p] = resp[p]
                                     /\ reqAt'[p] = reqAt[p]
      BY <2>1, <2>5
    <3>3. reqAt'[q] = "ended"
      BY <2>6
    <3> QED BY <1>0, <3>1, <3>2, <3>3 DEF AnsweredOnce
  <2> QED BY <1>0, <2>9, <2>10 DEF HttpIInv
<1>10. ASSUME NEW q \in ReqId, NEW c \in HttpCaller, CallGet(c, q) PROVE HttpIInv'
  BY <1>1, <1>10 DEF CallGet
<1>11. ASSUME NEW c \in HttpCaller, GetResp(c) PROVE HttpIInv'
  <2> DEFINE q == getting[c]
  <2>1. /\ q \in ReqId /\ resp[q] # <<>> /\ UNCHANGED <<reqAt, rsp>>
        /\ answers' = [answers EXCEPT ![q] = Append(@, Head(resp[q]))]
        /\ resp' = [resp EXCEPT ![q] = Tail(@)]
    BY <1>11, <1>a DEF GetResp
  <2>2. resp[q] \in Seq(Response) /\ answers[q] \in Seq(Response)
    BY <1>a, <2>1
  <2>3. /\ Head(resp[q]) \in Response /\ Head(resp[q]) = resp[q][1] /\ Len(resp[q]) \in Nat \ {0}
        /\ Tail(resp[q]) \in Seq(Response) /\ Len(Tail(resp[q])) = Len(resp[q]) - 1
        /\ \A i \in 1..Len(resp[q]) - 1 : Tail(resp[q])[i] = resp[q][i + 1]
    BY <2>1, <2>2, SeqTail
  <2>4. Sound(Head(resp[q]))
    <3>1. 1 \in 1..Len(resp[q])
      BY <2>3
    <3>2. Sound(resp[q][1])
      BY <1>0, <2>1, <3>1 DEF ResponsesInv
    <3> QED BY <2>3, <3>2
  <2> DEFINE a == Append(answers[q], Head(resp[q]))
  <2>5. /\ a \in Seq(Response) /\ Len(answers[q]) \in Nat /\ Len(a) = Len(answers[q]) + 1
        /\ a[Len(answers[q]) + 1] = Head(resp[q])
        /\ \A i \in 1..Len(answers[q]) : a[i] = answers[q][i]
    BY <2>2, <2>3, SeqAppend
  <2>6. /\ answers'[q] = a /\ resp'[q] = Tail(resp[q])
        /\ \A p \in ReqId : p # q => resp'[p] = resp[p] /\ answers'[p] = answers[p]
    BY <1>a, <2>1
  <2>7. resp' \in [ReqId -> Seq(Response)] /\ answers' \in [ReqId -> Seq(Response)]
    BY <1>a, <2>1, <2>3, <2>5
  <2>8. \A j \in 1..Len(a) : Sound(a[j])
    <3>1. \A j \in 1..Len(a) : j = Len(answers[q]) + 1 \/ j \in 1..Len(answers[q])
      BY <2>5
    <3> QED BY <1>0, <2>1, <2>4, <2>5, <3>1 DEF ResponsesInv
  <2>9. \A j \in 1..Len(Tail(resp[q])) : Sound(Tail(resp[q])[j])
    <3>1. \A j \in 1..Len(resp[q]) - 1 : j + 1 \in 1..Len(resp[q])
      BY <2>3
    <3> QED BY <1>0, <2>1, <2>3, <3>1 DEF ResponsesInv
  <2>10. ResponsesInv'
    BY <1>0, <2>1, <2>6, <2>7, <2>8, <2>9 DEF ResponsesInv
  <2>11. AnsweredOnce'
    <3>1. Len(answers'[q]) + Len(resp'[q]) = Len(answers[q]) + Len(resp[q])
      <4>1. (Len(answers[q]) + 1) + (Len(resp[q]) - 1) = Len(answers[q]) + Len(resp[q])
        BY <2>3, <2>5, Sums
      <4>2. Len(answers'[q]) = Len(answers[q]) + 1 /\ Len(resp'[q]) = Len(resp[q]) - 1
        BY <2>3, <2>5, <2>6
      <4> QED BY <4>1, <4>2
    <3> QED BY <1>0, <2>1, <2>6, <3>1 DEF AnsweredOnce
  <2> QED BY <1>0, <2>10, <2>11 DEF HttpIInv
<1>12. ASSUME NEW c \in HttpCaller, HttpTimeout(c) PROVE HttpIInv'
  BY <1>1, <1>12 DEF HttpTimeout
<1> QED BY <1>2, <1>3, <1>4, <1>5, <1>7, <1>8, <1>9, <1>10, <1>11, <1>12 DEF HttpNext

\* However many callers wait on a handle and time out, a response is returned
\* once, sound, and the goroutine that sends it never waits.
THEOREM HttpSafe == HttpSpec => []HttpInv
<1>1. HttpIInv => HttpInv
  <2> SUFFICES ASSUME HttpIInv PROVE HttpInv
    OBVIOUS
  <2>1. NoErrIsWhole
    <3>1. \A q \in ReqId : DOMAIN answers[q] = 1..Len(answers[q])
      BY DEF HttpIInv, ResponsesInv
    <3> QED BY <3>1 DEF HttpIInv, ResponsesInv, Sound, NoErrIsWhole
  <2>2. SendFindsRoom
    <3> SUFFICES ASSUME NEW q \in ReqId, reqAt[q] = "send" PROVE resp[q] = <<>>
      BY DEF SendFindsRoom
    <3>1. resp[q] \in Seq(Response) /\ answers[q] \in Seq(Response)
      BY DEF HttpIInv, ResponsesInv
    <3>2. Len(answers[q]) \in Nat /\ Len(resp[q]) \in Nat /\ Len(answers[q]) + Len(resp[q]) = 0
      BY <3>1, LenProperties DEF HttpIInv, AnsweredOnce
    <3>3. Len(resp[q]) = 0
      BY <3>2, Sums
    <3> QED BY <3>1, <3>3, EmptySeq
  <2> QED BY <2>1, <2>2 DEF HttpIInv, HttpInv
<1> QED BY HttpInitInv, HttpStep, <1>1, PTL DEF HttpSpec

-----------------------------------------------------------------------------
(***************************************************************************)
(* The tasks of Redis.  A call that has a RetError keeps its client in Get *)
(* while its task waits in the channel or is with a router, so an answer   *)
(* finds the client that asked, on an empty channel; and a task is in one  *)
(* place, so it answers once.                                              *)
(***************************************************************************)
CallRec == [op : AllOps, fate : AllFates, by : Client, ret : BOOLEAN]

Places == {"idle", "send", "get", "nilChan", "take", "key", "conn", "do", "answer"}

\* A router has a task in its hands.
Busy(r) == r \in Router /\ pc[r] # "take"

\* Call q was queued and its task has not been answered.
Held(q) == On(redisTask, q) \/ \E r \in Router : Busy(r) /\ cur[r] = q

\* What v says of call q is true of it.
Outcome(q, v) == v = calls[q].fate /\ (v \in {"ok", "doErr"} => On(executed, q))

\* A client is about a call of its own, and what is in its channel is about it.
ClientsInv ==
    \A c \in Client :
        /\ pc[c] \notin {"take", "answer"}
        /\ pc[c] # "idle" => cur[c] \in 1..Len(calls) /\ calls[cur[c]].by = c
        /\ pc[c] \in {"key", "conn", "do"} => calls[cur[c]].op = "sync"
        /\ pc[c] = "send" => /\ calls[cur[c]].op # "sync"
                             /\ calls[cur[c]].ret => resultChan[c] = <<>>
        /\ resultChan[c] \notin {None, <<>>} =>
               /\ pc[c] = "get" /\ Tail(resultChan[c]) = <<>>
               /\ Outcome(cur[c], Head(resultChan[c]))

\* A router answers what happened, and has its task for itself.
RoutersInv ==
    /\ \A r \in Router : /\ pc[r] \in {"take", "key", "conn", "do", "answer"}
                         /\ pc[r] = "answer" => Outcome(cur[r], calls[cur[r]].fate)
                         /\ Busy(r) => ~On(redisTask, cur[r])
    /\ \A r, s \in Router : Busy(r) /\ Busy(s) /\ cur[r] = cur[s] => r = s

\* The client of a task that has a RetError waits for it.
WaitsInv ==
    /\ Once(redisTask)
    /\ \A q : Held(q) =>
           /\ q \in 1..Len(calls) /\ calls[q].op # "sync"
           /\ calls[q].ret => /\ cur[calls[q].by] = q /\ pc[calls[q].by] = "get"
                              /\ resultChan[calls[q].by] = <<>>
    /\ \A q : On(executed, q) => q \in 1..Len(calls)
    /\ \A c \in Client : pc[c] = "send" =>
           \A q : (Held(q) \/ On(executed, q)) /\ calls[q].by = c => q < cur[c]

GotInv == \A q \in CallId : got[q] # "none" => q \in 1..Len(calls) /\ Outcome(q, got[q])

\* Calls p and q are queued by one client.
SameQueue(f, p, q) == f[p].by = f[q].by /\ f[p].op # "sync" /\ f[q].op # "sync"

\* One router runs the tasks of one client in the order of the calls.
TasksInOrder ==
    (\A r, s \in Router : r = s) =>
        /\ \A r \in Router : pc[r] \in {"key", "conn", "do"} =>
               /\ \A q : On(redisTask, q) /\ SameQueue(calls, cur[r], q) => cur[r] < q
               /\ \A q : On(executed, q) /\ SameQueue(calls, q, cur[r]) => q < cur[r]
        /\ \A p, q : On(executed, p) /\ On(redisTask, q) /\ SameQueue(calls, p, q) => p < q
        /\ \A i, j \in 1..Len(executed) :
               i < j /\ SameQueue(calls, executed[i], executed[j]) => executed[i] < executed[j]

\* The connections that are out are those of the commands under way.
Doing == {p \in Proc : pc[p] = "do"}
PoolInv == IsFiniteSet(Doing) /\ active = Cardinality(Doing)

TaskTypes == TaskTypeOK /\ resultChan \in [Client -> {None} \cup Seq(AllFates)]

TaskIInv ==
    /\ TaskTypes /\ ClientsInv /\ RoutersInv /\ WaitsInv /\ GotInv
    /\ InOrder(calls, redisTask) /\ TasksInOrder /\ PoolInv
\* At the start the routers wait and nothing was called.
LEMMA TaskInitInv == TaskInit => TaskIInv
<1> SUFFICES ASSUME TaskInit PROVE TaskIInv
  OBVIOUS
<1>0. Client \cap Router = {} /\ MAX_TASK_CHANNEL \in Nat /\ MaxActive \in Nat /\ MaxCalls \in Nat
  BY TaskAssumption
<1>1. /\ calls = <<>> /\ redisTask = <<>> /\ executed = <<>> /\ active = 0
      /\ \A c \in Client : pc[c] = "idle" /\ resultChan[c] = None
      /\ \A r \in Router : pc[r] = "take"
      /\ \A q \in CallId : got[q] = "none"
  BY <1>0 DEF TaskInit, Proc
<1>2. Len(calls) = 0 /\ Len(redisTask) = 0 /\ Len(executed) = 0
  BY <1>1
<1>3. TaskTypes
  <2>1. panicked \in BOOLEAN
    BY DEF TaskInit
  <2>2. calls \in Seq(CallRec) /\ redisTask \in Seq(CallId) /\ executed \in Seq(CallId)
    BY <1>1
  <2> QED BY <1>0, <1>1, <1>2, <2>1, <2>2 DEF TaskInit, TaskTypes, TaskTypeOK, Places, CallRec
<1>4. \A q : ~Held(q) /\ ~On(redisTask, q) /\ ~On(executed, q)
  BY <1>1, <1>2 DEF Held, On, Busy
<1>5. ClientsInv /\ RoutersInv /\ GotInv
  BY <1>1, <1>4 DEF ClientsInv, RoutersInv, GotInv, Busy
<1>6. WaitsInv /\ InOrder(calls, redisTask) /\ TasksInOrder
  BY <1>1, <1>2, <1>4 DEF WaitsInv, Once, InOrder, TasksInOrder
<1>7. PoolInv
  <2>1. Doing = {}
    BY <1>0, <1>1 DEF Doing, Proc
  <2> QED BY <1>1, <2>1, FS_EmptySet DEF PoolInv
<1> QED BY <1>3, <1>5, <1>6, <1>7 DEF TaskIInv

\* A step that neither takes a connection nor gives one back.
LEMMA PoolKeeps ==
    ASSUME PoolInv, active' = active, NEW p \in Proc, NEW w,
           pc \in [Proc -> Places], pc' = [pc EXCEPT ![p] = w],
           pc[p] # "do", w # "do"
    PROVE  PoolInv'
<1>1. Doing' = Doing
  BY DEF Doing
<1> QED BY <1>1 DEF PoolInv

\* The parts of a call that Call sets, by operation, fate and RetError.
LEMMA CallParts ==
    ASSUME TaskTypes, ClientsInv, NEW c \in Client, NEW op \in AllOps, NEW f \in AllFates,
           NEW ret \in BOOLEAN, Call(c, op, f, ret)
    PROVE  /\ \E w \in {"key", "idle", "get", "nilChan", "send"} :
                /\ pc' = [pc EXCEPT ![c] = w]
                /\ w = "key" => op = "sync"
                /\ w = "send" => op # "sync"
                /\ \/ resultChan' = resultChan /\ (w = "send" => ~ret)
                   \/ resultChan' = [resultChan EXCEPT ![c] = <<>>]
                   \/ /\ resultChan' = [resultChan EXCEPT ![c] = <<"badJSON">>]
                      /\ w = "get" /\ f = "badJSON"
           /\ dropped' \subseteq CallId
           /\ panicked' \in BOOLEAN
<1> DEFINE n == Len(calls) + 1
<1>0. dropped \subseteq CallId /\ n \in CallId
  BY DEF TaskTypes, TaskTypeOK, Places, Call
<1>1. panicked \in BOOLEAN
  BY DEF TaskTypes, TaskTypeOK, Places
<1> HIDE DEF n
<1>2. CASE op = "sync" /\ To(c, "key") /\ UNCHANGED <<resultChan, dropped, panicked>>
  BY <1>0, <1>1, <1>2 DEF To
<1>3. CASE op # "sync" /\ f = "badJSON" /\ BadStringJSON(c, ret)
  <2>1. CASE Panic(c)
    BY <1>0, <1>1, <2>1 DEF Panic, To
  <2>2. CASE Report(c)
    BY <1>0, <1>1, <1>3, <2>2 DEF Report, To, Err
  <2>3. CASE To(c, "nilChan") /\ UNCHANGED <<resultChan, dropped, panicked>>
    BY <1>0, <1>1, <2>3 DEF To
  <2> QED BY <1>3, <2>1, <2>2, <2>3 DEF BadStringJSON
<1>4. CASE op # "sync" /\ f = "badJSON" /\ BadHashJSON(c, ret)
  <2>1. CASE To(c, "idle") /\ UNCHANGED <<resultChan, dropped, panicked>>
    BY <1>0, <1>1, <2>1 DEF To
  <2>2. CASE Report(c)
    BY <1>0, <1>1, <1>4, <2>2 DEF Report, To, Err
  <2> QED BY <1>4, <2>1, <2>2 DEF BadHashJSON
<1>5. CASE op # "sync" /\ f = "badJSON" /\ BadListJSON(c, ret)
  <2>1. CASE Panic(c)
    BY <1>0, <1>1, <2>1 DEF Panic, To
  <2>2. CASE Report(c)
    BY <1>0, <1>1, <1>5, <2>2 DEF Report, To, Err
  <2> QED BY <1>5, <2>1, <2>2 DEF BadListJSON
<1>6. CASE op # "sync" /\ GoTask(c, n, ret)
  <2>0. panicked' \in BOOLEAN
    BY <1>1, <1>6 DEF GoTask
  <2>1. CASE ret
    BY <1>0, <1>6, <2>0, <2>1 DEF GoTask, Make, To
  <2>2. CASE ~ret
    BY <1>0, <1>6, <2>0, <2>2 DEF GoTask, Make, To
  <2> QED BY <2>1, <2>2
<1> QED BY <1>2, <1>3, <1>4, <1>5, <1>6 DEF Call, n

\* A new call: nobody has it, and its client waits for nothing else.
LEMMA CallStep ==
    ASSUME TaskIInv, NEW c \in Client, NEW op \in AllOps, NEW f \in AllFates,
           NEW ret \in BOOLEAN, Call(c, op, f, ret)
    PROVE  TaskIInv'
<1>0. /\ TaskTypes /\ ClientsInv /\ RoutersInv /\ WaitsInv /\ GotInv
      /\ InOrder(calls, redisTask) /\ TasksInOrder /\ PoolInv
  BY DEF TaskIInv
<1> DEFINE n == Len(calls) + 1
           k == [op |-> op, fate |-> f, by |-> c, ret |-> ret]
<1>1. /\ UNCHANGED <<redisTask, active, got, executed>> /\ calls' = Append(calls, k)
      /\ cur' = [cur EXCEPT ![c] = n] /\ pc[c] = "idle" /\ n \in CallId
  BY DEF Call
<1>2. PICK w \in {"key", "idle", "get", "nilChan", "send"} :
        /\ pc' = [pc EXCEPT ![c] = w]
        /\ w = "key" => op = "sync"
        /\ w = "send" => op # "sync"
        /\ \/ resultChan' = resultChan /\ (w = "send" => ~ret)
           \/ resultChan' = [resultChan EXCEPT ![c] = <<>>]
           \/ /\ resultChan' = [resultChan EXCEPT ![c] = <<"badJSON">>]
              /\ w = "get" /\ f = "badJSON"
  BY <1>0, CallParts
<1>3. dropped' \subseteq CallId /\ panicked' \in BOOLEAN
  BY <1>0, CallParts
<1>4. /\ calls \in Seq(CallRec) /\ k \in CallRec /\ Len(calls) \in Nat /\ MaxCalls \in Nat
      /\ k.op = op /\ k.fate = f /\ k.by = c
  <2>1. calls \in Seq(CallRec)
    BY <1>0 DEF TaskTypes, TaskTypeOK, Places, CallRec
  <2> QED BY <2>1, LenProperties, TaskAssumption DEF CallRec
<1>k. k.ret <=> ret
  OBVIOUS
<1> HIDE DEF k
<1>5. /\ calls' \in Seq(CallRec) /\ Len(calls') = n /\ calls'[n] = k
      /\ \A q \in 1..Len(calls) : calls'[q] = calls[q]
  BY <1>1, <1>4, SeqAppend DEF n
<1>6. /\ n \notin 1..Len(calls) /\ n \in 1..n /\ n \in Nat /\ n <= MaxCalls
      /\ \A q \in 1..Len(calls) : q \in 1..n /\ q < n
  BY <1>1, <1>4 DEF CallId
<1> HIDE DEF n
<1>7. c \in Proc /\ c \notin Router /\ \A r \in Router : r # c /\ r \in Proc
  BY TaskAssumption DEF Proc
<1>8. /\ pc' \in [Proc -> Places]
      /\ cur' \in [Proc -> CallId \cup {None}] /\ pc'[c] = w /\ cur'[c] = n
      /\ \A p \in Proc : p # c => pc'[p] = pc[p] /\ cur'[p] = cur[p]
  BY <1>0, <1>1, <1>2, <1>7 DEF TaskTypes, TaskTypeOK, Places
<1>9. /\ resultChan' \in [Client -> {None} \cup Seq(AllFates)]
      /\ \A d \in Client : d # c => resultChan'[d] = resultChan[d]
      /\ resultChan'[c] \in {None, <<>>} \/ (resultChan'[c] = <<"badJSON">> /\ w = "get" /\ f = "badJSON")
      /\ w = "send" /\ ret => resultChan'[c] = <<>>
  <2>1. resultChan \in [Client -> {None} \cup Seq(AllFates)]
    BY <1>0 DEF TaskTypes
  <2>2. resultChan[c] \in {None, <<>>}
    BY <1>0, <1>1 DEF ClientsInv
  <2>3. <<"badJSON">> \in Seq(AllFates) /\ <<>> \in Seq(AllFates)
    BY DEF AllFates
  <2> QED BY <1>2, <2>1, <2>2, <2>3
<1>10. TaskTypes'
  <2>1. \A d \in Client : resultChan'[d] = None \/ resultChan'[d] \in Seq(AllFates)
    BY <1>9
  <2> QED BY <1>0, <1>1, <1>3, <1>5, <1>6, <1>8, <1>9, <2>1 DEF TaskTypes, TaskTypeOK, Places, CallRec
<1>11. \A q : On(executed, q) => q \in 1..Len(calls)
  BY <1>0 DEF WaitsInv
<1>12. \A q \in 1..Len(calls) : \A v : Outcome(q, v)' <=> Outcome(q, v)
  BY <1>1, <1>5 DEF Outcome
<1>13. ClientsInv'
  <2> SUFFICES ASSUME NEW d \in Client
               PROVE  /\ pc'[d] \notin {"take", "answer"}
                      /\ pc'[d] # "idle" => cur'[d] \in 1..Len(calls') /\ calls'[cur'[d]].by = d
                      /\ pc'[d] \in {"key", "conn", "do"} => calls'[cur'[d]].op = "sync"
                      /\ pc'[d] = "send" => /\ calls'[cur'[d]].op # "sync"
                                            /\ calls'[cur'[d]].ret => resultChan'[d] = <<>>
                      /\ resultChan'[d] \notin {None, <<>>} =>
                             /\ pc'[d] = "get" /\ Tail(resultChan'[d]) = <<>>
                             /\ Outcome(cur[d], Head(resultChan[d]))'
    BY DEF ClientsInv
  <2>1. CASE d = c
    <3>1. resultChan'[c] \notin {None, <<>>} =>
              /\ pc'[c] = "get" /\ Tail(resultChan'[c]) = <<>>
              /\ Outcome(cur[c], Head(resultChan[c]))'
      <4> SUFFICES ASSUME resultChan'[c] \notin {None, <<>>}
                   PROVE  /\ pc'[c] = "get" /\ Tail(resultChan'[c]) = <<>>
                          /\ Outcome(cur[c], Head(resultChan[c]))'
        OBVIOUS
      <4>1. resultChan'[c] = <<"badJSON">> /\ w = "get" /\ f = "badJSON"
        BY <1>9
      <4>2. Tail(<<"badJSON">>) = <<>> /\ Head(<<"badJSON">>) = "badJSON"
        OBVIOUS
      <4>3. calls'[cur'[c]].fate = "badJSON"
        BY <1>4, <1>5, <1>8, <4>1
      <4>4. Head(resultChan'[c]) = "badJSON"
        BY <4>1, <4>2
      <4>5. Outcome(cur[c], Head(resultChan[c]))'
        BY <4>3, <4>4 DEF Outcome
      <4> QED BY <1>8, <4>1, <4>2, <4>5
    <3> QED BY <1>2, <1>4, <1>k, <1>5, <1>6, <1>8, <1>9, <2>1, <3>1
  <2>2. CASE d # c
    <3>1. pc'[d] = pc[d] /\ cur'[d] = cur[d] /\ resultChan'[d] = resultChan[d]
      BY <1>8, <1>9, <2>2 DEF Proc
    <3>2. pc[d] # "idle" => cur[d] \in 1..Len(calls) /\ calls[cur[d]].by = d
      BY <1>0 DEF ClientsInv
    <3>3. resultChan[d] \notin {None, <<>>} => Outcome(cur[d], Head(resultChan[d]))'
      <4>1. SUFFICES ASSUME resultChan[d] \notin {None, <<>>}
                     PROVE  Outcome(cur[d], Head(resultChan[d]))'
        OBVIOUS
      <4>2. cur[d] \in 1..Len(calls) /\ Outcome(cur[d], Head(resultChan[d]))
        BY <1>0, <3>2, <4>1 DEF ClientsInv
      <4> QED BY <1>1, <1>5, <3>1, <4>2 DEF Outcome
    <3> QED BY <1>0, <1>5, <1>6, <3>1, <3>2, <3>3 DEF ClientsInv
  <2> QED BY <2>1, <2>2
<1>14. \A r \in Router : pc'[r] = pc[r] /\ cur'[r] = cur[r]
  BY <1>7, <1>8
<1>15. \A q : Held(q)' <=> Held(q)
  BY <1>1, <1>14 DEF Held, Busy
<1>16. \A q : Held(q) => q \in 1..Len(calls)
  BY <1>0 DEF WaitsInv
<1>17. RoutersInv'
  <2>1. \A r \in Router : Busy(r)' <=> Busy(r)
    BY <1>14 DEF Busy
  <2>2. ASSUME NEW r \in Router, pc[r] = "answer" PROVE Outcome(cur[r], calls[cur[r]].fate)'
    <3>1. Outcome(cur[r], calls[cur[r]].fate) /\ cur[r] \in 1..Len(calls)
      BY <1>0, <1>16, <2>2 DEF RoutersInv, Held, Busy
    <3> QED BY <1>1, <1>5, <1>14, <3>1 DEF Outcome
  <2> QED BY <1>0, <1>1, <1>14, <2>1, <2>2 DEF RoutersInv
<1>18. WaitsInv'
  <2>1. ASSUME NEW q, Held(q)
        PROVE  /\ q \in 1..Len(calls') /\ calls'[q].op # "sync"
               /\ calls'[q].ret => /\ cur'[calls'[q].by] = q /\ pc'[calls'[q].by] = "get"
                                   /\ resultChan'[calls'[q].by] = <<>>
    <3>1. q \in 1..Len(calls) /\ calls[q].op # "sync" /\ calls'[q] = calls[q] /\ q \in 1..Len(calls')
      BY <1>0, <1>5, <1>6, <2>1 DEF WaitsInv
    <3>2. calls[q] \in CallRec
      BY <1>4, <3>1, ElementOfSeq
    <3>3. calls[q].by \in Client
      BY <3>2 DEF CallRec
    <3>4. ASSUME calls[q].ret
          PROVE  /\ cur'[calls[q].by] = q /\ pc'[calls[q].by] = "get"
                 /\ resultChan'[calls[q].by] = <<>>
      <4>1. /\ cur[calls[q].by] = q /\ pc[calls[q].by] = "get"
            /\ resultChan[calls[q].by] = <<>>
        BY <1>0, <2>1, <3>4 DEF WaitsInv
      <4>2. calls[q].by # c
        BY <1>1, <4>1
      <4> QED BY <1>8, <1>9, <3>3, <4>1, <4>2 DEF Proc
    <3> QED BY <3>1, <3>4
  <2>2. ASSUME NEW d \in Client, pc'[d] = "send", NEW q, Held(q) \/ On(executed, q), calls'[q].by = d
        PROVE  q < cur'[d]
    <3>1. q \in 1..Len(calls) /\ calls[q].by = d
      BY <1>5, <1>11, <1>16, <2>2
    <3>2. CASE d = c
      BY <1>6, <1>8, <3>1, <3>2
    <3>3. CASE d # c
      <4>1. pc[d] = "send" /\ cur'[d] = cur[d]
        BY <1>8, <2>2, <3>3 DEF Proc
      <4> QED BY <1>0, <2>2, <3>1, <4>1 DEF WaitsInv
    <3> QED BY <3>2, <3>3
  <2>3. Once(redisTask)
    BY <1>0 DEF WaitsInv
  <2>4. \A q : On(executed, q) => q \in 1..Len(calls')
    BY <1>5, <1>6, <1>11
  <2> QED BY <1>1, <1>15, <2>1, <2>2, <2>3, <2>4 DEF WaitsInv
<1>19. GotInv'
  <2> SUFFICES ASSUME NEW q \in CallId, got[q] # "none" PROVE q \in 1..Len(calls') /\ Outcome(q, got[q])'
    BY <1>1 DEF GotInv
  <2>1. q \in 1..Len(calls) /\ Outcome(q, got[q])
    BY <1>0 DEF GotInv
  <2> QED BY <1>1, <1>5, <1>6, <2>1 DEF Outcome
<1>20. InOrder(calls', redisTask)
  <2>1. \A j \in 1..Len(redisTask) : calls'[redisTask[j]] = calls[redisTask[j]]
    BY <1>5, <1>16 DEF Held, On
  <2> QED BY <1>0, <2>1 DEF InOrder
<1>21. TasksInOrder'
  <2>1. \A p, q \in 1..Len(calls) : SameQueue(calls', p, q) <=> SameQueue(calls, p, q)
    BY <1>5 DEF SameQueue
  <2>2. \A r \in Router : pc[r] \in {"key", "conn", "do"} => cur[r] \in 1..Len(calls)
    BY <1>16 DEF Held, Busy
  <2>3. \A j \in 1..Len(executed) : executed[j] \in 1..Len(calls)
    BY <1>11 DEF On
  <2>4. \A q : On(redisTask, q) => q \in 1..Len(calls)
    BY <1>16 DEF Held
  <2> QED BY <1>0, <1>1, <1>11, <1>14, <2>1, <2>2, <2>3, <2>4 DEF TasksInOrder
<1>22. PoolInv'
  <2>1. w # "do" /\ pc[c] # "do"
    BY <1>1
  <2>2. pc \in [Proc -> Places]
    BY <1>0 DEF TaskTypes, TaskTypeOK, Places
  <2> QED BY <1>0, <1>1, <1>2, <1>7, <2>1, <2>2, PoolKeeps
<1> QED BY <1>1, <1>10, <1>13, <1>17, <1>18, <1>19, <1>20, <1>21, <1>22 DEF TaskIInv
\* A client takes its result, or a new RetError: no task is out for the old one.
LEMMA ResultStep ==
    ASSUME TaskIInv, NEW c \in Client, Get(c) \/ NewRetError(c)
    PROVE  TaskIInv'
<1>0. /\ TaskTypes /\ ClientsInv /\ RoutersInv /\ WaitsInv /\ GotInv
      /\ InOrder(calls, redisTask) /\ TasksInOrder /\ PoolInv
  BY DEF TaskIInv
<1>1. /\ UNCHANGED <<calls, redisTask, cur, active, dropped, executed, panicked>>
      /\ pc[c] \in {"get", "idle"} /\ pc' = [pc EXCEPT ![c] = "idle"]
  <2>1. CASE Get(c)
    BY <2>1 DEF Get, To
  <2>2. CASE NewRetError(c)
    <3>1. pc = [pc EXCEPT ![c] = "idle"]
      BY <1>0, <2>2 DEF NewRetError, TaskTypes, TaskTypeOK
    <3> QED BY <2>2, <3>1 DEF NewRetError
  <2> QED BY <2>1, <2>2
<1>2. c \in Proc /\ c \notin Router /\ \A r \in Router : r # c /\ r \in Proc
  BY TaskAssumption DEF Proc
<1>3. /\ pc' \in [Proc -> Places] /\ pc'[c] = "idle"
      /\ \A p \in Proc : p # c => pc'[p] = pc[p]
  BY <1>0, <1>1, <1>2 DEF TaskTypes, TaskTypeOK, Places
<1>4. /\ resultChan' \in [Client -> {None} \cup Seq(AllFates)]
      /\ resultChan'[c] \in {None, <<>>}
      /\ \A d \in Client : d # c => resultChan'[d] = resultChan[d]
  <2>1. resultChan \in [Client -> {None} \cup Seq(AllFates)]
    BY <1>0 DEF TaskTypes
  <2>2. CASE Get(c)
    <3>1. Tail(resultChan[c]) = <<>> /\ resultChan' = [resultChan EXCEPT ![c] = Tail(resultChan[c])]
      BY <1>0, <2>2 DEF ClientsInv, Get
    <3>2. <<>> \in Seq(AllFates)
      OBVIOUS
    <3> QED BY <2>1, <3>1, <3>2
  <2>3. CASE NewRetError(c)
    BY <2>1, <2>3 DEF NewRetError
  <2> QED BY <2>2, <2>3
<1>5. \A q : Held(q) /\ calls[q].ret => calls[q].by # c
  <2> SUFFICES ASSUME NEW q, Held(q), calls[q].ret, calls[q].by = c PROVE FALSE
    OBVIOUS
  <2>1. pc[c] = "get" /\ resultChan[c] = <<>>
    BY <1>0 DEF WaitsInv
  <2> QED BY <2>1 DEF Get, NewRetError
<1>6. \A q : \A v : Outcome(q, v)' <=> Outcome(q, v)
  BY <1>1 DEF Outcome
<1>7. /\ got' \in [CallId -> AllFates \cup {"none"}]
      /\ \A q \in CallId : got'[q] # "none" => q \in 1..Len(calls) /\ Outcome(q, got'[q])
  <2>1. /\ got \in [CallId -> AllFates \cup {"none"}]
        /\ \A q \in CallId : got[q] # "none" => q \in 1..Len(calls) /\ Outcome(q, got[q])
    BY <1>0 DEF GotInv, TaskTypes, TaskTypeOK
  <2>2. CASE Get(c)
    <3>1. /\ got' = [got EXCEPT ![cur[c]] = Head(resultChan[c])]
          /\ resultChan[c] \notin {None, <<>>}
      BY <2>2 DEF Get
    <3>2. /\ cur[c] \in 1..Len(calls) /\ Outcome(cur[c], Head(resultChan[c]))
          /\ resultChan[c] \in Seq(AllFates)
      BY <1>0, <2>2, <3>1 DEF ClientsInv, Get, TaskTypes, TaskTypeOK
    <3>3. Head(resultChan[c]) \in AllFates
      BY <3>1, <3>2, SeqTail
    <3> QED BY <2>1, <3>1, <3>2, <3>3
  <2>3. CASE NewRetError(c)
    BY <2>1, <2>3 DEF NewRetError
  <2> QED BY <2>2, <2>3
<1>8. TaskTypes'
  <2>1. \A d \in Client : resultChan'[d] = None \/ resultChan'[d] \in Seq(AllFates)
    BY <1>4
  <2> QED BY <1>0, <1>1, <1>3, <1>4, <1>7, <2>1 DEF TaskTypes, TaskTypeOK, Places
<1>9. ClientsInv'
  <2>1. \A d \in Client : d # c =>
          pc'[d] = pc[d] /\ cur'[d] = cur[d] /\ resultChan'[d] = resultChan[d]
    BY <1>1, <1>3, <1>4 DEF Proc
  <2> QED BY <1>0, <1>1, <1>3, <1>4, <2>1 DEF ClientsInv, Outcome
<1>10. \A r \in Router : pc'[r] = pc[r]
  BY <1>2, <1>3
<1>11. \A q : Held(q)' <=> Held(q)
  BY <1>1, <1>10 DEF Held, Busy
<1>12. RoutersInv'
  BY <1>0, <1>1, <1>10 DEF RoutersInv, Outcome, Busy
<1>13. WaitsInv'
  <2>1. ASSUME NEW q, Held(q), calls[q].ret
        PROVE  pc'[calls[q].by] = "get" /\ resultChan'[calls[q].by] = <<>>
    <3>1. /\ q \in 1..Len(calls) /\ calls[q].by # c /\ pc[calls[q].by] = "get"
          /\ resultChan[calls[q].by] = <<>>
      BY <1>0, <1>5, <2>1 DEF WaitsInv
    <3>2. calls \in Seq(CallRec)
      BY <1>0 DEF TaskTypes, TaskTypeOK, CallRec
    <3>3. calls[q] \in CallRec
      BY <3>1, <3>2, ElementOfSeq
    <3>4. calls[q].by \in Client
      BY <3>3 DEF CallRec
    <3> QED BY <1>3, <1>4, <3>1, <3>4 DEF Proc
  <2>2. \A d \in Client : pc'[d] = "send" => pc[d] = "send"
    BY <1>3 DEF Proc
  <2> QED BY <1>0, <1>1, <1>11, <2>1, <2>2 DEF WaitsInv
<1>14. GotInv'
  BY <1>1, <1>6, <1>7 DEF GotInv, Outcome
<1>15. TasksInOrder'
  BY <1>0, <1>1, <1>10 DEF TasksInOrder
<1>16. PoolInv'
  <2>1. pc \in [Proc -> Places] /\ pc[c] # "do"
    BY <1>0, <1>1 DEF TaskTypes, TaskTypeOK, Places
  <2> QED BY <1>0, <1>1, <1>2, <2>1, PoolKeeps
<1> QED BY <1>0, <1>1, <1>8, <1>9, <1>12, <1>13, <1>14, <1>15, <1>16 DEF TaskIInv

\* A task enters the channel: the last of its client's, which waits from now on.
LEMMA SendStep ==
    ASSUME TaskIInv, NEW c \in Client, Send(c)
    PROVE  TaskIInv'
<1>0. /\ TaskTypes /\ ClientsInv /\ RoutersInv /\ WaitsInv /\ GotInv
      /\ InOrder(calls, redisTask) /\ TasksInOrder /\ PoolInv
  BY DEF TaskIInv
<1> DEFINE n == cur[c]
           w == IF calls[n].ret THEN "get" ELSE "idle"
<1>1. /\ UNCHANGED <<calls, cur, active, resultChan, got, dropped, executed, panicked>>
      /\ pc[c] = "send" /\ Len(redisTask) < MAX_TASK_CHANNEL
      /\ redisTask' = Append(redisTask, n) /\ pc' = [pc EXCEPT ![c] = w]
  BY DEF Send, To
<1>2. /\ n \in 1..Len(calls) /\ calls[n].by = c /\ calls[n].op # "sync" /\ n \in CallId
      /\ calls[n].ret => resultChan[c] = <<>>
  <2>1. /\ n \in 1..Len(calls) /\ calls[n].by = c /\ calls[n].op # "sync"
        /\ calls[n].ret => resultChan[c] = <<>>
    BY <1>0, <1>1 DEF ClientsInv
  <2>2. Len(calls) \in Nat /\ Len(calls) <= MaxCalls /\ MaxCalls \in Nat
    BY <1>0, LenProperties, TaskAssumption DEF TaskTypes, TaskTypeOK
  <2> QED BY <2>1, <2>2 DEF CallId
<1>3. \A q : (Held(q) \/ On(executed, q)) /\ calls[q].by = c => q < n
  BY <1>0, <1>1 DEF WaitsInv
<1>w. w \in {"get", "idle"} /\ (calls[n].ret => w = "get")
  OBVIOUS
<1> HIDE DEF n, w
<1>n. n \in Nat
  BY <1>2 DEF CallId
<1>4. c \in Proc /\ c \notin Router /\ \A r \in Router : r # c /\ r \in Proc
  BY TaskAssumption DEF Proc
<1>5. /\ pc' \in [Proc -> Places] /\ pc'[c] = w
      /\ \A p \in Proc : p # c => pc'[p] = pc[p]
  BY <1>0, <1>1, <1>4, <1>w DEF TaskTypes, TaskTypeOK, Places
<1>6. /\ redisTask \in Seq(CallId) /\ redisTask' \in Seq(CallId)
      /\ Len(redisTask') = Len(redisTask) + 1 /\ Len(redisTask) \in Nat
      /\ \A q : On(redisTask', q) <=> On(redisTask, q) \/ q = n
  <2>1. redisTask \in Seq(CallId)
    BY <1>0 DEF TaskTypes, TaskTypeOK
  <2> QED BY <1>1, <1>2, <2>1, SeqAppend, OnAppend
<1>7. TaskTypes'
  <2>1. Len(redisTask') <= MAX_TASK_CHANNEL
    BY <1>1, <1>6, TaskAssumption
  <2> QED BY <1>0, <1>1, <1>5, <1>6, <2>1 DEF TaskTypes, TaskTypeOK, Places
<1>8. ClientsInv'
  <2>1. \A d \in Client : d # c => pc'[d] = pc[d]
    BY <1>5 DEF Proc
  <2>2. resultChan[c] \in {None, <<>>}
    BY <1>0, <1>1 DEF ClientsInv
  <2> QED BY <1>0, <1>1, <1>2, <1>w, <1>5, <2>1, <2>2 DEF ClientsInv, Outcome, n
<1>9. \A r \in Router : pc'[r] = pc[r]
  BY <1>4, <1>5
<1>10. \A q : Held(q)' <=> Held(q) \/ q = n
  BY <1>1, <1>6, <1>9 DEF Held, Busy
<1>11. ~Held(n) /\ ~On(executed, n)
  BY <1>2, <1>3, <1>n
<1>12. RoutersInv'
  <2>1. \A r \in Router : Busy(r) => ~On(redisTask', cur[r])
    BY <1>0, <1>6, <1>11 DEF RoutersInv, Held
  <2> QED BY <1>0, <1>1, <1>9, <2>1 DEF RoutersInv, Outcome, Busy
<1>13. WaitsInv'
  <2>1. Once(redisTask')
    BY <1>0, <1>1, <1>2, <1>6, <1>11, OnAppend DEF WaitsInv, Held
  <2>2. ASSUME NEW q, Held(q) \/ q = n
        PROVE  /\ q \in 1..Len(calls) /\ calls[q].op # "sync"
               /\ calls[q].ret => /\ cur[calls[q].by] = q /\ pc'[calls[q].by] = "get"
                                  /\ resultChan[calls[q].by] = <<>>
    <3>1. CASE q = n
      BY <1>2, <1>w, <1>5, <3>1 DEF n
    <3>2. CASE Held(q)
      <4>1. q \in 1..Len(calls) /\ calls[q].op # "sync"
        BY <1>0, <3>2 DEF WaitsInv
      <4>2. ASSUME calls[q].ret
            PROVE  /\ cur[calls[q].by] = q /\ pc'[calls[q].by] = "get"
                   /\ resultChan[calls[q].by] = <<>>
        <5>1. /\ cur[calls[q].by] = q /\ pc[calls[q].by] = "get"
              /\ resultChan[calls[q].by] = <<>>
          BY <1>0, <3>2, <4>2 DEF WaitsInv
        <5>2. calls \in Seq(CallRec)
          BY <1>0 DEF TaskTypes, TaskTypeOK, CallRec
        <5>3. calls[q] \in CallRec
          BY <4>1, <5>2, ElementOfSeq
        <5>4. calls[q].by \in Proc /\ calls[q].by # c
          BY <1>1, <5>1, <5>3 DEF CallRec, Proc
        <5> QED BY <1>5, <5>1, <5>4
      <4> QED BY <4>1, <4>2
    <3> QED BY <2>2, <3>1, <3>2
  <2>3. ASSUME NEW d \in Client, pc'[d] = "send", NEW q, Held(q) \/ q = n \/ On(executed, q),
               calls[q].by = d
        PROVE  q < cur[d]
    <3>1. d # c /\ pc[d] = "send"
      BY <1>w, <1>5, <2>3 DEF Proc
    <3>2. q # n
      BY <1>2, <2>3, <3>1
    <3> QED BY <1>0, <2>3, <3>1, <3>2 DEF WaitsInv
  <2>4. \A q : On(executed, q) => q \in 1..Len(calls)
    BY <1>0 DEF WaitsInv
  <2> QED BY <1>1, <1>10, <2>1, <2>2, <2>3, <2>4 DEF WaitsInv
<1>14. GotInv'
  BY <1>0, <1>1 DEF GotInv, Outcome
<1>15. InOrder(calls, redisTask')
  <2>1. \A q : On(redisTask, q) /\ calls[q].by = calls[n].by => q < n
    BY <1>2, <1>3 DEF Held
  <2> QED BY <1>0, <1>1, <1>2, <1>6, <2>1, OnAppend
<1>16. TasksInOrder'
  <2> SUFFICES ASSUME \A r, s \in Router : r = s
               PROVE  /\ \A r \in Router : pc[r] \in {"key", "conn", "do"} =>
                          \A q : On(redisTask', q) /\ SameQueue(calls, cur[r], q) => cur[r] < q
                      /\ \A p, q : On(executed, p) /\ On(redisTask', q) /\ SameQueue(calls, p, q)
                          => p < q
    BY <1>0, <1>1, <1>9 DEF TasksInOrder
  <2>1. ASSUME NEW r \in Router, pc[r] \in {"key", "conn", "do"}, NEW q,
               On(redisTask', q), SameQueue(calls, cur[r], q)
        PROVE  cur[r] < q
    <3>1. CASE q = n
      BY <1>2, <1>3, <2>1, <3>1 DEF Held, Busy, SameQueue
    <3>2. CASE On(redisTask, q)
      BY <1>0, <2>1, <3>2 DEF TasksInOrder
    <3> QED BY <1>6, <2>1, <3>1, <3>2
  <2>2. ASSUME NEW p, NEW q, On(executed, p), On(redisTask', q), SameQueue(calls, p, q)
        PROVE  p < q
    <3>1. CASE q = n
      BY <1>2, <1>3, <2>2, <3>1 DEF SameQueue
    <3>2. CASE On(redisTask, q)
      BY <1>0, <2>2, <3>2 DEF TasksInOrder
    <3> QED BY <1>6, <2>2, <3>1, <3>2
  <2> QED BY <2>1, <2>2
<1>17. PoolInv'
  <2>1. pc \in [Proc -> Places] /\ pc[c] # "do" /\ w # "do"
    BY <1>0, <1>1, <1>w DEF TaskTypes, TaskTypeOK, Places
  <2> QED BY <1>0, <1>1, <1>4, <2>1, PoolKeeps
<1> QED BY <1>1, <1>7, <1>8, <1>12, <1>13, <1>14, <1>15, <1>16, <1>17 DEF TaskIInv
\* A router takes the oldest task.
LEMMA RouterTakes ==
    ASSUME TaskIInv, NEW r \in Router, RunAnsyTask(r)
    PROVE  TaskIInv'
<1>0. /\ TaskTypes /\ ClientsInv /\ RoutersInv /\ WaitsInv /\ GotInv
      /\ InOrder(calls, redisTask) /\ TasksInOrder /\ PoolInv
  BY DEF TaskIInv
<1> DEFINE n == Head(redisTask)
<1>1. /\ UNCHANGED <<calls, active, resultChan, got, dropped, executed, panicked>>
      /\ pc[r] = "take" /\ redisTask # <<>> /\ redisTask' = Tail(redisTask)
      /\ cur' = [cur EXCEPT ![r] = n] /\ pc' = [pc EXCEPT ![r] = "key"]
  BY DEF RunAnsyTask, To
<1>2. redisTask \in Seq(CallId)
  BY <1>0 DEF TaskTypes, TaskTypeOK
<1>3. /\ n \in CallId /\ redisTask' \in Seq(CallId) /\ Len(redisTask') <= Len(redisTask)
      /\ Len(redisTask') \in Nat /\ Len(redisTask) \in Nat /\ On(redisTask, n)
      /\ \A q : On(redisTask, q) <=> On(redisTask', q) \/ q = n
  <2>1. n \in CallId /\ Tail(redisTask) \in Seq(CallId) /\ Len(redisTask) \in Nat
        /\ Len(Tail(redisTask)) = Len(redisTask) - 1 /\ Len(redisTask) # 0
    BY <1>1, <1>2, SeqTail
  <2> QED BY <1>1, <1>2, <2>1, OnTail, LenProperties
<1>4. /\ Once(redisTask') /\ ~On(redisTask', n) /\ InOrder(calls, redisTask')
      /\ \A q : On(redisTask', q) /\ calls[q].by = calls[n].by => n < q
  <2>1. Once(redisTask) /\ InOrder(calls, redisTask)
    BY <1>0 DEF WaitsInv
  <2> QED BY <1>1, <1>2, <2>1, OnTail
<1> HIDE DEF n
<1>5. r \in Proc /\ r \notin Client /\ \A c \in Client : r # c /\ c \in Proc
  BY TaskAssumption DEF Proc
<1>6. /\ pc' \in [Proc -> Places] /\ cur' \in [Proc -> CallId \cup {None}]
      /\ pc'[r] = "key" /\ cur'[r] = n
      /\ \A p \in Proc : p # r => pc'[p] = pc[p] /\ cur'[p] = cur[p]
  BY <1>0, <1>1, <1>3, <1>5 DEF TaskTypes, TaskTypeOK, Places
<1>7. \A c \in Client : pc'[c] = pc[c] /\ cur'[c] = cur[c]
  BY <1>5, <1>6
<1>8. \A s \in Router : s # r => pc'[s] = pc[s] /\ cur'[s] = cur[s]
  BY <1>6 DEF Proc
<1>9. TaskTypes'
  <2>1. Len(redisTask') <= MAX_TASK_CHANNEL
    <3>1. Len(redisTask) <= MAX_TASK_CHANNEL
      BY <1>0 DEF TaskTypes, TaskTypeOK
    <3> QED BY <1>3, <3>1, TaskAssumption
  <2> QED BY <1>0, <1>1, <1>3, <1>6, <2>1 DEF TaskTypes, TaskTypeOK, Places
<1>10. ClientsInv'
  BY <1>0, <1>1, <1>7 DEF ClientsInv, Outcome
<1>11. \A q : Held(q)' <=> Held(q)
  <2> TAKE q
  <2>1. ASSUME NEW s \in Router, Busy(s), cur[s] = q PROVE Held(q)'
    BY <1>1, <1>8, <2>1 DEF Busy, Held
  <2>2. (n = q) => Held(q)'
    BY <1>6 DEF Busy, Held
  <2>3. ASSUME NEW s \in Router, Busy(s)', cur'[s] = q PROVE Held(q)
    <3>1. CASE s = r
      BY <1>3, <1>6, <2>3, <3>1 DEF Held
    <3>2. CASE s # r
      BY <1>8, <2>3, <3>2 DEF Busy, Held
    <3> QED BY <3>1, <3>2
  <2> QED BY <1>3, <2>1, <2>2, <2>3 DEF Held
<1>12. RoutersInv'
  <2>1. ASSUME NEW s \in Router
        PROVE  /\ pc'[s] \in {"take", "key", "conn", "do", "answer"}
               /\ pc'[s] = "answer" => Outcome(cur[s], calls[cur[s]].fate)'
               /\ Busy(s)' => ~On(redisTask', cur'[s])
    <3>1. CASE s = r
      BY <1>4, <1>6, <3>1
    <3>2. CASE s # r
      BY <1>0, <1>1, <1>3, <1>8, <3>2 DEF RoutersInv, Outcome, Busy
    <3> QED BY <3>1, <3>2
  <2>2. ASSUME NEW s \in Router, NEW t \in Router, Busy(s)', Busy(t)', cur'[s] = cur'[t]
        PROVE  s = t
    <3>1. \A u \in Router : u # r /\ Busy(u)' => cur'[u] # n
      BY <1>0, <1>3, <1>8 DEF RoutersInv, Busy
    <3>2. CASE s # r /\ t # r
      BY <1>0, <1>8, <2>2, <3>2 DEF RoutersInv, Busy
    <3> QED BY <1>6, <2>2, <3>1, <3>2
  <2> QED BY <2>1, <2>2 DEF RoutersInv
<1>13. WaitsInv'
  <2>1. ASSUME NEW q, Held(q), calls[q].ret
        PROVE  cur'[calls[q].by] = q /\ pc'[calls[q].by] = "get"
    <3>1. q \in 1..Len(calls) /\ cur[calls[q].by] = q /\ pc[calls[q].by] = "get"
      BY <1>0, <2>1 DEF WaitsInv
    <3>2. calls \in Seq(CallRec)
      BY <1>0 DEF TaskTypes, TaskTypeOK, CallRec
    <3>3. calls[q] \in CallRec
      BY <3>1, <3>2, ElementOfSeq
    <3> QED BY <1>7, <3>1, <3>3 DEF CallRec
  <2> QED BY <1>0, <1>1, <1>4, <1>7, <1>11, <2>1 DEF WaitsInv
<1>14. GotInv'
  BY <1>0, <1>1 DEF GotInv, Outcome
<1>15. TasksInOrder'
  <2> SUFFICES ASSUME \A s, t \in Router : s = t
               PROVE  /\ \A q : On(redisTask', q) /\ SameQueue(calls, n, q) => n < q
                      /\ \A q : On(executed, q) /\ SameQueue(calls, q, n) => q < n
                      /\ \A p, q : On(executed, p) /\ On(redisTask', q) /\ SameQueue(calls, p, q)
                          => p < q
    BY <1>0, <1>1, <1>6 DEF TasksInOrder
  <2> QED BY <1>0, <1>3, <1>4 DEF TasksInOrder, SameQueue
<1>16. PoolInv'
  <2>1. pc \in [Proc -> Places]
    BY <1>0 DEF TaskTypes, TaskTypeOK, Places
  <2> QED BY <1>0, <1>1, <1>5, <2>1, PoolKeeps
<1> QED BY <1>1, <1>4, <1>9, <1>10, <1>12, <1>13, <1>14, <1>15, <1>16 DEF TaskIInv

\* An operation goes on, in its client or in a router: what it runs follows
\* what its router has run, and it ends with the outcome of the call.
LEMMA OperationStep ==
    ASSUME TaskIInv, NEW p \in Proc, Operation(p)
    PROVE  TaskIInv'
<1>0. /\ TaskTypes /\ ClientsInv /\ RoutersInv /\ WaitsInv /\ GotInv
      /\ InOrder(calls, redisTask) /\ TasksInOrder /\ PoolInv
  BY DEF TaskIInv
<1> DEFINE n == cur[p]
           end == IF p \in Router THEN "answer" ELSE "idle"
<1>1. /\ UNCHANGED <<calls, redisTask, cur, resultChan, got, dropped, panicked>>
      /\ pc[p] \in {"key", "conn", "do"}
      /\ \E w \in {"conn", "do", end} : pc' = [pc EXCEPT ![p] = w]
      /\ executed' = executed \/ executed' = Append(executed, n)
  BY DEF Operation, CheckKey, GetConn, Do, Returned, To
<1>2. /\ pc' = [pc EXCEPT ![p] = end] =>
             calls[n].fate \in {"badKey", "connErr"} \/ executed' = Append(executed, n)
  <2>1. end \notin {"conn", "do"} /\ pc[p] \in {"key", "conn", "do"} /\ pc \in [Proc -> Places]
    BY <1>0, <1>1 DEF TaskTypes, TaskTypeOK, Places
  <2>2. pc' = [pc EXCEPT ![p] = end] => pc'[p] = end
    BY <2>1
  <2>3. pc' = [pc EXCEPT ![p] = "conn"] => pc'[p] = "conn"
    BY <2>1
  <2>4. pc' = [pc EXCEPT ![p] = "do"] => pc'[p] = "do"
    BY <2>1
  <2> HIDE DEF end, n
  <2> QED BY <2>1, <2>2, <2>3, <2>4 DEF Operation, CheckKey, GetConn, Do, Returned, To, end, n
<1>3. PICK w \in {"conn", "do", end} : pc' = [pc EXCEPT ![p] = w]
  BY <1>1
<1>e. end \in {"answer", "idle"} /\ (p \in Router => end = "answer") /\ (p \notin Router => end = "idle")
  OBVIOUS
<1>4. /\ n \in 1..Len(calls) /\ n \in CallId /\ n \in Nat
      /\ p \in Router => Held(n)
      /\ p \in Client => calls[n].op = "sync"
  <2>1. p \in Client => n \in 1..Len(calls) /\ calls[n].op = "sync"
    BY <1>0, <1>1 DEF ClientsInv
  <2>2. p \in Router => Held(n)
    BY <1>1 DEF Held, Busy
  <2>3. n \in 1..Len(calls)
    BY <1>0, <2>1, <2>2 DEF WaitsInv, Proc
  <2>4. Len(calls) \in Nat /\ Len(calls) <= MaxCalls /\ MaxCalls \in Nat
    BY <1>0, LenProperties, TaskAssumption DEF TaskTypes, TaskTypeOK
  <2> QED BY <2>1, <2>2, <2>3, <2>4 DEF CallId
<1> HIDE DEF n, end
<1>5. /\ pc' \in [Proc -> Places] /\ pc'[p] = w
      /\ \A s \in Proc : s # p => pc'[s] = pc[s]
  <2>1. pc \in [Proc -> Places] /\ w \in Places
    BY <1>0, <1>e DEF TaskTypes, TaskTypeOK, Places
  <2> QED BY <1>3, <2>1
<1>6. /\ executed \in Seq(CallId) /\ executed' \in Seq(CallId) /\ Len(executed) \in Nat
      /\ \A q : On(executed', q) => On(executed, q) \/ q = n
      /\ \A q : On(executed, q) => On(executed', q)
      /\ executed' = Append(executed, n) =>
             /\ On(executed', n) /\ Len(executed') = Len(executed) + 1
             /\ executed'[Len(executed) + 1] = n
             /\ \A j \in 1..Len(executed) : executed'[j] = executed[j]
  <2>1. executed \in Seq(CallId)
    BY <1>0 DEF TaskTypes, TaskTypeOK
  <2>2. executed' = Append(executed, n) => \A q : On(executed', q) <=> On(executed, q) \/ q = n
    BY <1>4, <2>1, OnAppend
  <2>3. CASE executed' = executed /\ executed' # Append(executed, n)
    BY <2>1, <2>3, LenProperties
  <2>4. CASE executed' = Append(executed, n)
    <3>1. \A q : On(executed', q) <=> On(executed, q) \/ q = n
      BY <2>2, <2>4
    <3>2. /\ executed' \in Seq(CallId) /\ Len(executed) \in Nat
          /\ Len(executed') = Len(executed) + 1 /\ executed'[Len(executed) + 1] = n
          /\ \A j \in 1..Len(executed) : executed'[j] = executed[j]
      BY <1>4, <2>1, <2>4, SeqAppend
    <3> QED BY <2>1, <3>1, <3>2
  <2> QED BY <1>1, <2>3, <2>4
<1>7. \A q : \A v : Outcome(q, v) => Outcome(q, v)'
  BY <1>1, <1>6 DEF Outcome
<1>8. pc'[p] = end => Outcome(n, calls[n].fate)'
  <2>1. pc'[p] = end => calls[n].fate \in {"badKey", "connErr"} \/ On(executed', n)
    BY <1>2, <1>3, <1>5, <1>6
  <2> QED BY <1>1, <2>1 DEF Outcome, n
<1>9. PoolInv' /\ active' \in 0..MaxActive
  <2>1. /\ pc \in [Proc -> Places] /\ active \in 0..MaxActive /\ MaxActive \in Nat
        /\ IsFiniteSet(Doing) /\ active = Cardinality(Doing) /\ PoolInv
    BY <1>0, TaskAssumption DEF TaskTypes, TaskTypeOK, Places, PoolInv
  <2>2. CASE active' = active
    <3>1. pc[p] # "do" /\ w # "do"
      <4>1. pc[p] # "do"
        BY <2>1, <2>2 DEF Operation, CheckKey, GetConn, Do
      <4>2. pc'[p] # "do"
        BY <1>e, <2>1, <2>2 DEF Operation, CheckKey, GetConn, Do, Returned, To, end
      <4> QED BY <1>5, <4>1, <4>2
    <3> QED BY <1>3, <2>1, <2>2, <3>1, PoolKeeps
  <2>3. CASE active' = active + 1
    <3>1. pc[p] # "do" /\ pc'[p] = "do" /\ active < MaxActive
      BY <1>5, <2>1, <2>3 DEF Operation, CheckKey, GetConn, Do, To
    <3>2. Doing' = Doing \cup {p} /\ p \notin Doing
      BY <1>5, <3>1 DEF Doing
    <3>3. IsFiniteSet(Doing \cup {p}) /\ Cardinality(Doing \cup {p}) = Cardinality(Doing) + 1
      BY <2>1, <3>2, FS_AddElement
    <3> QED BY <2>1, <2>3, <3>1, <3>2, <3>3 DEF PoolInv
  <2>4. CASE active' = active - 1
    <3>1. pc[p] = "do" /\ pc'[p] # "do"
      BY <1>e, <1>5, <2>1, <2>4 DEF Operation, CheckKey, GetConn, Do, Returned, To, end
    <3>2. Doing' = Doing \ {p} /\ p \in Doing
      BY <1>5, <3>1 DEF Doing
    <3>3. IsFiniteSet(Doing \ {p}) /\ Cardinality(Doing \ {p}) = Cardinality(Doing) - 1
      BY <2>1, <3>2, FS_RemoveElement
    <3>4. Cardinality(Doing) - 1 \in Nat
      BY <3>3, FS_CardinalityType
    <3> QED BY <2>1, <2>4, <3>2, <3>3, <3>4 DEF PoolInv
  <2> QED BY <2>2, <2>3, <2>4 DEF Operation, CheckKey, GetConn, Do
<1>10. TaskTypes'
  BY <1>0, <1>1, <1>5, <1>6, <1>9 DEF TaskTypes, TaskTypeOK, Places
<1>11. Client \cap Router = {} /\ \A c \in Client : c \in Proc
  BY TaskAssumption DEF Proc
<1>12. ClientsInv'
  <2> SUFFICES ASSUME NEW c \in Client
               PROVE  /\ pc'[c] \notin {"take", "answer"}
                      /\ pc'[c] # "idle" => pc[c] # "idle"
                      /\ pc'[c] \in {"key", "conn", "do"} => pc[c] \in {"key", "conn", "do"}
                      /\ pc'[c] = "send" => pc[c] = "send"
                      /\ pc[c] = "get" => pc'[c] = "get"
    BY <1>0, <1>1, <1>7 DEF ClientsInv
  <2>1. CASE c = p
    BY <1>1, <1>e, <1>5, <1>11, <2>1
  <2>2. CASE c # p
    BY <1>0, <1>5, <1>11, <2>2 DEF ClientsInv
  <2> QED BY <2>1, <2>2
<1>13. \A r \in Router : r # p => pc'[r] = pc[r]
  BY <1>5 DEF Proc
<1>14. \A r \in Router : Busy(r)' <=> Busy(r)
  BY <1>1, <1>e, <1>5, <1>13 DEF Busy
<1>15. \A q : Held(q)' <=> Held(q)
  BY <1>1, <1>14 DEF Held
<1>16. RoutersInv'
  <2>1. ASSUME NEW r \in Router
        PROVE  /\ pc'[r] \in {"take", "key", "conn", "do", "answer"}
               /\ pc'[r] = "answer" => Outcome(cur[r], calls[cur[r]].fate)'
    <3>1. CASE r = p
      <4>1. w = "answer" => w = end
        BY <1>e, <2>1, <3>1
      <4>2. pc'[r] = "answer" => Outcome(n, calls[n].fate)'
        BY <1>5, <1>8, <3>1, <4>1
      <4> QED BY <1>1, <1>e, <1>5, <3>1, <4>2 DEF n, Outcome
    <3>2. CASE r # p
      BY <1>0, <1>1, <1>7, <1>13, <3>2 DEF RoutersInv, Outcome
    <3> QED BY <3>1, <3>2
  <2> QED BY <1>0, <1>1, <1>14, <2>1 DEF RoutersInv
<1>17. WaitsInv'
  <2>1. ASSUME NEW q, Held(q), calls[q].ret PROVE pc'[calls[q].by] = "get"
    <3>1. q \in 1..Len(calls) /\ pc[calls[q].by] = "get"
      BY <1>0, <2>1 DEF WaitsInv
    <3>2. calls \in Seq(CallRec)
      BY <1>0 DEF TaskTypes, TaskTypeOK, CallRec
    <3>3. calls[q] \in CallRec
      BY <3>1, <3>2, ElementOfSeq
    <3>4. calls[q].by \in Proc /\ calls[q].by # p
      BY <1>1, <1>11, <3>1, <3>3 DEF CallRec
    <3> QED BY <1>5, <3>1, <3>4
  <2>2. \A q : On(executed', q) => q \in 1..Len(calls)
    BY <1>0, <1>4, <1>6 DEF WaitsInv
  <2>3. ASSUME NEW d \in Client, pc'[d] = "send", NEW q, Held(q) \/ On(executed', q),
               calls[q].by = d
        PROVE  q < cur[d]
    <3>1. d # p /\ pc[d] = "send"
      BY <1>1, <1>e, <1>5, <1>11, <2>3
    <3>2. Held(q) \/ On(executed, q) \/ (q = n /\ p \in Client)
      BY <1>4, <1>6, <2>3 DEF Proc
    <3>3. p \in Client => calls[n].by = p
      BY <1>0, <1>1 DEF ClientsInv, n
    <3>4. Held(q) \/ On(executed, q)
      BY <2>3, <3>1, <3>2, <3>3
    <3> QED BY <1>0, <2>3, <3>1, <3>4 DEF WaitsInv
  <2> QED BY <1>0, <1>1, <1>15, <2>1, <2>2, <2>3 DEF WaitsInv
<1>18. GotInv'
  BY <1>0, <1>1, <1>7 DEF GotInv
<1>19. TasksInOrder'
  <2> SUFFICES ASSUME \A r, s \in Router : r = s PROVE TasksInOrder'
    BY DEF TasksInOrder
  <2>0. /\ \A r \in Router : pc[r] \in {"key", "conn", "do"} =>
               /\ \A q : On(redisTask, q) /\ SameQueue(calls, cur[r], q) => cur[r] < q
               /\ \A q : On(executed, q) /\ SameQueue(calls, q, cur[r]) => q < cur[r]
        /\ \A i, q : On(executed, i) /\ On(redisTask, q) /\ SameQueue(calls, i, q) => i < q
        /\ \A i, j \in 1..Len(executed) :
               i < j /\ SameQueue(calls, executed[i], executed[j]) => executed[i] < executed[j]
    BY <1>0 DEF TasksInOrder
  <2>1. ASSUME NEW r \in Router, pc'[r] \in {"key", "conn", "do"}
        PROVE  /\ \A q : On(redisTask, q) /\ SameQueue(calls, cur[r], q) => cur[r] < q
               /\ \A q : On(executed', q) /\ SameQueue(calls, q, cur[r]) => q < cur[r]
    <3>1. pc[r] \in {"key", "conn", "do"}
      BY <1>1, <1>13, <2>1
    <3>2. \A q : On(executed', q) /\ SameQueue(calls, q, cur[r]) => On(executed, q)
      <4>1. CASE p \in Router
        <5>1. r = p /\ w # end
          BY <1>e, <1>5, <2>1, <4>1
        <5>2. executed' = executed
          BY <1>e, <1>5, <5>1 DEF Operation, CheckKey, GetConn, Do, Returned, To, end,
                                  TaskTypes, TaskTypeOK
        <5> QED BY <5>2
      <4>2. CASE p \in Client
        BY <1>4, <1>6, <4>2 DEF SameQueue
      <4> QED BY <4>1, <4>2 DEF Proc
    <3> QED BY <2>0, <3>1, <3>2
  <2>2. ASSUME NEW i, NEW q, On(executed', i), On(redisTask, q), SameQueue(calls, i, q)
        PROVE  i < q
    <3>1. CASE On(executed, i)
      BY <2>0, <2>2, <3>1
    <3>2. CASE i = n
      <4>1. p \in Router
        BY <1>4, <2>2, <3>2 DEF SameQueue, Proc
      <4> QED BY <1>1, <2>0, <2>2, <3>2, <4>1 DEF n
    <3> QED BY <1>6, <2>2, <3>1, <3>2
  <2>3. ASSUME NEW i \in 1..Len(executed'), NEW j \in 1..Len(executed'),
               i < j, SameQueue(calls, executed'[i], executed'[j])
        PROVE  executed'[i] < executed'[j]
    <3>1. CASE executed' = executed
      BY <2>0, <2>3, <3>1
    <3>2. CASE executed' = Append(executed, n)
      <4>1. i \in 1..Len(executed) /\ executed'[i] = executed[i]
        BY <1>6, <2>3, <3>2
      <4>2. CASE j = Len(executed) + 1
        <5>1. p \in Router /\ executed'[j] = n
          BY <1>4, <1>6, <2>3, <3>2, <4>2 DEF SameQueue, Proc
        <5>2. On(executed, executed[i])
          BY <4>1 DEF On
        <5> QED BY <1>1, <2>0, <2>3, <4>1, <5>1, <5>2 DEF n
      <4>3. CASE j \in 1..Len(executed)
        BY <1>6, <2>0, <2>3, <3>2, <4>1, <4>3
      <4> QED BY <1>6, <3>2, <4>2, <4>3
    <3> QED BY <1>1, <3>1, <3>2
  <2> QED BY <1>1, <2>1, <2>2, <2>3 DEF TasksInOrder
<1> QED BY <1>0, <1>1, <1>9, <1>10, <1>12, <1>16, <1>17, <1>18, <1>19 DEF TaskIInv
\* A router answers: the client of the task waits for this very task.
LEMMA AnswerStep ==
    ASSUME TaskIInv, NEW r \in Router, Answer(r)
    PROVE  TaskIInv'
<1>0. /\ TaskTypes /\ ClientsInv /\ RoutersInv /\ WaitsInv /\ GotInv
      /\ InOrder(calls, redisTask) /\ TasksInOrder /\ PoolInv
  BY DEF TaskIInv
<1> DEFINE n == cur[r]
           c == calls[n].by
           v == calls[n].fate
<1>1. /\ UNCHANGED <<calls, redisTask, active, got, dropped, executed, panicked>>
      /\ pc[r] = "answer" /\ pc' = [pc EXCEPT ![r] = "take"] /\ cur' = [cur EXCEPT ![r] = None]
      /\ \/ ~calls[n].ret /\ resultChan' = resultChan
         \/ calls[n].ret /\ resultChan' = [resultChan EXCEPT ![c] = <<v>>]
  BY DEF Answer, To, Err
<1>2. Held(n) /\ Outcome(n, v) /\ Busy(r)
  BY <1>0, <1>1 DEF Held, Busy, RoutersInv
<1>3. n \in 1..Len(calls) /\ c \in Client /\ v \in AllFates
  <2>1. n \in 1..Len(calls)
    BY <1>0, <1>2 DEF WaitsInv
  <2>2. calls \in Seq(CallRec)
    BY <1>0 DEF TaskTypes, TaskTypeOK, CallRec
  <2>3. calls[n] \in CallRec
    BY <2>1, <2>2, ElementOfSeq
  <2> QED BY <2>1, <2>3 DEF CallRec
<1>4. calls[n].ret => cur[c] = n /\ pc[c] = "get"
  BY <1>0, <1>2 DEF WaitsInv
<1> HIDE DEF v
<1>v. <<v>> \in Seq(AllFates) /\ Head(<<v>>) = v /\ Tail(<<v>>) = <<>>
  BY <1>3
<1> HIDE DEF n, c
<1>5. r \in Proc /\ r \notin Client /\ \A d \in Client : r # d /\ d \in Proc
  BY TaskAssumption DEF Proc
<1>6. /\ pc' \in [Proc -> Places] /\ cur' \in [Proc -> CallId \cup {None}]
      /\ pc'[r] = "take"
      /\ \A p \in Proc : p # r => pc'[p] = pc[p] /\ cur'[p] = cur[p]
  BY <1>0, <1>1, <1>5 DEF TaskTypes, TaskTypeOK, Places
<1>7. \A d \in Client : pc'[d] = pc[d] /\ cur'[d] = cur[d]
  BY <1>5, <1>6
<1>8. \A s \in Router : s # r => pc'[s] = pc[s] /\ cur'[s] = cur[s]
  BY <1>6 DEF Proc
<1>9. /\ resultChan' \in [Client -> {None} \cup Seq(AllFates)]
      /\ \A d \in Client : d # c \/ ~calls[n].ret => resultChan'[d] = resultChan[d]
      /\ calls[n].ret => resultChan'[c] = <<v>>
  <2>1. resultChan \in [Client -> {None} \cup Seq(AllFates)]
    BY <1>0 DEF TaskTypes
  <2> QED BY <1>1, <1>3, <1>v, <2>1
<1>10. TaskTypes'
  <2>1. \A d \in Client : resultChan'[d] = None \/ resultChan'[d] \in Seq(AllFates)
    BY <1>9
  <2> QED BY <1>0, <1>1, <1>6, <1>9, <2>1 DEF TaskTypes, TaskTypeOK, Places
<1>11. ClientsInv'
  <2> SUFFICES ASSUME NEW d \in Client
               PROVE  /\ resultChan'[d] \notin {None, <<>>} =>
                             /\ pc[d] = "get" /\ Tail(resultChan'[d]) = <<>>
                             /\ Outcome(cur[d], Head(resultChan[d]))'
                      /\ pc[d] = "send" => resultChan'[d] = resultChan[d]
    BY <1>0, <1>1, <1>7 DEF ClientsInv
  <2>1. CASE d = c /\ calls[n].ret
    <3>1. Outcome(cur[d], Head(resultChan[d]))'
      BY <1>1, <1>2, <1>v, <1>4, <1>7, <1>9, <2>1 DEF Outcome
    <3> QED BY <1>4, <1>v, <1>9, <2>1, <3>1
  <2>2. CASE d # c \/ ~calls[n].ret
    BY <1>0, <1>1, <1>7, <1>9, <2>2 DEF ClientsInv, Outcome
  <2> QED BY <2>1, <2>2
<1>12. \A q : Held(q)' => Held(q) /\ q # n
  <2> SUFFICES ASSUME NEW q, Held(q)' PROVE Held(q) /\ q # n
    OBVIOUS
  <2>1. CASE On(redisTask, q)
    BY <1>0, <1>2, <2>1 DEF RoutersInv, Held, n
  <2>2. CASE \E s \in Router : Busy(s)' /\ cur'[s] = q
    <3>1. PICK s \in Router : Busy(s)' /\ cur'[s] = q
      BY <2>2
    <3>2. s # r /\ Busy(s) /\ cur[s] = q
      BY <1>6, <1>8, <3>1 DEF Busy
    <3> QED BY <1>0, <1>2, <3>2 DEF RoutersInv, Held, n
  <2> QED BY <1>1, <2>1, <2>2 DEF Held
<1>13. RoutersInv'
  <2>1. \A s \in Router : Busy(s)' => s # r /\ Busy(s)
    BY <1>6, <1>8 DEF Busy
  <2>2. ASSUME NEW s \in Router
        PROVE  /\ pc'[s] \in {"take", "key", "conn", "do", "answer"}
               /\ pc'[s] = "answer" => Outcome(cur[s], calls[cur[s]].fate)'
               /\ Busy(s)' => ~On(redisTask', cur'[s])
    <3>1. CASE s = r
      BY <1>6, <2>1, <3>1
    <3>2. CASE s # r
      BY <1>0, <1>1, <1>8, <3>2 DEF RoutersInv, Outcome, Busy
    <3> QED BY <3>1, <3>2
  <2> QED BY <1>0, <1>8, <2>1, <2>2 DEF RoutersInv
<1>14. WaitsInv'
  <2>1. ASSUME NEW q, Held(q), q # n, calls[q].ret
        PROVE  /\ cur'[calls[q].by] = q /\ pc'[calls[q].by] = "get"
               /\ resultChan'[calls[q].by] = <<>>
    <3>1. /\ q \in 1..Len(calls) /\ cur[calls[q].by] = q /\ pc[calls[q].by] = "get"
          /\ resultChan[calls[q].by] = <<>>
      BY <1>0, <2>1 DEF WaitsInv
    <3>2. calls \in Seq(CallRec)
      BY <1>0 DEF TaskTypes, TaskTypeOK, CallRec
    <3>3. calls[q] \in CallRec
      BY <3>1, <3>2, ElementOfSeq
    <3>4. calls[q].by \in Client
      BY <3>3 DEF CallRec
    <3>5. calls[q].by # c \/ ~calls[n].ret
      BY <1>4, <2>1, <3>1
    <3> QED BY <1>7, <1>9, <3>1, <3>4, <3>5
  <2> QED BY <1>0, <1>1, <1>7, <1>12, <2>1 DEF WaitsInv
<1>15. GotInv'
  BY <1>0, <1>1 DEF GotInv, Outcome
<1>16. TasksInOrder'
  BY <1>0, <1>1, <1>6, <1>8 DEF TasksInOrder
<1>17. PoolInv'
  <2>1. pc \in [Proc -> Places]
    BY <1>0 DEF TaskTypes, TaskTypeOK, Places
  <2> QED BY <1>0, <1>1, <1>5, <2>1, PoolKeeps
<1> QED BY <1>0, <1>1, <1>10, <1>11, <1>13, <1>14, <1>15, <1>16, <1>17 DEF TaskIInv

\* A step of the task channel.
LEMMA TaskStep == TaskIInv /\ [TaskNext]_taskVars => TaskIInv'
<1> SUFFICES ASSUME TaskIInv, [TaskNext]_taskVars PROVE TaskIInv'
  OBVIOUS
<1>1. ASSUME NEW c \in Client, NEW m \in Mix, NEW ret \in BOOLEAN, Call(c, m[1], m[2], ret)
      PROVE  TaskIInv'
  <2>1. m[1] \in AllOps /\ m[2] \in AllFates
    BY TaskAssumption
  <2> QED BY <1>1, <2>1, CallStep
<1>2. ASSUME NEW c \in Client, NewRetError(c) \/ ClientStep(c) PROVE TaskIInv'
  BY <1>2, ResultStep, SendStep, OperationStep DEF ClientStep, Proc
<1>3. ASSUME NEW r \in Router, RouterStep(r) PROVE TaskIInv'
  BY <1>3, RouterTakes, AnswerStep, OperationStep DEF RouterStep, Proc
<1>4. CASE UNCHANGED taskVars
  BY <1>4 DEF taskVars, TaskIInv, TaskTypes, TaskTypeOK, ClientsInv, RoutersInv, WaitsInv, GotInv,
              TasksInOrder, PoolInv, Doing, Held, Busy, Outcome
<1> QED BY <1>1, <1>2, <1>3, <1>4 DEF TaskNext

\* Get returns the outcome of its own call, the commands of a client keep their
\* order under one router, and task channel and pool keep their bounds (GoTask,
\* RunAnsyTask, RetError.Get and getConn of sysmodule/RedisModule.go), whatever
\* the clients, routers, capacities, operations and failures.
THEOREM TaskSafe == TaskSpec => []TaskInv
<1>1. TaskIInv => TaskInv
  <2> SUFFICES ASSUME TaskIInv PROVE TaskInv
    OBVIOUS
  <2>0. TaskTypes /\ GotInv /\ TasksInOrder /\ TaskTypeOK /\ WaitsInv
    BY DEF TaskIInv, TaskTypes
  <2>1. DOMAIN executed = 1..Len(executed)
    BY <2>0, LenProperties DEF TaskTypeOK
  <2>2. GetIsOwn
    BY <2>0, <2>1 DEF GotInv, GetIsOwn, Outcome, On, Err
  <2>3. QueueOrder
    <3> SUFFICES ASSUME Cardinality(Router) = 1,
                        NEW i \in 1..Len(executed), NEW j \in 1..Len(executed), i < j,
                        SameQueue(calls, executed[i], executed[j])
                 PROVE  executed[i] < executed[j]
      BY <2>1 DEF QueueOrder, SameQueue
    <3>1. \E r : Router = {r}
      BY FS_Singleton, TaskAssumption
    <3>2. \A r, s \in Router : r = s
      BY <3>1
    <3> QED BY <2>0, <3>2 DEF TasksInOrder
  <2> QED BY <2>0, <2>2, <2>3 DEF TaskInv
<1> QED BY TaskInitInv, TaskStep, <1>1, PTL DEF TaskSpec

-----------------------------------------------------------------------------
(***************************************************************************)
(* The commands of Redis.  What a session has sent and has yet to send are *)
(* the two parts of what its operation sends, so a transaction changes all *)
(* its keys or none; what an operation was told is true of a content that  *)
(* the server had; and what one push put on the list stays one block.      *)
(***************************************************************************)
CommandNames == {"MULTI", "EXEC", "SET", "GET", "DEL", "HSET", "HDEL", "HINCRBY", "EXPIRE", "PUSH",
                 "LTRIM", "POP", "BPOP", "RPOP", "READ"}
Command == [name : CommandNames, keys : Seq(Key)]

\* All that operation i sends.
Script(i) == Commands(kind[i], keys[i])

\* w is the end of s, and q the part before it but for the first of s.
EndOf(s, w) ==
    /\ 1 <= Len(w) /\ Len(w) <= Len(s)
    /\ \A j \in 1..Len(w) : w[j] = s[Len(s) - Len(w) + j]
Between(s, q, w) == Len(q) + Len(w) + 1 = Len(s) /\ \A j \in 1..Len(q) : q[j] = s[j + 1]

\* An operation is run by one session.
OneSession == \A p, q \in Session : curOp[p] = curOp[q] /\ curOp[p] # NoOp => p = q

\* A session without an operation has sent nothing; with one, what is on its
\* wire is the end of the script, and what the server queues is before that.
ScriptInv ==
    /\ \A p \in Session : curOp[p] = NoOp => ~multi[p] /\ queue[p] = <<>>
    /\ \A p \in Session : curOp[p] # NoOp =>
           LET s == Script(curOp[p])
           IN  /\ kind[curOp[p]] # NoOp /\ EndOf(s, wire[p])
               /\ ~multi[p] => Len(wire[p]) = Len(s) /\ queue[p] = <<>>
               /\ multi[p] => Between(s, queue[p], wire[p])
    /\ OneSession

\* What operations were told was true of a content the server had, and those
\* that have not begun were told nothing.
ToldInv ==
    /\ <<db, list>> \in past
    /\ \A i \in OpId : \E m \in past : TrueOf(kind[i], keys[i], res[i], m)
    /\ \A i \in OpId : kind[i] = NoOp => res[i] = Pending

\* The values that i pushed to l are those from lo to hi, and they are the values
\* from lo + d to hi + d of o.
BlockAt(l, i, o, lo, hi, d) ==
    /\ \A j \in 1..Len(l) : l[j][1] = i <=> lo <= j /\ j <= hi
    /\ \A j \in 1..Len(l) : l[j][1] = i => j + d \in 1..Len(o) /\ l[j][2] = o[j + d]
Block(l, i, ks) == \E o \in {ks, Reverse(ks)}, lo, hi, d \in Int : BlockAt(l, i, o, lo, hi, d)

\* An operation has pushed before it ends and not before it begins.
ListInv ==
    /\ \A i \in OpId : Block(list, i, keys[i])
    /\ \A j \in 1..Len(list) :
           kind[list[j][1]] # NoOp /\ \A p \in Session : curOp[p] # list[j][1]

\* What the keys of a table hold.
Value == OpId \cup {Absent, Other}
Tables ==
    {d \in [{"string", "hash"} -> [Key -> Value]] : \A f \in Key : d["hash"][f] # Other}

DataTypes ==
    /\ kind \in [OpId -> AllDataOps \cup {NoOp}] /\ keys \in [OpId -> Seq(Key)]
    /\ curOp \in [Session -> OpId \cup {NoOp}] /\ wire \in [Session -> Seq(Command)]
    /\ multi \in [Session -> BOOLEAN] /\ queue \in [Session -> Seq(Command)]
    /\ db \in Tables
    /\ ttl \subseteq Key /\ \A k \in ttl : db["string"][k] # Absent
    /\ list \in Seq(OpId \X Key) /\ applied \subseteq OpId
    /\ res = [i \in OpId |-> res[i]] /\ \A i \in OpId : res[i].err \in {"pending", "err", "nil"}

DataIInv ==
    /\ DataTypes /\ keys \in [OpId -> KeyLists]
    /\ ScriptInv /\ ToldInv /\ ListInv /\ NilIsApplied

\* The keys that an operation is given are a sequence, and may be none.
LEMMA KeyListsAreSeqs == KeyLists \subseteq Seq(Key) /\ <<>> \in KeyLists /\ Maps \subseteq KeyLists
<1>1. ASSUME NEW ks \in KeyLists PROVE ks \in Seq(Key)
  <2>1. PICK n \in 0..MaxKeys : ks \in [1..n -> Key]
    BY DEF KeyLists, SeqOf
  <2>2. n \in Nat
    OBVIOUS
  <2> QED BY <2>1, <2>2, SeqDef
<1>2. <<>> \in KeyLists
  <2>1. 0 \in 0..MaxKeys /\ 1..0 = {} /\ <<>> \in [1..0 -> Key]
    BY DataAssumption
  <2> QED BY <2>1 DEF KeyLists, SeqOf
<1> QED BY <1>1, <1>2 DEF Maps

\* Reverse, element by element.
LEMMA ReverseIs ==
    ASSUME NEW S, NEW s \in Seq(S)
    PROVE  /\ Reverse(s) \in Seq(S) /\ Len(Reverse(s)) = Len(s) /\ Len(s) \in Nat
           /\ \A j \in 1..Len(s) : Reverse(s)[j] = s[Len(s) - j + 1]
<1>1. Len(s) \in Nat
  BY LenProperties
<1>2. \A j \in 1..Len(s) : (Len(s) - j) + 1 \in 1..Len(s)
  BY <1>1
<1>3. \A j \in 1..Len(s) : s[(Len(s) - j) + 1] \in S
  BY <1>2, ElementOfSeq
<1>4. Reverse(s) \in [1..Len(s) -> S]
  BY <1>3 DEF Reverse
<1>5. \A j \in 1..Len(s) : Reverse(s)[j] = s[(Len(s) - j) + 1]
  BY DEF Reverse
<1>6. Reverse(s) \in Seq(S)
  BY <1>1, <1>4, SeqDef
<1>7. DOMAIN Reverse(s) = 1..Len(s)
  BY <1>4
<1>8. Len(Reverse(s)) = Len(s)
  BY <1>1, <1>6, <1>7, LenProperties
<1> QED BY <1>1, <1>5, <1>6, <1>8
\* A part of a list keeps blocks together.
LEMMA BlockOfPart ==
    ASSUME NEW E, NEW l \in Seq(E), NEW i, NEW ks, Block(l, i, ks),
           NEW a \in Nat \ {0}, NEW b \in Int, b <= Len(l)
    PROVE  /\ SubSeq(l, a, b) \in Seq(E) /\ Block(SubSeq(l, a, b), i, ks)
           /\ \A j \in 1..Len(SubSeq(l, a, b)) : \E k \in 1..Len(l) : SubSeq(l, a, b)[j] = l[k]
<1> DEFINE t == SubSeq(l, a, b)
<1>0. Len(l) \in Nat
  BY LenProperties
<1>1. \A j \in a..b : j \in 1..Len(l) /\ l[j] \in E
  BY <1>0, ElementOfSeq
<1>2. /\ t \in Seq(E) /\ Len(t) = IF a <= b THEN b - a + 1 ELSE 0
      /\ \A j \in 1..b - a + 1 : t[j] = l[a + j - 1]
  BY <1>1, SubSeqProperties
<1> HIDE DEF t
<1>3. ASSUME NEW j \in 1..Len(t) PROVE a + j - 1 \in 1..Len(l) /\ t[j] = l[a + j - 1]
  <2>1. a <= b
    BY <1>2, <1>3
  <2>2. j \in 1..b - a + 1
    BY <1>2, <1>3, <2>1
  <2> QED BY <1>0, <1>2, <2>2
<1>4. PICK o \in {ks, Reverse(ks)}, lo \in Int, hi \in Int, d \in Int : BlockAt(l, i, o, lo, hi, d)
  BY DEF Block
<1>5. BlockAt(t, i, o, lo - a + 1, hi - a + 1, d + a - 1)
  <2>1. ASSUME NEW j \in 1..Len(t)
        PROVE  /\ t[j][1] = i <=> lo - a + 1 <= j /\ j <= hi - a + 1
               /\ t[j][1] = i => j + (d + a - 1) \in 1..Len(o) /\ t[j][2] = o[j + (d + a - 1)]
    <3> DEFINE k == a + j - 1
    <3>1. k \in 1..Len(l) /\ t[j] = l[k]
      BY <1>3
    <3>2. k + d = j + (d + a - 1) /\ (lo <= k <=> lo - a + 1 <= j) /\ (k <= hi <=> j <= hi - a + 1)
      <4>1. j \in Int
        OBVIOUS
      <4> QED BY <4>1
    <3> HIDE DEF k
    <3> QED BY <1>4, <3>1, <3>2 DEF BlockAt
  <2> QED BY <2>1 DEF BlockAt
<1>6. Block(t, i, ks)
  BY <1>5 DEF Block
<1> QED BY <1>2, <1>3, <1>6 DEF t

\* No value of l was pushed by i.
FreeOf(l, i) == \A j \in 1..Len(l) : l[j][1] # i

\* A block stays one when other values come after it or before it.
LEMMA BlockOfConcat ==
    ASSUME NEW E, NEW x \in Seq(E), NEW y \in Seq(E), NEW i, NEW ks
    PROVE  /\ Block(x, i, ks) /\ FreeOf(y, i) => Block(x \o y, i, ks)
           /\ FreeOf(x, i) /\ Block(y, i, ks) => Block(x \o y, i, ks)
<1> DEFINE t == x \o y
<1>1. /\ Len(x) \in Nat /\ Len(y) \in Nat /\ Len(t) = Len(x) + Len(y)
      /\ \A j \in 1..Len(x) + Len(y) : t[j] = IF j <= Len(x) THEN x[j] ELSE y[j - Len(x)]
  BY LenProperties, ConcatProperties
<1> HIDE DEF t
<1>2. ASSUME NEW j \in 1..Len(t)
      PROVE  \/ j \in 1..Len(x) /\ t[j] = x[j]
             \/ j > Len(x) /\ j - Len(x) \in 1..Len(y) /\ t[j] = y[j - Len(x)]
  BY <1>1
<1>3. ASSUME Block(x, i, ks), FreeOf(y, i) PROVE Block(t, i, ks)
  <2>1. PICK o \in {ks, Reverse(ks)}, lo \in Int, hi \in Int, d \in Int : BlockAt(x, i, o, lo, hi, d)
    BY <1>3 DEF Block
  <2> DEFINE h == IF hi <= Len(x) THEN hi ELSE Len(x)
  <2>2. h \in Int /\ \A j \in 1..Len(x) : j <= h <=> j <= hi
    BY <1>1
  <2>3. \A j \in Int : j > Len(x) => ~(j <= h)
    BY <1>1
  <2> HIDE DEF h
  <2>4. BlockAt(t, i, o, lo, h, d)
    <3>1. ASSUME NEW j \in 1..Len(t)
          PROVE  /\ t[j][1] = i <=> lo <= j /\ j <= h
                 /\ t[j][1] = i => j + d \in 1..Len(o) /\ t[j][2] = o[j + d]
      <4>1. CASE j \in 1..Len(x) /\ t[j] = x[j]
        BY <2>1, <2>2, <4>1 DEF BlockAt
      <4>2. CASE j > Len(x) /\ j - Len(x) \in 1..Len(y) /\ t[j] = y[j - Len(x)]
        <5>1. t[j][1] # i
          BY <1>3, <4>2 DEF FreeOf
        <5>2. ~(j <= h)
          BY <2>3, <4>2
        <5> QED BY <5>1, <5>2
      <4> QED BY <1>2, <4>1, <4>2
    <3> QED BY <3>1 DEF BlockAt
  <2> QED BY <2>2, <2>4 DEF Block
<1>4. ASSUME FreeOf(x, i), Block(y, i, ks) PROVE Block(t, i, ks)
  <2>1. PICK o \in {ks, Reverse(ks)}, lo \in Int, hi \in Int, d \in Int : BlockAt(y, i, o, lo, hi, d)
    BY <1>4 DEF Block
  <2> DEFINE n == Len(x)
             l0 == IF lo >= 1 THEN lo ELSE 1
  <2>2. /\ n \in Int /\ l0 + n \in Int /\ hi + n \in Int /\ d - n \in Int
        /\ \A j \in Int : j > n =>
               /\ (lo <= j - n <=> l0 + n <= j) /\ (j - n <= hi <=> j <= hi + n)
               /\ (j - n) + d = j + (d - n)
        /\ \A j \in 1..n : ~(l0 + n <= j)
    BY <1>1
  <2> HIDE DEF l0, n
  <2>3. BlockAt(t, i, o, l0 + n, hi + n, d - n)
    <3>1. ASSUME NEW j \in 1..Len(t)
          PROVE  /\ t[j][1] = i <=> l0 + n <= j /\ j <= hi + n
                 /\ t[j][1] = i => j + (d - n) \in 1..Len(o) /\ t[j][2] = o[j + (d - n)]
      <4>1. CASE j \in 1..n /\ t[j] = x[j]
        <5>1. t[j][1] # i
          BY <1>4, <4>1 DEF FreeOf, n
        <5>2. ~(l0 + n <= j)
          BY <2>2, <4>1
        <5> QED BY <5>1, <5>2
      <4>2. CASE j > n /\ j - n \in 1..Len(y) /\ t[j] = y[j - n]
        <5> DEFINE k == j - n
        <5>1. /\ k \in 1..Len(y) /\ t[j] = y[k] /\ (lo <= k <=> l0 + n <= j)
              /\ (k <= hi <=> j <= hi + n) /\ k + d = j + (d - n)
          <6>1. j \in Int
            OBVIOUS
          <6> QED BY <2>2, <4>2, <6>1
        <5> HIDE DEF k
        <5> QED BY <2>1, <5>1 DEF BlockAt
      <4> QED BY <1>2, <4>1, <4>2 DEF n
    <3> QED BY <3>1 DEF BlockAt
  <2> QED BY <2>2, <2>3 DEF Block
<1> QED BY <1>3, <1>4 DEF t

\* A block found at a place is a block.
LEMMA BlockIs ==
    ASSUME NEW l, NEW i, NEW ks, NEW o \in {ks, Reverse(ks)},
           NEW lo \in Int, NEW hi \in Int, NEW d \in Int, BlockAt(l, i, o, lo, hi, d)
    PROVE  Block(l, i, ks)
BY DEF Block

\* What operation i pushes, and the list m that l becomes when it does.
ValuesOf(i, ks) == [j \in DOMAIN ks |-> <<i, ks[j]>>]
AfterPush(m, l, i, ks) == m \in {Reverse(ValuesOf(i, ks)) \o l, l \o ValuesOf(i, ks)}

\* A push adds one block and keeps the others.
LEMMA BlockOfPush ==
    ASSUME NEW i \in OpId, NEW ks \in Seq(Key), NEW l \in Seq(OpId \X Key), FreeOf(l, i),
           NEW m, AfterPush(m, l, i, ks)
    PROVE  /\ m \in Seq(OpId \X Key) /\ Block(m, i, ks)
           /\ \A e \in OpId : \A es : e # i /\ Block(l, e, es) => Block(m, e, es)
           /\ \A j \in 1..Len(m) : m[j][1] = i \/ \E k \in 1..Len(l) : m[j] = l[k]
<1> DEFINE vs == ValuesOf(i, ks)
<1>0. vs = [j \in DOMAIN ks |-> <<i, ks[j]>>] /\ m \in {Reverse(vs) \o l, l \o vs}
  BY DEF ValuesOf, AfterPush
<1> HIDE DEF vs
<1>1. Len(ks) \in Nat /\ DOMAIN ks = 1..Len(ks)
  BY LenProperties
<1>2. \A j \in 1..Len(ks) : <<i, ks[j]>> \in OpId \X Key
  BY ElementOfSeq
<1>3. /\ vs \in [1..Len(ks) -> OpId \X Key]
      /\ \A j \in 1..Len(ks) : vs[j] = <<i, ks[j]>> /\ vs[j][1] = i /\ vs[j][2] = ks[j]
  <2>1. vs = [j \in 1..Len(ks) |-> <<i, ks[j]>>]
    BY <1>0, <1>1
  <2>2. vs \in [1..Len(ks) -> OpId \X Key]
    BY <1>2, <2>1
  <2>3. \A j \in 1..Len(ks) : vs[j] = <<i, ks[j]>>
    BY <2>1
  <2>4. <<i, 0>>[1] = i /\ \A x : <<i, x>>[1] = i /\ <<i, x>>[2] = x
    OBVIOUS
  <2> QED BY <2>2, <2>3, <2>4
<1>4. vs \in Seq(OpId \X Key)
  BY <1>1, <1>3, SeqDef
<1>5. Len(vs) = Len(ks)
  BY <1>1, <1>3, <1>4, LenProperties
<1>6. /\ Reverse(vs) \in Seq(OpId \X Key) /\ Len(Reverse(vs)) = Len(ks)
      /\ \A j \in 1..Len(ks) : Reverse(vs)[j] = vs[Len(ks) - j + 1]
  <2>1. /\ Reverse(vs) \in Seq(OpId \X Key) /\ Len(Reverse(vs)) = Len(vs)
        /\ \A j \in 1..Len(vs) : Reverse(vs)[j] = vs[Len(vs) - j + 1]
    BY <1>4, ReverseIs
  <2> QED BY <1>5, <2>1
<1>7. /\ Reverse(ks) \in Seq(Key) /\ Len(Reverse(ks)) = Len(ks)
      /\ \A j \in 1..Len(ks) : Reverse(ks)[j] = ks[Len(ks) - j + 1]
  BY ReverseIs
<1>8. Block(vs, i, ks)
  <2>1. BlockAt(vs, i, ks, 1, Len(vs), 0)
    <3>1. ASSUME NEW j \in 1..Len(vs)
          PROVE  /\ vs[j][1] = i /\ 1 <= j /\ j <= Len(vs)
                 /\ j + 0 \in 1..Len(ks) /\ vs[j][2] = ks[j + 0]
      <4>1. j \in 1..Len(ks) /\ j + 0 = j /\ 1 <= j /\ j <= Len(vs)
        BY <1>1, <1>5
      <4> QED BY <1>3, <4>1
    <3> QED BY <3>1 DEF BlockAt
  <2>2. Len(vs) \in Int
    BY <1>1, <1>5
  <2> QED BY <2>1, <2>2, BlockIs
<1>9. \A j \in 1..Len(ks) : Reverse(vs)[j][1] = i /\ Reverse(vs)[j][2] = Reverse(ks)[j]
  <2> TAKE j \in 1..Len(ks)
  <2>1. Len(ks) - j + 1 \in 1..Len(ks)
    BY <1>1
  <2> QED BY <1>3, <1>6, <1>7, <2>1
<1>10. Block(Reverse(vs), i, ks)
  <2> DEFINE r == Reverse(vs)
             o == Reverse(ks)
  <2>0. /\ Len(r) = Len(ks) /\ Len(o) = Len(ks)
        /\ \A j \in 1..Len(ks) : r[j][1] = i /\ r[j][2] = o[j]
    BY <1>6, <1>7, <1>9
  <2> HIDE DEF r, o
  <2>1. BlockAt(r, i, o, 1, Len(r), 0)
    <3>1. ASSUME NEW j \in 1..Len(r)
          PROVE  /\ r[j][1] = i /\ 1 <= j /\ j <= Len(r)
                 /\ j + 0 \in 1..Len(o) /\ r[j][2] = o[j + 0]
      <4>1. j \in 1..Len(ks) /\ j + 0 = j /\ 1 <= j /\ j <= Len(r)
        BY <1>1, <2>0
      <4> QED BY <2>0, <4>1
    <3> QED BY <3>1 DEF BlockAt
  <2>2. Len(r) \in Int
    BY <1>1, <2>0
  <2>3. o \in {ks, Reverse(ks)}
    BY DEF o
  <2> HIDE DEF o
  <2>4. Block(r, i, ks)
    BY <2>1, <2>2, <2>3, BlockIs
  <2> QED BY <2>4 DEF r
<1>11. /\ \A j \in 1..Len(vs) : vs[j][1] = i
       /\ \A j \in 1..Len(Reverse(vs)) : Reverse(vs)[j][1] = i
  BY <1>3, <1>5, <1>6, <1>9
<1>12. \A e \in OpId : e # i => FreeOf(vs, e) /\ FreeOf(Reverse(vs), e)
  BY <1>11 DEF FreeOf
<1> DEFINE Both(x, y) == /\ Len(x) \in Nat /\ Len(y) \in Nat
                         /\ x \o y \in Seq(OpId \X Key) /\ Len(x \o y) = Len(x) + Len(y)
                         /\ \A j \in 1..Len(x) + Len(y) :
                                (x \o y)[j] = IF j <= Len(x) THEN x[j] ELSE y[j - Len(x)]
<1>13. Both(l, vs) /\ Both(Reverse(vs), l)
  <2>1. ASSUME NEW x \in Seq(OpId \X Key), NEW y \in Seq(OpId \X Key) PROVE Both(x, y)
    BY LenProperties, ConcatProperties
  <2>2. l \in Seq(OpId \X Key) /\ vs \in Seq(OpId \X Key) /\ Reverse(vs) \in Seq(OpId \X Key)
    BY <1>4, <1>6
  <2> HIDE DEF Both
  <2> QED BY <2>1, <2>2
<1>14. CASE m = l \o vs
  <2>1. m \in Seq(OpId \X Key)
    BY <1>13, <1>14
  <2>2. Block(m, i, ks)
    BY <1>4, <1>8, <1>14, BlockOfConcat
  <2>3. \A e \in OpId : \A es : e # i /\ Block(l, e, es) => Block(m, e, es)
    BY <1>4, <1>12, <1>14, BlockOfConcat
  <2>4. ASSUME NEW j \in 1..Len(m) PROVE m[j][1] = i \/ \E k \in 1..Len(l) : m[j] = l[k]
    <3>1. CASE j <= Len(l)
      BY <1>13, <1>14, <3>1
    <3>2. CASE ~(j <= Len(l))
      <4>1. m[j] = vs[j - Len(l)] /\ j - Len(l) \in 1..Len(vs)
        BY <1>13, <1>14, <3>2
      <4> QED BY <1>11, <4>1
    <3> QED BY <3>1, <3>2
  <2> QED BY <2>1, <2>2, <2>3, <2>4
<1>15. CASE m = Reverse(vs) \o l
  <2>1. m \in Seq(OpId \X Key)
    BY <1>13, <1>15
  <2>2. Block(m, i, ks)
    BY <1>6, <1>10, <1>15, BlockOfConcat
  <2>3. \A e \in OpId : \A es : e # i /\ Block(l, e, es) => Block(m, e, es)
    BY <1>6, <1>12, <1>15, BlockOfConcat
  <2>4. ASSUME NEW j \in 1..Len(m) PROVE m[j][1] = i \/ \E k \in 1..Len(l) : m[j] = l[k]
    <3>1. CASE j <= Len(Reverse(vs))
      <4>1. m[j] = Reverse(vs)[j] /\ j \in 1..Len(Reverse(vs))
        BY <1>13, <1>15, <3>1
      <4> QED BY <1>11, <4>1
    <3>2. CASE ~(j <= Len(Reverse(vs)))
      <4>1. m[j] = l[j - Len(Reverse(vs))] /\ j - Len(Reverse(vs)) \in 1..Len(l)
        BY <1>13, <1>15, <3>2
      <4> QED BY <4>1
    <3> QED BY <3>1, <3>2
  <2> QED BY <2>1, <2>2, <2>3, <2>4
<1> QED BY <1>0, <1>14, <1>15
\* The operations that send a transaction, and the name of the commands that an
\* operation sends.
Much == {"setMuch", "getMuch", "getMuchJSON", "delMuch", "setMuchHash"}
NameOf(op) ==
    CASE op \in {"setMuch", "setString", "setStringJSON"} -> "SET"
      [] op \in {"getMuch", "getMuchJSON"} -> "GET"
      [] op \in {"delMuch", "delString"} -> "DEL"
      [] op \in {"setMuchHash", "setHash"} -> "HSET"
      [] op = "delMuchHash" -> "HDEL"
      [] op \in {"expire", "hincrby", "setList", "setListJSON", "ltrim", "listPop", "listPopBlock",
                 "rpop"} -> Single[op]
      [] OTHER -> "READ"

\* An operation sends one command, or the commands of a transaction.
LEMMA CommandsAre ==
    ASSUME NEW op \in AllDataOps, NEW ks
    PROVE  /\ NameOf(op) \in CommandNames \ {"MULTI", "EXEC"}
           /\ Commands(op, ks) = IF op \in Much THEN Transaction(NameOf(op), ks)
                                 ELSE <<Cmd(NameOf(op), ks)>>
BY DEF AllDataOps, StringOps, HashOps, ListOps, NameOf, Much, CommandNames, Commands, Single

\* The commands of a transaction.
LEMMA TransactionIs ==
    ASSUME NEW n \in CommandNames, NEW ks \in Seq(Key)
    PROVE  /\ Transaction(n, ks) \in Seq(Command) /\ Len(Transaction(n, ks)) = Len(ks) + 2
           /\ Transaction(n, ks)[1].name = "MULTI"
           /\ Transaction(n, ks)[Len(ks) + 2].name = "EXEC"
           /\ \A j \in 1..Len(ks) : Transaction(n, ks)[j + 1] = Cmd(n, <<ks[j]>>)
<1> DEFINE b == [j \in 1..Len(ks) |-> Cmd(n, <<ks[j]>>)]
           x == <<Cmd("MULTI", <<>>)>>
           y == <<Cmd("EXEC", <<>>)>>
<1>1. Len(ks) \in Nat
  BY LenProperties
<1>2. Cmd("MULTI", <<>>) \in Command /\ Cmd("EXEC", <<>>) \in Command
  BY DEF Cmd, Command, CommandNames
<1>3. \A j \in 1..Len(ks) : Cmd(n, <<ks[j]>>) \in Command
  <2> TAKE j \in 1..Len(ks)
  <2>1. ks[j] \in Key
    BY ElementOfSeq
  <2> QED BY <2>1 DEF Cmd, Command
<1>4. b \in Seq(Command) /\ Len(b) = Len(ks)
  BY <1>1, <1>3, SeqDef, LenProperties
<1>5. \A j \in 1..Len(ks) : b[j] = Cmd(n, <<ks[j]>>)
  OBVIOUS
<1>0. ASSUME NEW c \in Command PROVE <<c>> \in Seq(Command) /\ Len(<<c>>) = 1 /\ <<c>>[1] = c
  OBVIOUS
<1>6. x \in Seq(Command) /\ Len(x) = 1 /\ x[1] = Cmd("MULTI", <<>>)
  BY <1>0, <1>2
<1>7. y \in Seq(Command) /\ Len(y) = 1 /\ y[1] = Cmd("EXEC", <<>>)
  BY <1>0, <1>2
<1>8. Transaction(n, ks) = (x \o b) \o y
  BY DEF Transaction
<1> HIDE DEF b, x, y
<1>9. /\ x \o b \in Seq(Command) /\ Len(x \o b) = 1 + Len(ks)
      /\ \A j \in 1..1 + Len(ks) : (x \o b)[j] = IF j <= 1 THEN x[j] ELSE b[j - 1]
  <2>1. /\ x \o b \in Seq(Command) /\ Len(x \o b) = Len(x) + Len(b)
        /\ \A j \in 1..Len(x) + Len(b) :
               (x \o b)[j] = IF j <= Len(x) THEN x[j] ELSE b[j - Len(x)]
    BY <1>4, <1>6, ConcatProperties
  <2> QED BY <1>4, <1>6, <2>1
<1> DEFINE z == x \o b
<1> HIDE DEF z
<1>10. /\ z \in Seq(Command) /\ Len(z) = 1 + Len(ks)
       /\ \A j \in 1..1 + Len(ks) : z[j] = IF j <= 1 THEN x[j] ELSE b[j - 1]
  BY <1>9 DEF z
<1>11. /\ z \o y \in Seq(Command) /\ Len(z \o y) = Len(z) + 1
       /\ \A j \in 1..Len(z) + 1 : (z \o y)[j] = IF j <= Len(z) THEN z[j] ELSE y[j - Len(z)]
  <2>1. /\ z \o y \in Seq(Command) /\ Len(z \o y) = Len(z) + Len(y)
        /\ \A j \in 1..Len(z) + Len(y) :
               (z \o y)[j] = IF j <= Len(z) THEN z[j] ELSE y[j - Len(z)]
    BY <1>7, <1>10, ConcatProperties
  <2> QED BY <1>7, <2>1
<1>12. Transaction(n, ks) = z \o y
  BY <1>8 DEF z
<1>13. z \o y \in Seq(Command) /\ Len(z \o y) = Len(ks) + 2
  BY <1>1, <1>10, <1>11
<1>14. (z \o y)[1] = Cmd("MULTI", <<>>)
  BY <1>1, <1>6, <1>10, <1>11
<1>15. (z \o y)[Len(ks) + 2] = Cmd("EXEC", <<>>)
  BY <1>1, <1>7, <1>10, <1>11
<1>16. \A j \in 1..Len(ks) : (z \o y)[j + 1] = Cmd(n, <<ks[j]>>)
  <2> TAKE j \in 1..Len(ks)
  <2>1. (z \o y)[j + 1] = z[j + 1]
    BY <1>1, <1>10, <1>11
  <2>2. z[j + 1] = b[j]
    BY <1>1, <1>10
  <2> QED BY <1>5, <2>1, <2>2
<1>17. Cmd("MULTI", <<>>).name = "MULTI" /\ Cmd("EXEC", <<>>).name = "EXEC"
  BY DEF Cmd
<1> QED BY <1>12, <1>13, <1>14, <1>15, <1>16, <1>17

\* All that an operation sends, by its kind.
LEMMA ScriptIs ==
    ASSUME NEW op \in AllDataOps, NEW ks \in Seq(Key)
    PROVE  LET s == Commands(op, ks) IN
           /\ s \in Seq(Command) /\ Len(s) \in Nat /\ 1 <= Len(s)
           /\ op \notin Much => s = <<Cmd(NameOf(op), ks)>> /\ Len(s) = 1
           /\ op \in Much =>
                /\ Len(s) = Len(ks) + 2 /\ s[1].name = "MULTI" /\ s[Len(s)].name = "EXEC"
                /\ \A j \in 1..Len(ks) : s[j + 1] = Cmd(NameOf(op), <<ks[j]>>)
<1>1. Len(ks) \in Nat
  BY LenProperties
<1>2. CASE op \in Much
  <2>1. Commands(op, ks) = Transaction(NameOf(op), ks) /\ NameOf(op) \in CommandNames
    BY <1>2, CommandsAre
  <2> QED BY <1>1, <1>2, <2>1, TransactionIs
<1>3. CASE op \notin Much
  <2>1. Commands(op, ks) = <<Cmd(NameOf(op), ks)>> /\ NameOf(op) \in CommandNames
    BY <1>3, CommandsAre
  <2>2. Cmd(NameOf(op), ks) \in Command
    BY <2>1 DEF Cmd, Command
  <2> QED BY <1>3, <2>1, <2>2
<1> QED BY <1>2, <1>3
\* The operation that a session runs, and what it was given.
LEMMA Running ==
    ASSUME DataIInv, NEW p \in Session, curOp[p] # NoOp
    PROVE  /\ curOp[p] \in OpId /\ kind[curOp[p]] \in AllDataOps
           /\ keys[curOp[p]] \in Seq(Key) /\ keys[curOp[p]] \in KeyLists
           /\ wire[p] \in Seq(Command) /\ Len(wire[p]) \in Nat /\ Head(wire[p]) = wire[p][1]
           /\ queue[p] \in Seq(Command) /\ Len(queue[p]) \in Nat
           /\ Len(keys[curOp[p]]) \in Nat /\ NoOp \notin OpId
           /\ Script(curOp[p]) \in Seq(Command) /\ Len(Script(curOp[p])) \in Nat
<1>1. curOp[p] \in OpId /\ NoOp \notin OpId
  BY DataAssumption DEF DataIInv, DataTypes, OpId
<1>2. kind[curOp[p]] \in AllDataOps
  BY <1>1 DEF DataIInv, DataTypes, ScriptInv
<1>3. keys[curOp[p]] \in Seq(Key) /\ keys[curOp[p]] \in KeyLists
  BY <1>1 DEF DataIInv, DataTypes
<1>4. wire[p] \in Seq(Command) /\ queue[p] \in Seq(Command)
  BY DEF DataIInv, DataTypes
<1>5. Len(wire[p]) \in Nat /\ Len(queue[p]) \in Nat /\ Len(keys[curOp[p]]) \in Nat
  BY <1>3, <1>4, LenProperties
<1>6. Script(curOp[p]) \in Seq(Command) /\ Len(Script(curOp[p])) \in Nat
  BY <1>2, <1>3, ScriptIs DEF Script
<1>7. Head(wire[p]) = wire[p][1]
  BY <1>4 DEF Head
<1> QED BY <1>1, <1>2, <1>3, <1>4, <1>5, <1>6, <1>7

\* Outside a transaction the next command is the first that the operation sends:
\* its only one, or MULTI.
LEMMA FirstCommand ==
    ASSUME DataIInv, NEW p \in Session, curOp[p] # NoOp, ~multi[p]
    PROVE  /\ Len(wire[p]) = Len(Script(curOp[p])) /\ queue[p] = <<>>
           /\ Head(wire[p]) = Script(curOp[p])[1]
           /\ kind[curOp[p]] \in Much => Head(wire[p]).name = "MULTI" /\ Len(wire[p]) > 1
           /\ kind[curOp[p]] \notin Much =>
                /\ Len(wire[p]) = 1
                /\ Head(wire[p]) = Cmd(NameOf(kind[curOp[p]]), keys[curOp[p]])
<1> DEFINE i == curOp[p]
           s == Script(i)
           w == Len(wire[p])
<1>1. /\ kind[i] \in AllDataOps /\ keys[i] \in Seq(Key) /\ Head(wire[p]) = wire[p][1]
      /\ Len(s) \in Nat /\ w \in Nat /\ Len(keys[i]) \in Nat
  BY Running
<1>2. /\ 1 <= w /\ w = Len(s) /\ queue[p] = <<>>
      /\ \A j \in 1..w : wire[p][j] = s[Len(s) - w + j]
  BY DEF DataIInv, ScriptInv, EndOf
<1>3. wire[p][1] = s[1]
  <2>1. 1 \in 1..w /\ Len(s) - w + 1 = 1
    BY <1>1, <1>2
  <2> QED BY <1>2, <2>1
<1>4. CASE kind[i] \in Much
  <2>1. s[1].name = "MULTI" /\ Len(s) = Len(keys[i]) + 2
    BY <1>1, <1>4, ScriptIs DEF Script
  <2> QED BY <1>1, <1>2, <1>3, <1>4, <2>1
<1>5. CASE kind[i] \notin Much
  <2>1. s = <<Cmd(NameOf(kind[i]), keys[i])>> /\ Len(s) = 1
    BY <1>1, <1>5, ScriptIs DEF Script
  <2>2. s[1] = Cmd(NameOf(kind[i]), keys[i])
    BY <2>1
  <2> QED BY <1>1, <1>2, <1>3, <1>5, <2>1, <2>2
<1> QED BY <1>4, <1>5

\* A command that is not MULTI, outside a transaction, is the only one.
LEMMA OnlyCommand ==
    ASSUME DataIInv, NEW p \in Session, NEW n, At(p, n), n # "MULTI"
    PROVE  /\ curOp[p] # NoOp /\ Len(wire[p]) = 1 /\ kind[curOp[p]] \in AllDataOps \ Much
           /\ Head(wire[p]) = Cmd(n, keys[curOp[p]]) /\ NameOf(kind[curOp[p]]) = n
<1>1. curOp[p] # NoOp /\ ~multi[p] /\ Head(wire[p]).name = n
  BY DEF At
<1>2. kind[curOp[p]] \notin Much
  BY <1>1, FirstCommand
<1>3. Len(wire[p]) = 1 /\ Head(wire[p]) = Cmd(NameOf(kind[curOp[p]]), keys[curOp[p]])
  BY <1>1, <1>2, FirstCommand
<1>4. NameOf(kind[curOp[p]]) = n
  BY <1>1, <1>3 DEF Cmd
<1> QED BY <1>1, <1>2, <1>3, <1>4, Running

\* In a transaction the server has the commands up to the next one, and EXEC is
\* the last.
LEMMA InTransaction ==
    ASSUME DataIInv, NEW p \in Session, curOp[p] # NoOp, multi[p]
    PROVE  LET i == curOp[p]
               n == NameOf(kind[i])
               m == Len(queue[p])
           IN  /\ kind[i] \in Much /\ m <= Len(keys[i])
               /\ Len(wire[p]) = Len(keys[i]) - m + 1
               /\ \A j \in 1..m : queue[p][j] = Cmd(n, <<keys[i][j]>>)
               /\ Head(wire[p]).name = "EXEC" => m = Len(keys[i])
               /\ Head(wire[p]).name # "EXEC" =>
                    m < Len(keys[i]) /\ Head(wire[p]) = Cmd(n, <<keys[i][m + 1]>>)
               /\ Head(wire[p]) = Script(i)[m + 2]
<1> DEFINE i == curOp[p]
           s == Script(i)
           w == Len(wire[p])
           n == NameOf(kind[i])
           m == Len(queue[p])
<1>1. /\ kind[i] \in AllDataOps /\ keys[i] \in Seq(Key) /\ Head(wire[p]) = wire[p][1]
      /\ Len(s) \in Nat /\ w \in Nat /\ Len(keys[i]) \in Nat /\ m \in Nat
  BY Running
<1>2. /\ \A j \in 1..w : wire[p][j] = s[Len(s) - w + j]
      /\ \A j \in 1..m : queue[p][j] = s[j + 1]
  BY DEF DataIInv, ScriptInv, EndOf, Between
<1>0. 1 <= w /\ m + w + 1 = Len(s)
  BY DEF DataIInv, ScriptInv, EndOf, Between
<1> DEFINE ls == Len(s)
           lk == Len(keys[i])
<1>10. ls \in Nat /\ lk \in Nat /\ m \in Nat /\ w \in Nat /\ 1 <= w /\ m + w + 1 = ls
  BY <1>0, <1>1
<1> HIDE DEF m, w, ls, lk
<1>3. kind[i] \in Much
  <2>1. ls # 1
    BY <1>10
  <2> QED BY <1>1, <2>1, ScriptIs DEF Script, ls
<1>4. /\ ls = lk + 2 /\ s[ls].name = "EXEC"
      /\ \A j \in 1..lk : s[j + 1] = Cmd(n, <<keys[i][j]>>)
  BY <1>1, <1>3, ScriptIs DEF Script, ls, lk
<1>5. m <= lk /\ w = lk - m + 1
  BY <1>10, <1>4
<1>6. \A j \in 1..m : queue[p][j] = Cmd(n, <<keys[i][j]>>)
  <2>1. \A j \in 1..m : j \in 1..lk
    BY <1>5, <1>10
  <2> QED BY <1>2, <1>4, <2>1 DEF m
<1>7. Head(wire[p]) = s[m + 2]
  <2>1. 1 \in 1..w /\ ls - w + 1 = m + 2
    BY <1>10
  <2> QED BY <1>1, <1>2, <2>1 DEF w, ls
<1>8. CASE m = lk
  <2>1. Head(wire[p]).name = "EXEC"
    BY <1>4, <1>7, <1>8
  <2> QED BY <1>3, <1>5, <1>6, <1>7, <1>8, <2>1 DEF m, w, lk
<1>9. CASE m < lk
  <2>1. m + 1 \in 1..lk /\ (m + 1) + 1 = m + 2
    BY <1>10, <1>9
  <2>2. Head(wire[p]) = Cmd(n, <<keys[i][m + 1]>>)
    BY <1>4, <1>7, <2>1
  <2>3. n # "EXEC" /\ Head(wire[p]).name = n
    BY <1>1, <2>2, CommandsAre DEF Cmd
  <2> QED BY <1>3, <1>5, <1>6, <1>7, <1>9, <2>2, <2>3 DEF m, w, lk
<1>11. m = lk \/ m < lk
  BY <1>5, <1>10
<1> QED BY <1>8, <1>9, <1>11
\* What the step of a command may do to what the server holds: the pushes of
\* every operation stay together, and the list gets values of this one at most.
Effect(p) ==
    /\ db' \in Tables
    /\ ttl' \subseteq Key /\ \A k \in ttl' : db'["string"][k] # Absent
    /\ list' \in Seq(OpId \X Key) /\ applied \subseteq applied' /\ applied' \subseteq OpId
    /\ refused \subseteq refused' /\ past \subseteq past' /\ <<db', list'>> \in past'
    /\ \A i \in OpId : Block(list', i, keys[i])
    /\ \A j \in 1..Len(list') :
           list'[j][1] = curOp[p] \/ \E k \in 1..Len(list) : list'[j] = list[k]

\* The operation of p writes all its keys.
WritesAll(p) ==
    LET i == curOp[p]
        new == IF kind[i] \in {"delString", "delMuch", "delMuchHash"} THEN Absent ELSE i
    IN  /\ i # NoOp
        /\ db' = [db EXCEPT ![Table(kind[i])] =
                     [k \in Key |-> IF k \in Range(keys[i]) THEN new ELSE @[k]]]

\* Commands cs name one thing to do, n, with exactly the keys ks.
OneName(cs, n, ks) == \A names, k : Names(cs, names, k) <=> n \in names /\ k \in Range(ks)

\* A single command.
LEMMA NamesOfOne ==
    ASSUME NEW n, NEW ks PROVE OneName(<<Cmd(n, ks)>>, n, ks)
<1>1. Range(<<Cmd(n, ks)>>) = {Cmd(n, ks)}
  BY DEF Range
<1>2. Cmd(n, ks).name = n /\ Cmd(n, ks).keys = ks
  BY DEF Cmd
<1> QED BY <1>1, <1>2 DEF OneName, Names

\* The commands of a transaction.
LEMMA NamesOfMany ==
    ASSUME NEW n, NEW ks \in Seq(Key), NEW cs \in Seq(Command), Len(cs) = Len(ks),
           \A j \in 1..Len(cs) : cs[j] = Cmd(n, <<ks[j]>>)
    PROVE  OneName(cs, n, ks)
<1>1. Range(cs) = {cs[j] : j \in 1..Len(cs)} /\ Range(ks) = {ks[j] : j \in 1..Len(ks)}
  BY LenProperties DEF Range
<1>2. ASSUME NEW k PROVE Range(<<k>>) = {k}
  BY DEF Range
<1>3. ASSUME NEW j \in 1..Len(cs)
      PROVE  cs[j].name = n /\ Range(cs[j].keys) = {ks[j]} /\ cs[j] \in Range(cs)
  <2>0. cs[j] = Cmd(n, <<ks[j]>>) /\ \A x : Cmd(n, x).name = n /\ Cmd(n, x).keys = x
    BY DEF Cmd
  <2>1. cs[j].name = n /\ cs[j].keys = <<ks[j]>>
    BY <2>0
  <2>2. Range(cs[j].keys) = {ks[j]}
    BY <1>2, <2>1
  <2>3. cs[j] \in Range(cs)
    BY <1>1
  <2> QED BY <2>1, <2>2, <2>3
<1>4. ASSUME NEW names, NEW k, Names(cs, names, k) PROVE n \in names /\ k \in Range(ks)
  <2>1. PICK j \in 1..Len(cs) : cs[j].name \in names /\ k \in Range(cs[j].keys)
    BY <1>1, <1>4 DEF Names
  <2> QED BY <1>1, <1>3, <2>1
<1>5. ASSUME NEW names, NEW k, n \in names, k \in Range(ks) PROVE Names(cs, names, k)
  <2>1. PICK j \in 1..Len(cs) : k = ks[j]
    BY <1>1, <1>5
  <2>2. cs[j] \in Range(cs) /\ cs[j].name = n /\ Range(cs[j].keys) = {ks[j]}
    BY <1>3
  <2>3. cs[j] \in Range(cs) /\ cs[j].name \in names /\ k \in Range(cs[j].keys)
    BY <1>5, <2>1, <2>2
  <2> QED BY <2>3 DEF Names
<1> QED BY <1>4, <1>5 DEF OneName

\* A table after commands that do one thing.
LEMMA TouchedIs ==
    ASSUME NEW d \in [Key -> Value], NEW cs, NEW n, NEW ks, OneName(cs, n, ks), NEW i
    PROVE  Touched(d, cs, i) =
             CASE n \in {"SET", "HSET", "HINCRBY"} ->
                    [k \in Key |-> IF k \in Range(ks) THEN i ELSE d[k]]
               [] n \in {"DEL", "HDEL"} ->
                    [k \in Key |-> IF k \in Range(ks) THEN Absent ELSE d[k]]
               [] OTHER -> d
<1>1. \A k \in Key : /\ Names(cs, {"SET", "HSET", "HINCRBY"}, k) <=>
                            n \in {"SET", "HSET", "HINCRBY"} /\ k \in Range(ks)
                     /\ Names(cs, {"DEL", "HDEL"}, k) <=> n \in {"DEL", "HDEL"} /\ k \in Range(ks)
  BY DEF OneName
<1>2. CASE n \in {"SET", "HSET", "HINCRBY"}
  BY <1>1, <1>2 DEF Touched
<1>3. CASE n \in {"DEL", "HDEL"}
  <2>1. n \notin {"SET", "HSET", "HINCRBY"}
    BY <1>3
  <2> QED BY <1>1, <1>3, <2>1 DEF Touched
<1>4. CASE n \notin {"SET", "HSET", "HINCRBY"} /\ n \notin {"DEL", "HDEL"}
  <2>1. \A k \in Key : ~Names(cs, {"SET", "HSET", "HINCRBY"}, k) /\ ~Names(cs, {"DEL", "HDEL"}, k)
    BY <1>1, <1>4
  <2>2. Touched(d, cs, i) = [k \in Key |-> d[k]]
    BY <2>1 DEF Touched
  <2>3. d = [k \in Key |-> d[k]]
    OBVIOUS
  <2> QED BY <1>4, <2>2, <2>3
<1> QED BY <1>2, <1>3, <1>4

\* The command that deletes is that of an operation that deletes.
LEMMA NamesOfOps ==
    ASSUME NEW op \in AllDataOps
    PROVE  /\ NameOf(op) \in {"DEL", "HDEL"} <=> op \in {"delString", "delMuch", "delMuchHash"}
           /\ NameOf(op) = "GET" => Table(op) = "string"
           /\ NameOf(op) \in {"SET", "DEL"} => Table(op) = "string"
           /\ NameOf(op) \in {"HSET", "HDEL", "HINCRBY"} => Table(op) = "hash"
           /\ Table(op) \in {"string", "hash"}
BY DEF AllDataOps, StringOps, HashOps, ListOps, NameOf, Single, Table
\* A step that leaves the list as it is keeps its blocks.
LEMMA SameList ==
    ASSUME DataIInv, NEW p \in Session, list' = list,
           db' \in Tables,
           ttl' \subseteq Key, \A k \in ttl' : db'["string"][k] # Absent,
           applied \subseteq applied', applied' \subseteq OpId,
           refused \subseteq refused', past \subseteq past', <<db', list'>> \in past'
    PROVE  Effect(p)
<1>1. list \in Seq(OpId \X Key) /\ \A i \in OpId : Block(list, i, keys[i])
  BY DEF DataIInv, DataTypes, ListInv
<1> QED BY <1>1 DEF Effect

\* A step that leaves the strings and the hash as they are, and makes the list l.
LEMMA SameTables ==
    ASSUME DataIInv, NEW p \in Session, NEW l, SetTo(l), l \in Seq(OpId \X Key),
           applied \subseteq applied', applied' \subseteq OpId,
           \A i \in OpId : Block(l, i, keys[i]),
           \A j \in 1..Len(l) : l[j][1] = curOp[p] \/ \E k \in 1..Len(list) : l[j] = list[k]
    PROVE  Effect(p)
<1>1. db' = db /\ ttl' = ttl /\ list' = l /\ past' = past \cup {<<db, l>>} /\ refused' = refused
  BY DEF SetTo
<1>2. /\ db \in Tables
      /\ ttl \subseteq Key /\ \A k \in ttl : db["string"][k] # Absent
  BY DEF DataIInv, DataTypes
<1>3. <<db', list'>> \in past' /\ past \subseteq past'
  BY <1>1
<1> QED BY <1>1, <1>2, <1>3 DEF Effect

\* The server does nothing, or what it does leaves no trace.
LEMMA NoEffect ==
    ASSUME DataIInv, NEW p \in Session, UNCHANGED <<db, ttl, list, past>>,
           refused \subseteq refused',
           applied' = applied \/ (curOp[p] # NoOp /\ applied' = applied \cup {curOp[p]})
    PROVE  Effect(p)
<1>1. /\ db \in Tables
      /\ ttl \subseteq Key /\ \A k \in ttl : db["string"][k] # Absent
      /\ applied \subseteq OpId /\ <<db, list>> \in past
  BY DEF DataIInv, DataTypes, ToldInv
<1>2. applied \subseteq applied' /\ applied' \subseteq OpId
  <2>1. curOp[p] # NoOp => curOp[p] \in OpId
    BY Running
  <2> QED BY <1>1, <2>1
<1>3. db' = db /\ ttl' = ttl /\ list' = list /\ past' = past
  OBVIOUS
<1> QED BY <1>1, <1>2, <1>3, SameList

\* The commands of an operation take effect: all its keys are written, or none.
LEMMA EffectOfChange ==
    ASSUME DataIInv, NEW p \in Session, curOp[p] # NoOp, NEW cs, Change(p, cs),
           OneName(cs, NameOf(kind[curOp[p]]), keys[curOp[p]])
    PROVE  /\ Effect(p) /\ curOp[p] \in applied' /\ (WritesAll(p) \/ UNCHANGED db)
           /\ NameOf(kind[curOp[p]]) = "GET" => UNCHANGED db
<1> DEFINE i == curOp[p]
           op == kind[i]
           t == Table(op)
           n == NameOf(op)
           d == db[t]
           e == Touched(d, cs, i)
<1>1. i \in OpId /\ op \in AllDataOps
  BY Running
<1>2. /\ db \in Tables
      /\ ttl \subseteq Key /\ applied \subseteq OpId /\ t \in {"string", "hash"}
  BY <1>1, NamesOfOps DEF DataIInv, DataTypes
<1>3. d \in [Key -> Value] /\ (t = "hash" => \A k \in Key : d[k] # Other)
  BY <1>2 DEF Tables
<1>0. i \in Value /\ Absent \in Value /\ i # Other /\ Absent # Other
  BY <1>1 DEF Value, OpId, Absent, Other
<1>4. db' = [db EXCEPT ![t] = e]
  BY DEF Change
<1>5. /\ list' = list /\ past' = past \cup {<<db', list>>} /\ applied' = applied \cup {i}
      /\ refused' = refused
  BY DEF Change
<1>6. ttl' \subseteq Key /\ \A k \in ttl' : db'["string"][k] # Absent
  <2>1. PICK x \in {ttl \ {k \in Key : Names(cs, {"SET"}, k)},
                    ttl \cup {k \in Key : Names(cs, {"SET"}, k)}} :
                 ttl' = {k \in x : db'["string"][k] # Absent}
    BY DEF Change
  <2>2. x \subseteq Key
    BY <1>2, <2>1
  <2> QED BY <2>1, <2>2
<1>7. e = CASE n \in {"SET", "HSET", "HINCRBY"} ->
                 [k \in Key |-> IF k \in Range(keys[i]) THEN i ELSE d[k]]
            [] n \in {"DEL", "HDEL"} ->
                 [k \in Key |-> IF k \in Range(keys[i]) THEN Absent ELSE d[k]]
            [] OTHER -> d
  BY <1>3, TouchedIs
<1> HIDE DEF e
<1>8. e \in [Key -> Value] /\ (t = "hash" => \A k \in Key : e[k] # Other)
  <2>1. CASE n \in {"SET", "HSET", "HINCRBY"}
    <3>1. e = [k \in Key |-> IF k \in Range(keys[i]) THEN i ELSE d[k]]
      BY <1>7, <2>1
    <3> QED BY <1>0, <1>3, <3>1
  <2>2. CASE n \in {"DEL", "HDEL"}
    <3>1. n \notin {"SET", "HSET", "HINCRBY"}
      BY <2>2
    <3>2. e = [k \in Key |-> IF k \in Range(keys[i]) THEN Absent ELSE d[k]]
      BY <1>7, <2>2, <3>1
    <3> QED BY <1>0, <1>3, <3>2
  <2>3. CASE n \notin {"SET", "HSET", "HINCRBY"} /\ n \notin {"DEL", "HDEL"}
    BY <1>3, <1>7, <2>3
  <2> QED BY <2>1, <2>2, <2>3
<1>9. db' \in Tables
  <2>1. db \in [{"string", "hash"} -> [Key -> Value]] /\ \A f \in Key : db["hash"][f] # Other
    BY <1>2 DEF Tables
  <2>2. db' \in [{"string", "hash"} -> [Key -> Value]]
    BY <1>2, <1>4, <1>8, <2>1
  <2>3. db'["hash"] = IF t = "hash" THEN e ELSE db["hash"]
    BY <1>2, <1>4, <2>1
  <2>4. \A f \in Key : db'["hash"][f] # Other
    BY <1>8, <2>1, <2>3
  <2> QED BY <2>2, <2>4 DEF Tables
<1>10. past \subseteq past' /\ <<db', list'>> \in past' /\ applied' \subseteq OpId
  BY <1>1, <1>2, <1>5
<1>11. Effect(p)
  BY <1>5, <1>6, <1>9, <1>10, SameList
<1> DEFINE new == IF op \in {"delString", "delMuch", "delMuchHash"} THEN Absent ELSE i
<1>12. CASE n \in {"SET", "HSET", "HINCRBY", "DEL", "HDEL"}
  <2>1. n \in {"DEL", "HDEL"} <=> op \in {"delString", "delMuch", "delMuchHash"}
    BY <1>1, NamesOfOps
  <2>2. e = [k \in Key |-> IF k \in Range(keys[i]) THEN new ELSE d[k]]
    <3>1. CASE n \in {"SET", "HSET", "HINCRBY"}
      <4>1. n \notin {"DEL", "HDEL"}
        BY <3>1
      <4>2. new = i
        BY <2>1, <4>1
      <4>3. e = [k \in Key |-> IF k \in Range(keys[i]) THEN i ELSE d[k]]
        BY <1>7, <3>1
      <4> HIDE DEF new
      <4> QED BY <4>2, <4>3
    <3>2. CASE n \in {"DEL", "HDEL"}
      <4>1. n \notin {"SET", "HSET", "HINCRBY"}
        BY <3>2
      <4>2. new = Absent
        BY <2>1, <3>2
      <4>3. e = [k \in Key |-> IF k \in Range(keys[i]) THEN Absent ELSE d[k]]
        BY <1>7, <3>2, <4>1
      <4> HIDE DEF new
      <4> QED BY <4>2, <4>3
    <3> QED BY <1>12, <3>1, <3>2
  <2>3. db' = [db EXCEPT ![t] = [k \in Key |-> IF k \in Range(keys[i]) THEN new ELSE @[k]]]
    BY <1>4, <2>2
  <2>4. WritesAll(p)
    BY <2>3 DEF WritesAll
  <2> QED BY <1>5, <1>11, <1>12, <2>4
<1>13. CASE n \notin {"SET", "HSET", "HINCRBY", "DEL", "HDEL"}
  <2>1. e = d
    BY <1>7, <1>13
  <2>2. db' = db
    BY <1>2, <1>4, <2>1 DEF Tables
  <2> QED BY <1>5, <1>11, <2>2
<1> QED BY <1>12, <1>13
\* A part of the list replaces it.
LEMMA EffectOfPart ==
    ASSUME DataIInv, NEW p \in Session, NEW a \in Nat \ {0}, NEW b \in Int, b <= Len(list),
           SetTo(SubSeq(list, a, b)),
           applied' = applied \/ (curOp[p] # NoOp /\ applied' = applied \cup {curOp[p]})
    PROVE  Effect(p)
<1> DEFINE l == SubSeq(list, a, b)
<1>1. list \in Seq(OpId \X Key) /\ \A i \in OpId : Block(list, i, keys[i])
  BY DEF DataIInv, DataTypes, ListInv
<1>2. ASSUME NEW i \in OpId
      PROVE  /\ Block(l, i, keys[i])
             /\ \A j \in 1..Len(l) : \E k \in 1..Len(list) : l[j] = list[k]
  <2>1. Block(list, i, keys[i]) /\ list \in Seq(OpId \X Key)
    BY <1>1
  <2> QED BY <2>1, BlockOfPart
<1>3. /\ \A i \in OpId : Block(l, i, keys[i])
      /\ \A i \in OpId : \A j \in 1..Len(l) : \E k \in 1..Len(list) : l[j] = list[k]
  BY <1>2
<1>4. applied \subseteq applied' /\ applied' \subseteq OpId
  <2>1. curOp[p] # NoOp => curOp[p] \in OpId
    BY Running
  <2>2. applied \subseteq OpId
    BY DEF DataIInv, DataTypes
  <2> QED BY <2>1, <2>2
<1>5. Len(list) \in Nat /\ \A j \in a..b : list[j] \in OpId \X Key
  <2>1. Len(list) \in Nat
    BY <1>1, LenProperties
  <2>2. \A j \in a..b : j \in 1..Len(list)
    BY <2>1
  <2> QED BY <1>1, <2>1, <2>2, ElementOfSeq
<1>6. l \in Seq(OpId \X Key) /\ Len(l) = IF a <= b THEN b - a + 1 ELSE 0
  BY <1>5, SubSeqProperties
<1>7. ASSUME NEW j \in 1..Len(l) PROVE \E k \in 1..Len(list) : l[j] = list[k]
  <2>1. Len(list) # 0
    BY <1>5, <1>6, <1>7
  <2>2. 1 \in 1..Len(list)
    BY <1>5, <2>1
  <2>3. list[1] \in OpId \X Key
    BY <1>1, <2>2, ElementOfSeq
  <2>4. OpId # {}
    BY <2>3
  <2> QED BY <1>3, <1>7, <2>4
<1> HIDE DEF l
<1>8. SetTo(l)
  BY DEF l
<1> QED BY <1>3, <1>4, <1>6, <1>7, <1>8, SameTables

\* A part by two indexes, and the list without some of its elements at one end.
LEMMA Parts ==
    ASSUME DataIInv
    PROVE  /\ Len(list) \in Nat
           /\ \A x, y \in Int : \E a \in Nat \ {0}, b \in Int :
                  b <= Len(list) /\ Part(x, y) = SubSeq(list, a, b)
           /\ \A n \in Nat, left \in BOOLEAN : n <= Len(list) =>
                  \E a \in Nat \ {0}, b \in Int :
                      b <= Len(list) /\ Shortened(n, left) = SubSeq(list, a, b)
<1>1. Len(list) \in Nat
  BY LenProperties DEF DataIInv, DataTypes
<1>2. ASSUME NEW x \in Int, NEW y \in Int
      PROVE  \E a \in Nat \ {0}, b \in Int : b <= Len(list) /\ Part(x, y) = SubSeq(list, a, b)
  <2> DEFINE n == Len(list)
             u == IF x < 0 THEN n + x + 1 ELSE x + 1
             v == IF y < 0 THEN n + y + 1 ELSE y + 1
             a == IF u < 1 THEN 1 ELSE u
             b == IF v < n THEN v ELSE n
  <2>1. Part(x, y) = SubSeq(list, a, b)
    BY DEF Part, Least
  <2>2. u \in Int /\ v \in Int
    BY <1>1
  <2> HIDE DEF u, v
  <2>3. a \in Nat \ {0} /\ b \in Int /\ b <= Len(list)
    BY <1>1, <2>2
  <2> HIDE DEF a, b
  <2> QED BY <2>1, <2>3
<1>3. ASSUME NEW n \in Nat, NEW left \in BOOLEAN, n <= Len(list)
      PROVE  \E a \in Nat \ {0}, b \in Int :
                 b <= Len(list) /\ Shortened(n, left) = SubSeq(list, a, b)
  <2>1. CASE left
    <3>1. Shortened(n, left) = SubSeq(list, n + 1, Len(list))
      BY <2>1 DEF Shortened
    <3>2. n + 1 \in Nat \ {0} /\ Len(list) \in Int /\ Len(list) <= Len(list)
      BY <1>1
    <3> QED BY <3>1, <3>2
  <2>2. CASE ~left
    <3>1. Shortened(n, left) = SubSeq(list, 1, Len(list) - n)
      BY <2>2 DEF Shortened
    <3>2. 1 \in Nat \ {0} /\ Len(list) - n \in Int /\ Len(list) - n <= Len(list)
      BY <1>1
    <3> QED BY <3>1, <3>2
  <2> QED BY <2>1, <2>2
<1> QED BY <1>1, <1>2, <1>3

\* The values of an operation come to the list at one end.
LEMMA EffectOfPush ==
    ASSUME DataIInv, NEW p \in Session, curOp[p] # NoOp,
           NEW l, AfterPush(l, list, curOp[p], keys[curOp[p]]), SetTo(l),
           applied' = applied \cup {curOp[p]}
    PROVE  Effect(p)
<1> DEFINE i == curOp[p]
           ks == keys[i]
<1>1. i \in OpId /\ ks \in Seq(Key)
  BY Running
<1>2. list \in Seq(OpId \X Key) /\ \A e \in OpId : Block(list, e, keys[e])
  BY DEF DataIInv, DataTypes, ListInv
<1>3. FreeOf(list, i)
  BY DEF DataIInv, ListInv, FreeOf
<1>4. applied \subseteq applied' /\ applied' \subseteq OpId
  BY <1>1 DEF DataIInv, DataTypes
<1> HIDE DEF ks
<1>5. /\ l \in Seq(OpId \X Key) /\ Block(l, i, ks)
      /\ \A e \in OpId : \A es : e # i /\ Block(list, e, es) => Block(l, e, es)
      /\ \A j \in 1..Len(l) : l[j][1] = i \/ \E k \in 1..Len(list) : l[j] = list[k]
  <2>1. AfterPush(l, list, i, ks)
    BY DEF ks
  <2> HIDE DEF i
  <2> QED BY <1>1, <1>2, <1>3, <2>1, BlockOfPush
<1>6. \A e \in OpId : Block(l, e, keys[e])
  BY <1>2, <1>5 DEF ks
<1> QED BY <1>4, <1>5, <1>6, SameTables
\* The operation of p may return r: it is true of a content that the server had,
\* and if it says that nothing failed the operation has had its effect.
MayReturn(p, r) ==
    /\ r.err \in {"pending", "err", "nil"}
    /\ \E m \in past' : TrueOf(kind[curOp[p]], keys[curOp[p]], r, m)
    /\ kind[curOp[p]] # "setStringJSON" /\ r.err = "nil" =>
           \/ curOp[p] \in applied'
           \/ curOp[p] \in refused' /\ kind[curOp[p]] \in {"setMuch", "setMuchHash"}

\* An error is always true, and so is what a failed operation returns.
LEMMA ErrorsAreTrue ==
    ASSUME NEW op \in AllDataOps \cup {NoOp}, NEW ks, NEW m
    PROVE  /\ Failed.err = "err" /\ TrueOf(op, ks, Failed, m)
           /\ OnError(op).err \in {"err", "nil"} /\ TrueOf(op, ks, OnError(op), m)
           /\ OnError(op).err = "nil" => op = "setStringJSON"
           /\ op # "setStringJSON" => OnError(op) = Failed
           /\ Pending.err = "pending" /\ TrueOf(op, ks, Pending, m)
<1>1. Failed.err = "err" /\ Failed.val = <<>> /\ Pending.err = "pending"
  BY DEF Failed, Pending
<1>2. TrueOf(op, ks, Failed, m)
  <2>1. Agrees(Failed.val, m)
    BY <1>1 DEF Agrees
  <2> QED BY <1>1, <2>1 DEF TrueOf
<1>3. TrueOf(op, ks, Pending, m)
  BY <1>1 DEF TrueOf
<1>4. CASE op = "setStringJSON"
  <2>1. OnError(op) = Nil(<<>>) /\ Nil(<<>>).err = "nil"
    BY <1>4 DEF OnError, Nil
  <2>2. TrueOf(op, ks, OnError(op), m)
    BY <1>4, <2>1 DEF TrueOf
  <2> QED BY <1>1, <1>2, <1>3, <1>4, <2>1, <2>2
<1>5. CASE op # "setStringJSON"
  <2>1. OnError(op) = Failed
    BY <1>5 DEF OnError
  <2> QED BY <1>1, <1>2, <1>3, <1>5, <2>1
<1> QED BY <1>4, <1>5

\* A failed operation may return what it does.
LEMMA MayFail ==
    ASSUME DataIInv, NEW p \in Session, curOp[p] # NoOp, Effect(p)
    PROVE  MayReturn(p, Failed) /\ MayReturn(p, OnError(kind[curOp[p]]))
<1>1. kind[curOp[p]] \in AllDataOps /\ <<db', list'>> \in past'
  BY Running DEF Effect
<1> QED BY <1>1, ErrorsAreTrue DEF MayReturn

\* A step that changes what the server holds and nothing of what the operations
\* were told keeps what is true of the contents.
LEMMA ContentsAfter ==
    ASSUME DataIInv, NEW p \in Session, Effect(p), UNCHANGED <<kind, keys>>
    PROVE  /\ db' \in Tables
           /\ ttl' \subseteq Key /\ \A k \in ttl' : db'["string"][k] # Absent
           /\ list' \in Seq(OpId \X Key) /\ applied \subseteq applied' /\ applied' \subseteq OpId
           /\ <<db', list'>> \in past'
           /\ \A i \in OpId : \E m \in past' : TrueOf(kind[i], keys[i], res[i], m)
           /\ \A i \in OpId : Block(list', i, keys'[i])
           /\ \A j \in 1..Len(list') :
                /\ list'[j][1] \in OpId
                /\ \/ list'[j][1] = curOp[p]
                   \/ /\ kind[list'[j][1]] # NoOp
                      /\ \A q \in Session : curOp[q] # list'[j][1]
<1>1. \A i \in OpId : \E m \in past' : TrueOf(kind[i], keys[i], res[i], m)
  BY DEF DataIInv, ToldInv, Effect
<1>2. ASSUME NEW j \in 1..Len(list')
      PROVE  /\ list'[j][1] \in OpId
             /\ \/ list'[j][1] = curOp[p]
                \/ kind[list'[j][1]] # NoOp /\ \A q \in Session : curOp[q] # list'[j][1]
  <2>1. list'[j] \in OpId \X Key
    BY ElementOfSeq DEF Effect
  <2>2. list'[j][1] = curOp[p] \/ \E k \in 1..Len(list) : list'[j] = list[k]
    BY DEF Effect
  <2>3. CASE \E k \in 1..Len(list) : list'[j] = list[k]
    BY <2>1, <2>3 DEF DataIInv, ListInv
  <2> QED BY <2>1, <2>2, <2>3
<1> QED BY <1>1, <1>2 DEF Effect

\* An operation that ends as it may keeps the invariant.
LEMMA FinishStep ==
    ASSUME DataIInv, NEW p \in Session, curOp[p] # NoOp, Effect(p),
           NEW r, MayReturn(p, r), Finish(p, r)
    PROVE  DataIInv'
<1> DEFINE i == curOp[p]
<1>1. i \in OpId /\ kind[i] \in AllDataOps /\ NoOp \notin OpId
  BY Running
<1>2. /\ res' = [res EXCEPT ![i] = r] /\ curOp' = [curOp EXCEPT ![p] = NoOp]
      /\ wire' = [wire EXCEPT ![p] = <<>>] /\ multi' = [multi EXCEPT ![p] = FALSE]
      /\ queue' = [queue EXCEPT ![p] = <<>>] /\ kind' = kind /\ keys' = keys
  BY DEF Finish
<1>3. /\ kind \in [OpId -> AllDataOps \cup {NoOp}] /\ keys \in [OpId -> Seq(Key)]
      /\ curOp \in [Session -> OpId \cup {NoOp}] /\ wire \in [Session -> Seq(Command)]
      /\ multi \in [Session -> BOOLEAN] /\ queue \in [Session -> Seq(Command)]
      /\ res = [e \in OpId |-> res[e]] /\ \A e \in OpId : res[e].err \in {"pending", "err", "nil"}
  BY DEF DataIInv, DataTypes
<1>4. /\ \A e \in OpId : res'[e] = IF e = i THEN r ELSE res[e]
      /\ res' = [e \in OpId |-> res'[e]]
  BY <1>2, <1>3
<1>5. \A q \in Session : /\ curOp'[q] = IF q = p THEN NoOp ELSE curOp[q]
                         /\ wire'[q] = IF q = p THEN <<>> ELSE wire[q]
                         /\ multi'[q] = IF q = p THEN FALSE ELSE multi[q]
                         /\ queue'[q] = IF q = p THEN <<>> ELSE queue[q]
  BY <1>2, <1>3
<1>6. <<>> \in Seq(Command)
  OBVIOUS
<1>7. /\ curOp' \in [Session -> OpId \cup {NoOp}] /\ wire' \in [Session -> Seq(Command)]
      /\ multi' \in [Session -> BOOLEAN] /\ queue' \in [Session -> Seq(Command)]
  BY <1>2, <1>3, <1>6
<1>8. \A e \in OpId : res'[e].err \in {"pending", "err", "nil"}
  BY <1>3, <1>4 DEF MayReturn
<1>9. DataTypes'
  BY <1>2, <1>3, <1>4, <1>7, <1>8, ContentsAfter DEF DataTypes
<1>10. ScriptInv'
  <2>1. \A q \in Session : curOp'[q] = NoOp => ~multi'[q] /\ queue'[q] = <<>>
    BY <1>5 DEF DataIInv, ScriptInv
  <2>2. OneSession'
    BY <1>5 DEF DataIInv, ScriptInv, OneSession
  <2>3. ASSUME NEW q \in Session, curOp'[q] # NoOp
        PROVE  LET s == Script(curOp[q])'
               IN  /\ kind'[curOp'[q]] # NoOp /\ EndOf(s, wire'[q])
                   /\ ~multi'[q] => Len(wire'[q]) = Len(s) /\ queue'[q] = <<>>
                   /\ multi'[q] => Between(s, queue'[q], wire'[q])
    <3>1. /\ curOp'[q] = curOp[q] /\ wire'[q] = wire[q] /\ multi'[q] = multi[q]
          /\ queue'[q] = queue[q]
      BY <1>5, <2>3
    <3>2. Script(curOp[q])' = Script(curOp[q])
      BY <1>2, <3>1 DEF Script
    <3> QED BY <1>2, <2>3, <3>1, <3>2 DEF DataIInv, ScriptInv
  <2> QED BY <2>1, <2>2, <2>3 DEF ScriptInv
<1>11. ToldInv'
  <2>1. ASSUME NEW e \in OpId PROVE \E m \in past' : TrueOf(kind'[e], keys'[e], res'[e], m)
    <3>1. CASE e = i
      BY <1>2, <1>4, <3>1 DEF MayReturn
    <3>2. CASE e # i
      BY <1>2, <1>4, <3>2, ContentsAfter
    <3> QED BY <3>1, <3>2
  <2>2. \A e \in OpId : kind'[e] = NoOp => res'[e] = Pending
    <3> TAKE e \in OpId
    <3> HAVE kind'[e] = NoOp
    <3>1. kind[e] = NoOp /\ e # i
      BY <1>2 DEF DataIInv, ScriptInv
    <3> QED BY <1>4, <3>1 DEF DataIInv, ToldInv
  <2> QED BY <1>2, <2>1, <2>2, ContentsAfter DEF ToldInv
<1>12. ListInv'
  <2>1. ASSUME NEW j \in 1..Len(list')
        PROVE  kind'[list'[j][1]] # NoOp /\ \A q \in Session : curOp'[q] # list'[j][1]
    <3>1. /\ list'[j][1] \in OpId
          /\ \/ list'[j][1] = i
             \/ kind[list'[j][1]] # NoOp /\ \A q \in Session : curOp[q] # list'[j][1]
      BY <1>2, ContentsAfter
    <3>2. kind'[list'[j][1]] # NoOp
      BY <1>2, <3>1 DEF DataIInv, ScriptInv
    <3>3. ASSUME NEW q \in Session PROVE curOp'[q] # list'[j][1]
      <4>1. CASE q = p
        BY <1>1, <1>5, <3>1, <4>1
      <4>2. CASE q # p
        <5>1. curOp'[q] = curOp[q] /\ curOp[q] # i
          BY <1>5, <4>2 DEF DataIInv, ScriptInv, OneSession
        <5> QED BY <3>1, <5>1
      <4> QED BY <4>1, <4>2
    <3> QED BY <3>2, <3>3
  <2>2. \A e \in OpId : Block(list', e, keys'[e])
    BY <1>2, ContentsAfter
  <2> QED BY <2>1, <2>2 DEF ListInv
<1>13. NilIsApplied'
  <2>1. ASSUME NEW e \in OpId, kind'[e] # "setStringJSON", res'[e].err = "nil"
        PROVE  e \in applied' \/ (e \in refused' /\ kind'[e] \in {"setMuch", "setMuchHash"})
    <3>1. CASE e = i
      BY <1>2, <1>4, <2>1, <3>1 DEF MayReturn
    <3>2. CASE e # i
      <4>1. e \in applied \/ (e \in refused /\ kind'[e] \in {"setMuch", "setMuchHash"})
        BY <1>2, <1>4, <2>1, <3>2 DEF DataIInv, NilIsApplied
      <4> QED BY <4>1 DEF Effect
    <3> QED BY <3>1, <3>2
  <2> QED BY <2>1 DEF NilIsApplied
<1>14. keys' \in [OpId -> KeyLists]'
  <2>1. [OpId -> KeyLists]' = [OpId -> KeyLists]
    BY DEF OpId, KeyLists
  <2> QED BY <1>2, <2>1 DEF DataIInv
<1> QED BY <1>9, <1>10, <1>11, <1>12, <1>13, <1>14 DEF DataIInv

\* Do came back, or its reply was lost.
LEMMA DoneStep ==
    ASSUME DataIInv, NEW p \in Session, curOp[p] # NoOp, Effect(p),
           NEW r, MayReturn(p, r), Done(p, r)
    PROVE  DataIInv'
BY MayFail, FinishStep DEF Done
\* The operations that tell what several keys, fields or elements held.
Readers == {"getMuch", "getMuchJSON", "delMuch", "keys", "getAllHash", "lrange"}

\* One of the others that has had its effect may say that nothing failed.
LEMMA MaySucceed ==
    ASSUME DataIInv, NEW p \in Session, curOp[p] # NoOp, Effect(p), curOp[p] \in applied',
           kind[curOp[p]] \notin Readers, NEW v
    PROVE  MayReturn(p, Nil(v))
<1>1. <<db', list'>> \in past'
  BY DEF Effect
<1>2. Nil(v).err = "nil"
  BY DEF Nil
<1>3. \A m : TrueOf(kind[curOp[p]], keys[curOp[p]], Nil(v), m)
  BY DEF TrueOf, Readers
<1> QED BY <1>1, <1>2, <1>3 DEF MayReturn

\* A command outside a transaction, but for a read, takes effect and is answered.
LEMMA ImmediateStep ==
    ASSUME DataIInv, NEW p \in Session, NEW n, At(p, n), n \notin {"MULTI", "READ"},
           NEW r, r = Failed \/ r = Nil(<<>>), Immediate(p, r)
    PROVE  DataIInv' /\ (WritesAll(p) \/ UNCHANGED db)
<1> DEFINE i == curOp[p]
<1>1. /\ i # NoOp /\ Len(wire[p]) = 1 /\ kind[i] \in AllDataOps \ Much
      /\ Head(wire[p]) = Cmd(n, keys[i]) /\ NameOf(kind[i]) = n
  BY OnlyCommand
<1>2. Change(p, <<Cmd(n, keys[i])>>) /\ Done(p, r)
  BY <1>1 DEF Immediate
<1>3. OneName(<<Cmd(n, keys[i])>>, NameOf(kind[i]), keys[i])
  BY <1>1, NamesOfOne
<1>4. Effect(p) /\ i \in applied' /\ (WritesAll(p) \/ UNCHANGED db)
  BY <1>1, <1>2, <1>3, EffectOfChange
<1>5. kind[i] \notin Readers
  BY <1>1 DEF Readers, Much, NameOf
<1>6. MayReturn(p, r)
  <2>1. CASE r = Failed
    BY <1>1, <1>4, <2>1, MayFail
  <2>2. CASE r = Nil(<<>>)
    BY <1>1, <1>4, <1>5, <2>2, MaySucceed
  <2> QED BY <2>1, <2>2
<1> QED BY <1>1, <1>2, <1>4, <1>6, DoneStep

\* SET, DEL, HSET, HDEL and HINCRBY.
LEMMA WriteSteps ==
    ASSUME DataIInv, NEW p \in Session,
           DoSet(p) \/ DoDel(p) \/ DoHset(p) \/ DoHdel(p) \/ DoHincrby(p)
    PROVE  DataIInv' /\ (WritesAll(p) \/ UNCHANGED db)
<1>1. CASE DoSet(p)
  BY <1>1, ImmediateStep DEF DoSet
<1>2. CASE DoDel(p)
  <2> DEFINE r == IF ReplyTo(db["string"], Head(wire[p])) = 0 THEN Failed ELSE Nil(<<>>)
  <2>1. At(p, "DEL") /\ Immediate(p, r) /\ (r = Failed \/ r = Nil(<<>>))
    BY <1>2 DEF DoDel
  <2> HIDE DEF r
  <2> QED BY <2>1, ImmediateStep
<1>3. CASE DoHset(p)
  BY <1>3, ImmediateStep DEF DoHset
<1>4. CASE DoHdel(p)
  BY <1>4, ImmediateStep DEF DoHdel
<1>5. CASE DoHincrby(p)
  <2>1. At(p, "HINCRBY")
    BY <1>5 DEF DoHincrby
  <2>2. CASE Immediate(p, Nil(<<>>))
    BY <2>1, <2>2, ImmediateStep
  <2>3. CASE Finish(p, Failed) /\ UNCHANGED <<db, ttl, list, past, applied, refused>>
    <3>1. curOp[p] # NoOp
      BY <2>1 DEF At
    <3>2. Effect(p)
      BY <2>3, NoEffect
    <3> QED BY <2>3, <3>1, <3>2, MayFail, FinishStep
  <2> QED BY <1>5, <2>2, <2>3 DEF DoHincrby
<1> QED BY <1>1, <1>2, <1>3, <1>4, <1>5

\* EXPIRE, LTRIM, RPOP and what ListPop sends, and a connection that breaks.
LEMMA OtherSteps ==
    ASSUME DataIInv, NEW p \in Session,
           DoExpire(p) \/ DoLtrim(p) \/ DoPop(p) \/ DoPopBlock(p) \/ DoRpop(p) \/ Break(p)
    PROVE  DataIInv' /\ UNCHANGED db
<1>0. Len(list) \in Nat /\ MaxTimeout \in Nat
  BY Parts, DataAssumption
<1>1. CASE DoExpire(p)
  <2>1. At(p, "EXPIRE")
    BY <1>1 DEF DoExpire
  <2>2. /\ curOp[p] # NoOp /\ kind[curOp[p]] \in AllDataOps /\ NameOf(kind[curOp[p]]) = "EXPIRE"
        /\ Head(wire[p]) = Cmd("EXPIRE", keys[curOp[p]])
    BY <2>1, OnlyCommand
  <2>3. keys[curOp[p]] \in Seq(Key) /\ curOp[p] \in OpId
    BY <2>2, Running
  <2>4. Range(Head(wire[p]).keys) \subseteq Key
    <3>1. Head(wire[p]).keys = keys[curOp[p]]
      BY <2>2 DEF Cmd
    <3>2. \A j \in DOMAIN keys[curOp[p]] : keys[curOp[p]][j] \in Key
      BY <2>3
    <3> QED BY <3>1, <3>2 DEF Range
  <2>5. /\ db' = db /\ list' = list /\ past' = past /\ applied' = applied \cup {curOp[p]}
        /\ refused' = refused
        /\ ttl' = ttl \cup {k \in Range(Head(wire[p]).keys) : db["string"][k] # Absent}
    BY <1>1 DEF DoExpire
  <2>6. /\ db \in Tables
        /\ ttl \subseteq Key /\ \A k \in ttl : db["string"][k] # Absent
        /\ applied \subseteq OpId /\ <<db, list>> \in past
    BY DEF DataIInv, DataTypes, ToldInv
  <2>7. ttl' \subseteq Key /\ \A k \in ttl' : db'["string"][k] # Absent
    BY <2>4, <2>5, <2>6
  <2>8. applied \subseteq applied' /\ applied' \subseteq OpId
    BY <2>3, <2>5, <2>6
  <2>9. Effect(p)
    BY <2>5, <2>6, <2>7, <2>8, SameList
  <2>10. kind[curOp[p]] \notin Readers
    BY <2>2 DEF Readers, NameOf
  <2>11. MayReturn(p, Nil(<<>>)) /\ Done(p, Nil(<<>>))
    BY <1>1, <2>2, <2>5, <2>9, <2>10, MaySucceed DEF DoExpire
  <2> QED BY <2>2, <2>5, <2>9, <2>11, DoneStep
<1>2. CASE DoLtrim(p)
  <2>1. At(p, "LTRIM") /\ applied' = applied \cup {curOp[p]} /\ Done(p, Nil(<<>>))
    BY <1>2 DEF DoLtrim
  <2>2. /\ curOp[p] # NoOp /\ kind[curOp[p]] \in AllDataOps /\ NameOf(kind[curOp[p]]) = "LTRIM"
    BY <2>1, OnlyCommand
  <2>3. PICK x \in Int, y \in Int : SetTo(Part(x, y))
    BY <1>2 DEF DoLtrim, Index
  <2>4. PICK a \in Nat \ {0}, b \in Int : b <= Len(list) /\ Part(x, y) = SubSeq(list, a, b)
    BY Parts
  <2>5. Effect(p) /\ db' = db
    BY <2>1, <2>2, <2>3, <2>4, EffectOfPart DEF SetTo
  <2>6. kind[curOp[p]] \notin Readers
    BY <2>2 DEF Readers, NameOf
  <2>7. MayReturn(p, Nil(<<>>))
    BY <2>1, <2>2, <2>5, <2>6, MaySucceed
  <2> QED BY <2>1, <2>2, <2>5, <2>7, DoneStep
<1>3. CASE DoPop(p)
  <2>1. At(p, "POP") /\ applied' = applied /\ Done(p, Failed) /\ curOp[p] # NoOp
    BY <1>3 DEF DoPop, At
  <2>2. PICK n \in 0..MaxTimeout, left \in BOOLEAN : SetTo(Shortened(Least(n, Len(list)), left))
    BY <1>3 DEF DoPop
  <2>3. Least(n, Len(list)) \in Nat /\ Least(n, Len(list)) <= Len(list)
    BY <1>0 DEF Least
  <2>4. PICK a \in Nat \ {0}, b \in Int :
            b <= Len(list) /\ Shortened(Least(n, Len(list)), left) = SubSeq(list, a, b)
    BY <2>3, Parts
  <2>5. Effect(p) /\ db' = db
    BY <2>1, <2>2, <2>4, EffectOfPart DEF SetTo
  <2> QED BY <2>1, <2>5, MayFail, DoneStep
<1>4. CASE DoPopBlock(p)
  <2>1. At(p, "BPOP") /\ applied' = applied /\ Done(p, Failed) /\ curOp[p] # NoOp
    BY <1>4 DEF DoPopBlock, At
  <2>2. PICK left \in BOOLEAN : SetTo(Shortened(Least(1, Len(list)), left))
    BY <1>4 DEF DoPopBlock
  <2>3. Least(1, Len(list)) \in Nat /\ Least(1, Len(list)) <= Len(list)
    BY <1>0 DEF Least
  <2>4. PICK a \in Nat \ {0}, b \in Int :
            b <= Len(list) /\ Shortened(Least(1, Len(list)), left) = SubSeq(list, a, b)
    BY <2>3, Parts
  <2>5. Effect(p) /\ db' = db
    BY <2>1, <2>2, <2>4, EffectOfPart DEF SetTo
  <2> QED BY <2>1, <2>5, MayFail, DoneStep
<1>5. CASE DoRpop(p)
  <2>1. At(p, "RPOP")
    BY <1>5 DEF DoRpop
  <2>2. /\ curOp[p] # NoOp /\ kind[curOp[p]] \in AllDataOps /\ NameOf(kind[curOp[p]]) = "RPOP"
    BY <2>1, OnlyCommand
  <2>3. CASE /\ SetTo(Shortened(Least(100, Len(list)), FALSE))
             /\ applied' = applied \cup {curOp[p]} /\ Done(p, Nil(<<>>))
    <3>1. Least(100, Len(list)) \in Nat /\ Least(100, Len(list)) <= Len(list)
      BY <1>0 DEF Least
    <3>2. PICK a \in Nat \ {0}, b \in Int :
              b <= Len(list) /\ Shortened(Least(100, Len(list)), FALSE) = SubSeq(list, a, b)
      BY <3>1, Parts
    <3>3. Effect(p) /\ db' = db
      BY <2>2, <2>3, <3>2, EffectOfPart DEF SetTo
    <3>4. kind[curOp[p]] \notin Readers
      BY <2>2 DEF Readers, NameOf
    <3>5. MayReturn(p, Nil(<<>>))
      BY <2>2, <2>3, <3>3, <3>4, MaySucceed
    <3> QED BY <2>2, <2>3, <3>3, <3>5, DoneStep
  <2>4. CASE Finish(p, Failed) /\ UNCHANGED <<db, ttl, list, past, applied, refused>>
    <3>1. Effect(p)
      BY <2>4, NoEffect
    <3> QED BY <2>2, <2>4, <3>1, MayFail, FinishStep
  <2> QED BY <1>5, <2>3, <2>4 DEF DoRpop
<1>6. CASE Break(p)
  <2>1. /\ curOp[p] # NoOp /\ Finish(p, OnError(kind[curOp[p]]))
        /\ UNCHANGED <<db, ttl, list, past, applied, refused>>
    BY <1>6 DEF Break
  <2>2. Effect(p)
    BY <2>1, NoEffect
  <2> QED BY <2>1, <2>2, MayFail, FinishStep
<1> QED BY <1>1, <1>2, <1>3, <1>4, <1>5, <1>6
\* LPUSH and RPUSH.
LEMMA PushStep ==
    ASSUME DataIInv, NEW p \in Session, DoPush(p)
    PROVE  DataIInv' /\ UNCHANGED db
<1> DEFINE i == curOp[p]
           vs == [j \in DOMAIN Head(wire[p]).keys |-> <<i, Head(wire[p]).keys[j]>>]
<1>1. At(p, "PUSH")
  BY DEF DoPush
<1>2. /\ i # NoOp /\ Len(wire[p]) = 1 /\ kind[i] \in AllDataOps /\ NameOf(kind[i]) = "PUSH"
      /\ Head(wire[p]) = Cmd("PUSH", keys[i])
  BY <1>1, OnlyCommand
<1>3. vs = ValuesOf(i, keys[i])
  <2>1. Head(wire[p]).keys = keys[i]
    BY <1>2 DEF Cmd
  <2>2. vs = ValuesOf(i, Head(wire[p]).keys)
    BY DEF ValuesOf
  <2> QED BY <2>1, <2>2
<1>4. \/ Finish(p, Failed) /\ UNCHANGED <<db, ttl, list, past, applied, refused>>
      \/ /\ \E l \in {Reverse(vs) \o list, list \o vs} : SetTo(l)
         /\ applied' = applied \cup {i} /\ Done(p, Nil(<<>>))
  BY <1>2 DEF DoPush
<1> HIDE DEF vs
<1>5. CASE Finish(p, Failed) /\ UNCHANGED <<db, ttl, list, past, applied, refused>>
  <2>1. Effect(p)
    BY <1>5, NoEffect
  <2> QED BY <1>2, <1>5, <2>1, MayFail, FinishStep
<1>6. CASE /\ \E l \in {Reverse(vs) \o list, list \o vs} : SetTo(l)
           /\ applied' = applied \cup {i} /\ Done(p, Nil(<<>>))
  <2>1. PICK l \in {Reverse(vs) \o list, list \o vs} : SetTo(l)
    BY <1>6
  <2>2. AfterPush(l, list, i, keys[i])
    BY <1>3, <2>1 DEF AfterPush
  <2>3. Effect(p) /\ db' = db
    BY <1>2, <1>6, <2>1, <2>2, EffectOfPush DEF SetTo
  <2>4. kind[i] \notin Readers
    BY <1>2 DEF Readers, NameOf
  <2>5. MayReturn(p, Nil(<<>>))
    BY <1>2, <1>6, <2>3, <2>4, MaySucceed
  <2> QED BY <1>2, <1>6, <2>3, <2>5, DoneStep
<1> QED BY <1>4, <1>5, <1>6

\* Operations with one command that do not read.
LEMMA ReadsAre ==
    ASSUME NEW op \in AllDataOps, NameOf(op) = "READ"
    PROVE  op \in {"getString", "getStringJSON", "exists", "keys", "getHash", "getAllHash", "llen",
                   "lrange"}
BY DEF AllDataOps, StringOps, HashOps, ListOps, NameOf, Single

\* A read tells what the server holds now.
LEMMA ReadIsTrue ==
    ASSUME DataIInv, NEW op \in AllDataOps, NameOf(op) = "READ", NEW ks, NEW r \in Reading(op, ks)
    PROVE  r.err \in {"err", "nil"} /\ TrueOf(op, ks, r, <<db, list>>)
<1>0. /\ \A v : Nil(v).err = "nil" /\ Nil(v).val = v
      /\ Failed.err = "err" /\ <<db, list>>[1] = db /\ <<db, list>>[2] = list
  BY DEF Nil, Failed
<1>1. CASE op \in {"getString", "getStringJSON", "exists", "getHash", "llen"}
  <2>1. r = Failed \/ \E v : r = Nil(v)
    BY <1>1 DEF Reading, GetString, GetStringJSON, ExistsKey, GetHashValueByKey, GetListLen
  <2>2. r.err \in {"err", "nil"}
    BY <1>0, <2>1
  <2> QED BY <1>1, <2>2 DEF TrueOf
<1>2. CASE op = "keys"
  <2>1. r = Nil(<<{k \in Key : db["string"][k] # Absent}>>)
    BY <1>2 DEF Reading, Keys
  <2>2. r.err = "nil" /\ AllKeys(r.val, <<db, list>>)
    BY <1>0, <2>1 DEF AllKeys
  <2> QED BY <1>2, <2>2 DEF TrueOf
<1>3. CASE op = "getAllHash"
  <2> DEFINE v == [f \in {g \in Key : db["hash"][g] # Absent} |-> db["hash"][f]]
  <2>1. r = Nil(v)
    BY <1>3 DEF Reading, GetAllHashJSON
  <2>2. /\ DOMAIN v = {g \in Key : db["hash"][g] # Absent}
        /\ \A f \in DOMAIN v : v[f] = db["hash"][f]
    OBVIOUS
  <2> HIDE DEF v
  <2>3. r.err = "nil" /\ AllFields(r.val, <<db, list>>)
    BY <1>0, <2>1, <2>2 DEF AllFields
  <2> QED BY <1>3, <2>3 DEF TrueOf
<1>4. CASE op = "lrange"
  <2>1. PICK x \in Int, y \in Int : r = Nil(Part(x, y))
    BY <1>4 DEF Reading, Lrange, Index
  <2>2. PICK a \in Nat \ {0}, b \in Int : b <= Len(list) /\ Part(x, y) = SubSeq(list, a, b)
    BY Parts
  <2>3. list \in Seq(OpId \X Key) /\ Len(list) \in Nat /\ DOMAIN list = 1..Len(list)
    BY LenProperties DEF DataIInv, DataTypes
  <2>4. PartOf(SubSeq(list, a, b), <<db, list>>)
    <3>1. CASE a <= b
      <4>1. a \in DOMAIN list /\ b \in DOMAIN list
        BY <2>2, <2>3, <3>1
      <4> QED BY <1>0, <4>1 DEF PartOf
    <3>2. CASE ~(a <= b)
      <4>1. \A j \in a..b : list[j] \in OpId \X Key
        BY <2>2, <3>2
      <4>2. SubSeq(list, a, b) \in Seq(OpId \X Key) /\ Len(SubSeq(list, a, b)) = 0
        BY <2>2, <3>2, <4>1, SubSeqProperties
      <4>3. SubSeq(list, a, b) = <<>>
        BY <4>2, EmptySeq
      <4> QED BY <4>3 DEF PartOf
    <3> QED BY <3>1, <3>2
  <2>5. r.err = "nil" /\ PartOf(r.val, <<db, list>>)
    BY <1>0, <2>1, <2>2, <2>4
  <2> QED BY <1>4, <2>5 DEF TrueOf
<1> QED BY <1>1, <1>2, <1>3, <1>4, ReadsAre

\* A read.
LEMMA ReadStep ==
    ASSUME DataIInv, NEW p \in Session, DoRead(p)
    PROVE  DataIInv' /\ UNCHANGED db
<1>1. At(p, "READ")
  BY DEF DoRead
<1>2. curOp[p] # NoOp /\ kind[curOp[p]] \in AllDataOps /\ NameOf(kind[curOp[p]]) = "READ"
  BY <1>1, OnlyCommand
<1>3. PICK r \in Reading(kind[curOp[p]], keys[curOp[p]]) : Done(p, r)
  BY DEF DoRead
<1>4. UNCHANGED <<db, ttl, list, past, refused>> /\ applied' = applied \cup {curOp[p]}
  BY DEF DoRead
<1>5. Effect(p)
  BY <1>2, <1>4, NoEffect
<1>6. r.err \in {"err", "nil"} /\ TrueOf(kind[curOp[p]], keys[curOp[p]], r, <<db, list>>)
  BY <1>2, ReadIsTrue
<1>7. <<db, list>> \in past' /\ curOp[p] \in applied'
  BY <1>4 DEF DataIInv, ToldInv
<1>8. MayReturn(p, r)
  BY <1>6, <1>7 DEF MayReturn
<1> QED BY <1>2, <1>3, <1>4, <1>5, <1>8, DoneStep
\* The position that is chosen for a key is one at which it stands.
LEMMA PositionOf ==
    ASSUME NEW ks \in Seq(Key), NEW D \in SUBSET DOMAIN ks, NEW k \in {ks[j] : j \in D}
    PROVE  (CHOOSE j \in D : ks[j] = k) \in D /\ ks[CHOOSE j \in D : ks[j] = k] = k
<1>1. \E j \in D : ks[j] = k
  OBVIOUS
<1> QED BY <1>1

\* The last position of a key that was given is one at which it stands.
LEMMA LastOfIs ==
    ASSUME NEW ks \in Seq(Key), NEW k \in Range(ks)
    PROVE  /\ LastOf(ks, k) \in DOMAIN ks /\ ks[LastOf(ks, k)] = k
           /\ \A l \in DOMAIN ks : ks[l] = k => l <= LastOf(ks, k)
<1> DEFINE C == {j \in 1..Len(ks) : ks[j] = k}
<1>1. Len(ks) \in Nat /\ DOMAIN ks = 1..Len(ks) /\ Range(ks) = {ks[j] : j \in DOMAIN ks}
  BY LenProperties DEF Range
<1>2. C \in SUBSET (1..Len(ks)) /\ C # {}
  BY <1>1
<1>3. \E c \in C : \A d \in C : d <= c
  <2> HIDE DEF C
  <2> QED BY <1>1, <1>2, HasGreatest
<1>4. \E j \in DOMAIN ks : ks[j] = k /\ \A l \in DOMAIN ks : ks[l] = k => l <= j
  BY <1>1, <1>3
<1> QED BY <1>4 DEF LastOf

\* What the operations make of the replies to a transaction.
LEMMA RepliesAre ==
    ASSUME NEW ks \in Seq(Key), NEW m, NEW reply, DOMAIN reply = DOMAIN ks
    PROVE  /\ (\A j \in DOMAIN ks : reply[j] = m[1]["string"][ks[j]]) =>
                  AllValues(RetMap(ks, reply), ks, m) /\ Agrees(Decode(ks, reply).val, m)
           /\ (\A j \in DOMAIN ks : reply[j] =
                    IF m[1]["string"][ks[j]] = Absent \/ \E l \in 1..(j - 1) : ks[l] = ks[j]
                    THEN 0 ELSE 1) =>
                  AllDeleted(DelMap(ks, reply), ks, m)
           /\ Decode(ks, reply).err \in {"err", "nil"}
<1> DEFINE s == m[1]["string"]
           At1(k) == LastOf(ks, k)
<1>1. \A k \in Range(ks) : /\ At1(k) \in DOMAIN ks /\ ks[At1(k)] = k
                           /\ \A l \in DOMAIN ks : ks[l] = k => l <= At1(k)
  BY LastOfIs
<1> HIDE DEF At1
<1>2. ASSUME \A j \in DOMAIN ks : reply[j] = s[ks[j]] PROVE AllValues(RetMap(ks, reply), ks, m)
  <2>1. RetMap(ks, reply) = [k \in Range(ks) |-> TextOf(reply[At1(k)])]
    BY DEF RetMap, At1
  <2>2. \A k \in Range(ks) : reply[At1(k)] = s[k]
    BY <1>1, <1>2
  <2> QED BY <2>1, <2>2 DEF AllValues
<1>3. ASSUME \A j \in DOMAIN ks : reply[j] = s[ks[j]] PROVE Agrees(Decode(ks, reply).val, m)
  <2> DEFINE bad == {j \in DOMAIN reply : reply[j] \in OpId /\ ~Encoded(reply[j])}
             good == {j \in DOMAIN reply : Encoded(reply[j]) /\ \A b \in bad : j < b}
             AtG(k) == CHOOSE j \in good : ks[j] = k
             v == [k \in {ks[j] : j \in good} |-> reply[AtG(k)]]
  <2>1. Decode(ks, reply).val = v
    BY DEF Decode
  <2>2. good \in SUBSET DOMAIN ks
    OBVIOUS
  <2> HIDE DEF good
  <2>3. \A k \in {ks[j] : j \in good} : AtG(k) \in good /\ ks[AtG(k)] = k
    BY <2>2, PositionOf
  <2> HIDE DEF AtG
  <2>4. \A k \in {ks[j] : j \in good} : v[k] = s[k]
    BY <1>3, <2>2, <2>3
  <2>5. DOMAIN v = {ks[j] : j \in good}
    OBVIOUS
  <2> HIDE DEF v
  <2> QED BY <2>1, <2>4, <2>5 DEF Agrees
<1>4. ASSUME \A j \in DOMAIN ks : reply[j] =
                 IF s[ks[j]] = Absent \/ \E l \in 1..(j - 1) : ks[l] = ks[j] THEN 0 ELSE 1
      PROVE  AllDeleted(DelMap(ks, reply), ks, m)
  <2>1. DelMap(ks, reply) = [k \in Range(ks) |-> reply[At1(k)] # 0]
    BY DEF DelMap, At1
  <2>2. \A k \in Range(ks) : reply[At1(k)] =
            IF s[k] = Absent \/ \E l \in 1..(At1(k) - 1) : ks[l] = k THEN 0 ELSE 1
    BY <1>1, <1>4
  <2>3. ASSUME NEW k \in Range(ks)
        PROVE  NamedOnce(ks, k) <=> ~(\E l \in 1..(At1(k) - 1) : ks[l] = k)
    <3>1. /\ DOMAIN ks = 1..Len(ks) /\ Len(ks) \in Nat
          /\ At1(k) \in DOMAIN ks /\ ks[At1(k)] = k
          /\ \A l \in DOMAIN ks : ks[l] = k => l <= At1(k)
      BY <1>1, <2>3, LenProperties
    <3>2. ASSUME NamedOnce(ks, k), NEW l \in 1..(At1(k) - 1), ks[l] = k PROVE FALSE
      <4>1. l \in DOMAIN ks /\ l # At1(k)
        BY <3>1, <3>2
      <4> QED BY <3>1, <3>2, <4>1 DEF NamedOnce
    <3>3. ASSUME ~(\E l \in 1..(At1(k) - 1) : ks[l] = k) PROVE NamedOnce(ks, k)
      <4>1. \A j \in DOMAIN ks : ks[j] = k => j = At1(k)
        BY <3>1, <3>3
      <4> QED BY <4>1 DEF NamedOnce
    <3> QED BY <3>2, <3>3
  <2>4. \A k \in Range(ks) : (reply[At1(k)] # 0) = (s[k] # Absent /\ NamedOnce(ks, k))
    <3> TAKE k \in Range(ks)
    <3> DEFINE twice == \E l \in 1..(At1(k) - 1) : ks[l] = k
    <3>1. reply[At1(k)] = IF s[k] = Absent \/ twice THEN 0 ELSE 1
      BY <2>2
    <3>2. NamedOnce(ks, k) = ~twice
      BY <2>3 DEF NamedOnce
    <3> HIDE DEF twice
    <3>3. CASE s[k] = Absent \/ twice
      <4>1. reply[At1(k)] = 0 /\ ~(s[k] # Absent /\ NamedOnce(ks, k))
        BY <3>1, <3>2, <3>3
      <4> QED BY <4>1
    <3>4. CASE ~(s[k] = Absent \/ twice)
      <4>1. reply[At1(k)] = 1 /\ s[k] # Absent /\ NamedOnce(ks, k)
        BY <3>1, <3>2, <3>4
      <4>2. reply[At1(k)] # 0
        BY <4>1
      <4> QED BY <4>1, <4>2
    <3> QED BY <3>3, <3>4
  <2> DEFINE F(k) == reply[At1(k)] # 0
             G(k) == s[k] # Absent /\ NamedOnce(ks, k)
  <2>5. /\ DelMap(ks, reply) = [k \in Range(ks) |-> F(k)]
        /\ \A k \in Range(ks) : F(k) = G(k)
    BY <2>1, <2>4
  <2>6. AllDeleted(DelMap(ks, reply), ks, m) = (DelMap(ks, reply) = [k \in Range(ks) |-> G(k)])
    BY DEF AllDeleted
  <2> HIDE DEF F, G
  <2>7. [k \in Range(ks) |-> F(k)] = [k \in Range(ks) |-> G(k)]
    BY <2>5
  <2> QED BY <2>5, <2>6, <2>7
<1>5. Decode(ks, reply).err \in {"err", "nil"}
  BY DEF Decode
<1> QED BY <1>2, <1>3, <1>4, <1>5

\* The reply to DEL.
LEMMA ReplyToDel ==
    ASSUME NEW d, NEW c, c.name = "DEL"
    PROVE  ReplyTo(d, c) = IF d[c.keys[1]] = Absent THEN 0 ELSE 1
BY DEF ReplyTo

\* The first elements of a sequence.
LEMMA FirstPart ==
    ASSUME NEW S, NEW s \in Seq(S), NEW j \in 1..Len(s)
    PROVE  LET f == SubSeq(s, 1, j - 1) IN
           /\ f \in Seq(S) /\ Len(f) = j - 1 /\ Len(f) \in Nat
           /\ \A l \in 1..(j - 1) : f[l] = s[l] /\ l \in 1..Len(s)
           /\ Range(f) = {s[l] : l \in 1..(j - 1)}
<1>1. Len(s) \in Nat /\ \A l \in 1..Len(s) : s[l] \in S
  BY LenProperties, ElementOfSeq
<1>2. j - 1 \in Nat /\ \A l \in 1..(j - 1) : l \in 1..Len(s) /\ s[l] \in S
  BY <1>1
<1> DEFINE f == SubSeq(s, 1, j - 1)
<1>3. f \in Seq(S) /\ Len(f) = j - 1 /\ \A l \in 1..(j - 1) : f[l] = s[l]
  <2>1. /\ f \in Seq(S)
        /\ Len(f) = IF 1 <= j - 1 THEN (j - 1) - 1 + 1 ELSE 0
        /\ \A l \in 1..((j - 1) - 1 + 1) : f[l] = s[1 + l - 1]
    BY <1>2, SubSeqProperties
  <2>2. (j - 1) - 1 + 1 = j - 1 /\ \A l \in 1..(j - 1) : 1 + l - 1 = l
    BY <1>2
  <2> HIDE DEF f
  <2>3. Len(f) = j - 1
    BY <1>2, <2>1
  <2> QED BY <2>1, <2>2, <2>3
<1> HIDE DEF f
<1>4. DOMAIN f = 1..(j - 1)
  BY <1>3, LenProperties
<1>5. Range(f) = {s[l] : l \in 1..(j - 1)}
  <2>1. Range(f) = {f[l] : l \in 1..(j - 1)}
    BY <1>4 DEF Range
  <2> QED BY <1>3, <2>1
<1> QED BY <1>2, <1>3, <1>5 DEF f

\* What the replies to commands n on the keys ks say of the content d.
RepliesSay(reply, d, n, ks) ==
    /\ DOMAIN reply = DOMAIN ks
    /\ n = "GET" => \A j \in DOMAIN ks : reply[j] = d[ks[j]]
    /\ n = "DEL" => \A j \in DOMAIN ks : reply[j] =
          IF d[ks[j]] = Absent \/ \E l \in 1..(j - 1) : ks[l] = ks[j] THEN 0 ELSE 1

\* The replies to a transaction, each on what the commands before it left.
LEMMA RepliesTo ==
    ASSUME NEW d \in [Key -> Value], NEW n, NEW ks \in Seq(Key), NEW cs \in Seq(Command),
           Len(cs) = Len(ks), \A j \in 1..Len(cs) : cs[j] = Cmd(n, <<ks[j]>>), NEW i
    PROVE  RepliesSay(Replies(d, cs, i), d, n, ks)
<1>1. DOMAIN ks = 1..Len(ks) /\ DOMAIN cs = 1..Len(ks) /\ Len(ks) \in Nat
  BY LenProperties
<1>2. \A x, k : Cmd(x, <<k>>).name = x /\ Cmd(x, <<k>>).keys[1] = k
  BY DEF Cmd
<1> DEFINE Left(j) == Touched(d, SubSeq(cs, 1, j - 1), i)
<1>3. DOMAIN Replies(d, cs, i) = DOMAIN ks
  BY <1>1 DEF Replies
<1>4. \A j \in DOMAIN ks : Replies(d, cs, i)[j] = ReplyTo(Left(j), Cmd(n, <<ks[j]>>))
  BY <1>1 DEF Replies
<1>5. ASSUME NEW j \in DOMAIN ks
      PROVE  OneName(SubSeq(cs, 1, j - 1), n, SubSeq(ks, 1, j - 1))
  <2> DEFINE fc == SubSeq(cs, 1, j - 1)
             fk == SubSeq(ks, 1, j - 1)
  <2>1. j \in 1..Len(cs) /\ j \in 1..Len(ks)
    BY <1>1, <1>5
  <2>2. /\ fc \in Seq(Command) /\ Len(fc) = j - 1
        /\ \A l \in 1..(j - 1) : fc[l] = cs[l] /\ l \in 1..Len(cs)
    BY <2>1, FirstPart
  <2>3. /\ fk \in Seq(Key) /\ Len(fk) = j - 1
        /\ \A l \in 1..(j - 1) : fk[l] = ks[l]
    BY <2>1, FirstPart
  <2> HIDE DEF fc, fk
  <2>4. \A l \in 1..Len(fc) : fc[l] = Cmd(n, <<fk[l]>>)
    BY <2>2, <2>3
  <2>5. OneName(fc, n, fk)
    BY <2>2, <2>3, <2>4, NamesOfMany
  <2> QED BY <2>5 DEF fc, fk
<1>6. ASSUME n = "GET", NEW j \in DOMAIN ks PROVE Replies(d, cs, i)[j] = d[ks[j]]
  <2>1. OneName(SubSeq(cs, 1, j - 1), n, SubSeq(ks, 1, j - 1))
    BY <1>5, <1>6
  <2>2. n \notin {"SET", "HSET", "HINCRBY"} /\ n \notin {"DEL", "HDEL"}
    BY <1>6
  <2>3. Left(j) = d
    BY <2>1, <2>2, TouchedIs
  <2> HIDE DEF Left
  <2>4. ReplyTo(d, Cmd("GET", <<ks[j]>>)) = d[ks[j]]
    BY <1>2 DEF ReplyTo
  <2> QED BY <1>4, <1>6, <2>3, <2>4
<1>7. ASSUME n = "DEL", NEW j \in DOMAIN ks
      PROVE  Replies(d, cs, i)[j] =
               IF d[ks[j]] = Absent \/ \E l \in 1..(j - 1) : ks[l] = ks[j] THEN 0 ELSE 1
  <2> DEFINE fk == SubSeq(ks, 1, j - 1)
  <2>1. OneName(SubSeq(cs, 1, j - 1), n, fk)
    BY <1>5, <1>7
  <2>2. n \in {"DEL", "HDEL"} /\ n \notin {"SET", "HSET", "HINCRBY"}
    BY <1>7
  <2>3. Range(fk) = {ks[l] : l \in 1..(j - 1)} /\ ks[j] \in Key
    <3>1. j \in 1..Len(ks)
      BY <1>1, <1>7
    <3> QED BY <3>1, FirstPart, ElementOfSeq
  <2> HIDE DEF fk
  <2>4. Left(j) = [k \in Key |-> IF k \in Range(fk) THEN Absent ELSE d[k]]
    BY <2>1, <2>2, TouchedIs
  <2> HIDE DEF Left
  <2>5. Left(j)[ks[j]] = IF \E l \in 1..(j - 1) : ks[l] = ks[j] THEN Absent ELSE d[ks[j]]
    BY <2>3, <2>4
  <2>6. ReplyTo(Left(j), Cmd("DEL", <<ks[j]>>)) = IF Left(j)[ks[j]] = Absent THEN 0 ELSE 1
    <3> DEFINE c == Cmd("DEL", <<ks[j]>>)
    <3>1. c.name = "DEL" /\ c.keys[1] = ks[j]
      BY <1>2
    <3> HIDE DEF c
    <3>2. ReplyTo(Left(j), c) = IF Left(j)[c.keys[1]] = Absent THEN 0 ELSE 1
      BY <3>1, ReplyToDel
    <3>3. ReplyTo(Left(j), c) = IF Left(j)[ks[j]] = Absent THEN 0 ELSE 1
      BY <3>1, <3>2
    <3> QED BY <3>3 DEF c
  <2> QED BY <1>4, <1>7, <2>5, <2>6
<1> QED BY <1>3, <1>6, <1>7 DEF RepliesSay

\* EXEC: the transaction takes effect at once.
LEMMA ExecStep ==
    ASSUME DataIInv, NEW p \in Session, DoExec(p)
    PROVE  DataIInv' /\ (WritesAll(p) \/ UNCHANGED db)
<1> DEFINE i == curOp[p]
           op == kind[i]
           ks == keys[i]
           reply == Replies(db[Table(op)], queue[p], i)
           m == <<db, list>>
<1>1. i # NoOp /\ Head(wire[p]).name = "EXEC" /\ multi[p] /\ Change(p, queue[p])
  BY DEF DoExec, AtExec
<1>2. /\ op \in AllDataOps /\ op \in Much /\ ks \in Seq(Key) /\ queue[p] \in Seq(Command)
      /\ Len(queue[p]) = Len(ks) /\ Len(ks) \in Nat
      /\ \A j \in 1..Len(queue[p]) : queue[p][j] = Cmd(NameOf(op), <<ks[j]>>)
  BY <1>1, InTransaction, Running
<1>3. OneName(queue[p], NameOf(op), ks)
  BY <1>2, NamesOfMany
<1>4. Effect(p) /\ i \in applied' /\ (WritesAll(p) \/ UNCHANGED db)
  BY <1>1, <1>3, EffectOfChange
<1>5. m \in past' /\ m[1] = db
  BY <1>4 DEF Effect, DataIInv, ToldInv
<1>6. db[Table(op)] \in [Key -> Value]
  <2>1. Table(op) \in {"string", "hash"} /\ db \in Tables
    BY <1>2, NamesOfOps DEF DataIInv, DataTypes
  <2> QED BY <2>1 DEF Tables
<1>7. /\ DOMAIN reply = DOMAIN ks
      /\ NameOf(op) = "GET" => \A j \in DOMAIN ks : reply[j] = db[Table(op)][ks[j]]
      /\ NameOf(op) = "DEL" => \A j \in DOMAIN ks : reply[j] =
            IF db[Table(op)][ks[j]] = Absent \/ \E l \in 1..(j - 1) : ks[l] = ks[j] THEN 0 ELSE 1
  <2> DEFINE n == NameOf(op)
             cs == queue[p]
             d == db[Table(op)]
  <2>1. /\ ks \in Seq(Key) /\ cs \in Seq(Command) /\ Len(cs) = Len(ks) /\ d \in [Key -> Value]
        /\ \A j \in 1..Len(cs) : cs[j] = Cmd(n, <<ks[j]>>)
    BY <1>2, <1>6
  <2> HIDE DEF n, cs, d, op, ks, i
  <2>2. RepliesSay(Replies(d, cs, i), d, n, ks)
    BY <2>1, RepliesTo
  <2>3. RepliesSay(reply, db[Table(op)], NameOf(op), ks)
    BY <2>2 DEF n, cs, d, op, ks, i
  <2> QED BY <2>3 DEF RepliesSay, op, ks, i
<1>9. Done(p, CASE op \in {"setMuch", "setMuchHash"} -> Nil(<<>>)
                [] op = "getMuch" -> Nil(RetMap(ks, reply))
                [] op = "getMuchJSON" -> Decode(ks, reply)
                [] op = "delMuch" -> Nil(DelMap(ks, reply)))
  BY DEF DoExec
<1> HIDE DEF reply, m
<1>10. \A v : Nil(v).err = "nil" /\ Nil(v).val = v
  BY DEF Nil
<1>12. CASE op \in {"setMuch", "setMuchHash"}
  <2>1. Done(p, Nil(<<>>))
    BY <1>9, <1>12
  <2>2. op \notin Readers
    BY <1>12 DEF Readers
  <2> QED BY <1>1, <1>4, <2>1, <2>2, MaySucceed, DoneStep
<1>13. ASSUME op \in {"getMuch", "getMuchJSON"}
       PROVE  \A j \in DOMAIN ks : reply[j] = m[1]["string"][ks[j]]
  <2>1. NameOf(op) = "GET" /\ Table(op) = "string"
    BY <1>13 DEF NameOf, Table, HashOps
  <2> QED BY <1>5, <1>7, <2>1
<1>14. CASE op = "getMuch"
  <2> DEFINE r == Nil(RetMap(ks, reply))
  <2>1. Done(p, r)
    BY <1>9, <1>14
  <2>2. AllValues(RetMap(ks, reply), ks, m)
    BY <1>2, <1>7, <1>13, <1>14, RepliesAre
  <2>3. r.err = "nil" /\ r.val = RetMap(ks, reply)
    BY <1>10
  <2> HIDE DEF r
  <2>4. TrueOf(op, ks, r, m)
    BY <1>14, <2>2, <2>3 DEF TrueOf
  <2>5. MayReturn(p, r)
    BY <1>4, <1>5, <2>3, <2>4 DEF MayReturn
  <2> QED BY <1>1, <1>4, <2>1, <2>5, DoneStep
<1>15. CASE op = "getMuchJSON"
  <2> DEFINE r == Decode(ks, reply)
  <2>1. Done(p, r)
    BY <1>9, <1>15
  <2>2. Agrees(r.val, m) /\ r.err \in {"err", "nil"}
    BY <1>2, <1>7, <1>13, <1>15, RepliesAre
  <2> HIDE DEF r
  <2>4. TrueOf(op, ks, r, m)
    BY <1>15, <2>2 DEF TrueOf
  <2>5. MayReturn(p, r)
    BY <1>4, <1>5, <2>2, <2>4 DEF MayReturn
  <2> QED BY <1>1, <1>4, <2>1, <2>5, DoneStep
<1>16. CASE op = "delMuch"
  <2> DEFINE r == Nil(DelMap(ks, reply))
  <2>1. Done(p, r)
    BY <1>9, <1>16
  <2>2. NameOf(op) = "DEL" /\ Table(op) = "string"
    BY <1>16 DEF NameOf, Table, HashOps
  <2>5. \A j \in DOMAIN ks : reply[j] =
            IF m[1]["string"][ks[j]] = Absent \/ \E l \in 1..(j - 1) : ks[l] = ks[j] THEN 0 ELSE 1
    BY <1>5, <1>7, <2>2
  <2>6. AllDeleted(DelMap(ks, reply), ks, m)
    BY <1>2, <1>7, <2>5, RepliesAre
  <2>7. r.err = "nil" /\ r.val = DelMap(ks, reply)
    BY <1>10
  <2> HIDE DEF r
  <2>8. TrueOf(op, ks, r, m)
    BY <1>16, <2>6, <2>7 DEF TrueOf
  <2>9. MayReturn(p, r)
    BY <1>4, <1>5, <2>7, <2>8 DEF MayReturn
  <2> QED BY <1>1, <1>4, <2>1, <2>9, DoneStep
<1> QED BY <1>2, <1>12, <1>14, <1>15, <1>16 DEF Much

\* EXEC of commands that the server refuses.
LEMMA RefusedStep ==
    ASSUME DataIInv, NEW p \in Session, DoExecRefused(p)
    PROVE  DataIInv' /\ UNCHANGED db
<1> DEFINE i == curOp[p]
<1>1. /\ i # NoOp /\ kind[i] \in {"setMuch", "setMuchHash"} /\ Done(p, Nil(<<>>))
      /\ refused' = refused \cup {i} /\ UNCHANGED <<db, ttl, list, past, applied>>
  BY DEF DoExecRefused, AtExec
<1>2. Effect(p)
  BY <1>1, NoEffect
<1>3. <<db', list'>> \in past' /\ i \in refused'
  BY <1>1, <1>2 DEF Effect
<1>4. Nil(<<>>).err = "nil"
  BY DEF Nil
<1>5. \A m : TrueOf(kind[i], keys[i], Nil(<<>>), m)
  BY <1>1 DEF TrueOf
<1>6. MayReturn(p, Nil(<<>>))
  BY <1>1, <1>3, <1>4, <1>5 DEF MayReturn
<1> QED BY <1>1, <1>2, <1>6, DoneStep
\* Sending one more command leaves the rest of the script to send.
LEMMA TailIsEnd ==
    ASSUME NEW s, Len(s) \in Nat, NEW w \in Seq(Command), EndOf(s, w), Len(w) > 1
    PROVE  Tail(w) \in Seq(Command) /\ Len(Tail(w)) = Len(w) - 1 /\ EndOf(s, Tail(w))
<1>1. Len(w) \in Nat /\ w # <<>>
  BY LenProperties
<1>2. /\ Tail(w) \in Seq(Command) /\ Len(Tail(w)) = Len(w) - 1
      /\ \A j \in 1..Len(Tail(w)) : Tail(w)[j] = w[j + 1]
  BY <1>1, HeadTailProperties
<1> DEFINE n == Len(w)
           l == Len(s)
           t == Tail(w)
<1>3. n \in Nat /\ l \in Nat /\ n > 1 /\ n <= l
  BY <1>1 DEF EndOf
<1>8. \A j \in 1..n : w[j] = s[l - n + j]
  BY DEF EndOf
<1>4. Len(t) = n - 1 /\ \A j \in 1..n - 1 : t[j] = w[j + 1]
  BY <1>2
<1> HIDE DEF n, l, t
<1>5. \A j \in 1..n - 1 : t[j] = s[l - (n - 1) + j]
  <2> TAKE j \in 1..n - 1
  <2>1. j + 1 \in 1..n /\ l - n + (j + 1) = l - (n - 1) + j
    BY <1>3
  <2>2. w[j + 1] = s[l - n + (j + 1)]
    <3> DEFINE k == j + 1
    <3>1. k \in 1..n
      BY <2>1
    <3> HIDE DEF k
    <3>2. w[k] = s[l - n + k]
      BY <1>8, <3>1
    <3> QED BY <3>2 DEF k
  <2> QED BY <1>4, <2>1, <2>2
<1>6. 1 <= n - 1 /\ n - 1 <= l
  BY <1>3
<1>7. EndOf(s, t)
  BY <1>4, <1>5, <1>6 DEF EndOf, l
<1> QED BY <1>2, <1>7 DEF t

\* MULTI and the commands behind it change nothing but what has been sent.
LEMMA QueuedStep ==
    ASSUME DataIInv, NEW p \in Session, Queued(p)
    PROVE  DataIInv' /\ UNCHANGED db
<1> DEFINE i == curOp[p]
           s == Script(i)
           c == Head(wire[p])
<1>1. /\ i # NoOp /\ wire' = [wire EXCEPT ![p] = Tail(wire[p])]
      /\ UNCHANGED <<kind, keys, curOp, db, ttl, list, res, past, applied, refused>>
      /\ \/ c.name = "MULTI" /\ multi' = [multi EXCEPT ![p] = TRUE] /\ queue' = queue
         \/ /\ c.name # "EXEC" /\ multi[p] /\ multi' = multi
            /\ queue' = [queue EXCEPT ![p] = Append(queue[p], c)]
  BY DEF Queued
<1>2. /\ s \in Seq(Command) /\ Len(s) \in Nat /\ wire[p] \in Seq(Command) /\ Len(wire[p]) \in Nat
      /\ queue[p] \in Seq(Command) /\ Len(queue[p]) \in Nat /\ kind[i] \in AllDataOps
      /\ c = wire[p][1] /\ Len(keys[i]) \in Nat
  BY <1>1, Running
<1>3. kind[i] # NoOp /\ EndOf(s, wire[p])
  BY <1>1 DEF DataIInv, ScriptInv
<1>4. /\ curOp \in [Session -> OpId \cup {NoOp}] /\ wire \in [Session -> Seq(Command)]
      /\ multi \in [Session -> BOOLEAN] /\ queue \in [Session -> Seq(Command)]
  BY DEF DataIInv, DataTypes
<1>5. /\ Len(wire[p]) > 1 /\ multi' \in [Session -> BOOLEAN] /\ queue' \in [Session -> Seq(Command)]
      /\ multi'[p] /\ Between(s, queue'[p], Tail(wire[p]))
      /\ \A q \in Session : q # p => multi'[q] = multi[q] /\ queue'[q] = queue[q]
  <2>1. CASE multi[p]
    <3>1. /\ Len(queue[p]) <= Len(keys[i]) /\ Len(wire[p]) = Len(keys[i]) - Len(queue[p]) + 1
          /\ c = s[Len(queue[p]) + 2]
          /\ c.name # "EXEC" => /\ Len(queue[p]) < Len(keys[i])
                                /\ c = Cmd(NameOf(kind[i]), <<keys[i][Len(queue[p]) + 1]>>)
          /\ c.name = "EXEC" => Len(queue[p]) = Len(keys[i])
      BY <1>1, <2>1, InTransaction
    <3>2. c.name # "MULTI"
      <4>1. CASE c.name # "EXEC"
        <5>1. c.name = NameOf(kind[i])
          BY <3>1, <4>1 DEF Cmd
        <5> QED BY <1>2, <5>1, CommandsAre
      <4>2. CASE c.name = "EXEC"
        BY <4>2
      <4> QED BY <4>1, <4>2
    <3>3. c.name # "EXEC" /\ multi' = multi /\ queue' = [queue EXCEPT ![p] = Append(queue[p], c)]
      BY <1>1, <3>2
    <3>4. Len(wire[p]) > 1
      <4> DEFINE lw == Len(wire[p])
                 lq == Len(queue[p])
                 lk == Len(keys[i])
      <4>1. lw \in Nat /\ lq \in Nat /\ lk \in Nat /\ lq < lk /\ lw = lk - lq + 1
        BY <1>2, <3>1, <3>3
      <4> HIDE DEF lw, lq, lk
      <4>2. lw > 1
        BY <4>1
      <4> QED BY <4>2 DEF lw
    <3>5. c \in Command
      <4>1. 1 \in 1..Len(wire[p])
        BY <1>2, <3>4
      <4> QED BY <1>2, <4>1, ElementOfSeq
    <3> DEFINE q == queue[p]
               a == Append(q, c)
               w == wire[p]
    <3>6. a \in Seq(Command) /\ Len(a) = Len(q) + 1 /\ a[Len(q) + 1] = c
          /\ \A j \in 1..Len(q) : a[j] = q[j]
      BY <1>2, <3>5, AppendProperties
    <3>7. Len(q) + Len(w) + 1 = Len(s) /\ \A j \in 1..Len(q) : q[j] = s[j + 1]
      BY <1>1, <2>1 DEF DataIInv, ScriptInv, Between
    <3>8. Len(Tail(w)) = Len(w) - 1
      BY <1>2, <1>3, <3>4, TailIsEnd
    <3>9. multi'[p] /\ multi' \in [Session -> BOOLEAN] /\ queue' \in [Session -> Seq(Command)]
      BY <1>4, <2>1, <3>3, <3>6
    <3>10. queue'[p] = a /\ \A u \in Session : u # p => multi'[u] = multi[u] /\ queue'[u] = queue[u]
      BY <1>4, <3>3
    <3> HIDE DEF a, q, w
    <3>11. Between(s, a, Tail(w))
      <4>1. Len(q) \in Nat /\ Len(w) \in Nat
        BY <1>2 DEF q, w
      <4>2. Len(a) + Len(Tail(w)) + 1 = Len(s)
        <5>1. Len(a) = Len(q) + 1 /\ Len(q) + Len(w) + 1 = Len(s)
          BY <3>6, <3>7
        <5> DEFINE la == Len(a)
                   lt == Len(Tail(w))
                   lq == Len(q)
                   lw == Len(w)
                   ls == Len(s)
        <5>2. la = lq + 1 /\ lq + lw + 1 = ls /\ lt = lw - 1 /\ lq \in Nat /\ lw \in Nat
          BY <3>8, <4>1, <5>1
        <5> HIDE DEF la, lt, lq, lw, ls
        <5>3. la + lt + 1 = ls
          BY <5>2
        <5> QED BY <5>3 DEF la, lt, ls
      <4>3. ASSUME NEW j \in 1..Len(a) PROVE a[j] = s[j + 1]
        <5>1. CASE j \in 1..Len(q)
          BY <3>6, <3>7, <5>1
        <5>2. CASE j = Len(q) + 1
          <6>1. j + 1 = Len(q) + 2 /\ s[Len(q) + 2] = c
            BY <3>1, <4>1, <5>2 DEF q
          <6> QED BY <3>6, <5>2, <6>1
        <5> QED BY <3>6, <4>1, <5>1, <5>2
      <4> QED BY <4>2, <4>3 DEF Between
    <3> QED BY <3>4, <3>9, <3>10, <3>11 DEF w
  <2>2. CASE ~multi[p]
    <3>1. Len(wire[p]) = Len(s) /\ queue[p] = <<>>
      BY <1>1, <2>2, FirstCommand
    <3>2. c.name = "MULTI" /\ multi' = [multi EXCEPT ![p] = TRUE] /\ queue' = queue
      BY <1>1, <2>2
    <3>3. Len(wire[p]) > 1
      <4>1. CASE kind[i] \in Much
        BY <1>1, <2>2, <4>1, FirstCommand
      <4>2. CASE kind[i] \notin Much
        <5>1. c = Cmd(NameOf(kind[i]), keys[i])
          BY <1>1, <2>2, <4>2, FirstCommand
        <5>2. c.name = NameOf(kind[i])
          BY <5>1 DEF Cmd
        <5> QED BY <1>2, <3>2, <5>2, CommandsAre
      <4> QED BY <4>1, <4>2
    <3>4. Len(Tail(wire[p])) = Len(wire[p]) - 1
      BY <1>2, <1>3, <3>3, TailIsEnd
    <3>5. Len(<<>>) = 0
      OBVIOUS
    <3>6. Between(s, <<>>, Tail(wire[p]))
      <4>1. Len(<<>>) + Len(Tail(wire[p])) + 1 = Len(s)
        <5>1. Len(Tail(wire[p])) = Len(s) - 1 /\ Len(s) \in Nat
          <6> DEFINE n == Len(wire[p])
          <6>1. Len(Tail(wire[p])) = n - 1 /\ n = Len(s) /\ n \in Nat
            BY <1>2, <3>1, <3>4
          <6> HIDE DEF n
          <6> QED BY <6>1
        <5> QED BY <3>5, <5>1
      <4>2. \A j \in 1..Len(<<>>) : <<>>[j] = s[j + 1]
        BY <3>5
      <4> QED BY <4>1, <4>2 DEF Between
    <3>7. multi'[p] /\ multi' \in [Session -> BOOLEAN] /\ queue' \in [Session -> Seq(Command)]
      BY <1>4, <3>2
    <3>8. \A q \in Session : q # p => multi'[q] = multi[q] /\ queue'[q] = queue[q]
      BY <1>4, <3>2
    <3> QED BY <3>1, <3>2, <3>3, <3>6, <3>7, <3>8
  <2> QED BY <2>1, <2>2
<1>6. Tail(wire[p]) \in Seq(Command) /\ EndOf(s, Tail(wire[p]))
  BY <1>2, <1>3, <1>5, TailIsEnd
<1>7. /\ wire' \in [Session -> Seq(Command)] /\ wire'[p] = Tail(wire[p])
      /\ \A q \in Session : q # p => wire'[q] = wire[q]
  BY <1>1, <1>4, <1>6
<1>8. ScriptInv'
  <2>1. ASSUME NEW q \in Session, curOp'[q] # NoOp
        PROVE  LET x == Script(curOp[q])'
               IN  /\ kind'[curOp'[q]] # NoOp /\ EndOf(x, wire'[q])
                   /\ ~multi'[q] => Len(wire'[q]) = Len(x) /\ queue'[q] = <<>>
                   /\ multi'[q] => Between(x, queue'[q], wire'[q])
    <3>1. Script(curOp[q])' = Script(curOp[q]) /\ kind' = kind /\ curOp' = curOp
      BY <1>1 DEF Script
    <3>2. CASE q = p
      BY <1>3, <1>5, <1>6, <1>7, <3>1, <3>2
    <3>3. CASE q # p
      BY <1>5, <1>7, <2>1, <3>1, <3>3 DEF DataIInv, ScriptInv
    <3> QED BY <3>2, <3>3
  <2>2. ASSUME NEW q \in Session, curOp'[q] = NoOp PROVE ~multi'[q] /\ queue'[q] = <<>>
    <3>1. q # p /\ curOp[q] = NoOp
      BY <1>1, <2>2
    <3> QED BY <1>5, <3>1 DEF DataIInv, ScriptInv
  <2>3. OneSession'
    BY <1>1 DEF DataIInv, ScriptInv, OneSession
  <2> QED BY <2>1, <2>2, <2>3 DEF ScriptInv
<1>9. DataTypes'
  BY <1>1, <1>5, <1>7 DEF DataIInv, DataTypes
<1>10. ToldInv' /\ ListInv' /\ NilIsApplied' /\ (keys \in [OpId -> KeyLists])'
  BY <1>1 DEF DataIInv, ToldInv, ListInv, NilIsApplied
<1> QED BY <1>1, <1>8, <1>9, <1>10 DEF DataIInv
\* An operation may be given any of its keys, and what has not begun has pushed
\* nothing.
LEMMA BeginFacts ==
    ASSUME DataIInv, NEW i \in OpId, kind[i] = NoOp, NEW op \in Together(i), NEW ks \in KeysOf(op)
    PROVE  /\ op \in AllDataOps /\ ks \in KeyLists /\ ks \in Seq(Key) /\ NoOp \notin AllDataOps
           /\ FreeOf(list, i) /\ Block(list, i, ks) /\ \A p \in Session : curOp[p] # i
<1>1. op \in AllDataOps /\ NoOp \notin AllDataOps
  BY DataAssumption DEF Together
<1>2. ks \in KeyLists /\ ks \in Seq(Key)
  BY KeyListsAreSeqs DEF KeysOf
<1>3. FreeOf(list, i)
  BY DEF DataIInv, ListInv, FreeOf
<1>4. Block(list, i, ks)
  <2>1. \A j \in Int : ~(1 <= j /\ j <= 0)
    OBVIOUS
  <2>2. Len(list) \in Nat
    BY LenProperties DEF DataIInv, DataTypes
  <2>3. \A j \in 1..Len(list) : list[j][1] # i /\ ~(1 <= j /\ j <= 0)
    BY <1>3, <2>1, <2>2 DEF FreeOf
  <2> DEFINE hi == 0
  <2>4. BlockAt(list, i, ks, 1, hi, hi)
    BY <2>3 DEF BlockAt
  <2>5. hi \in Int /\ ks \in {ks, Reverse(ks)}
    OBVIOUS
  <2> HIDE DEF hi
  <2> QED BY <2>4, <2>5, BlockIs
<1>5. \A p \in Session : curOp[p] # i
  <2>1. i # NoOp
    BY DataAssumption DEF OpId
  <2> QED BY <2>1 DEF DataIInv, ScriptInv
<1> QED BY <1>1, <1>2, <1>3, <1>4, <1>5

\* An operation starts.
LEMMA BeginStep ==
    ASSUME DataIInv, NEW p \in Session, NEW i \in OpId, IsNext(p, i),
           NEW op \in Together(i), NEW ks \in KeysOf(op), Begin(p, i, op, ks)
    PROVE  DataIInv' /\ UNCHANGED db
<1>1. /\ kind' = [kind EXCEPT ![i] = op] /\ keys' = [keys EXCEPT ![i] = ks]
      /\ UNCHANGED <<applied, refused, multi, queue, db, ttl, list, past>>
      /\ \/ res' = [res EXCEPT ![i] = OnError(op)] /\ UNCHANGED <<curOp, wire>>
         \/ /\ curOp' = [curOp EXCEPT ![p] = i] /\ wire' = [wire EXCEPT ![p] = Commands(op, ks)]
            /\ UNCHANGED res
  BY DEF Begin, serverVars
<1>2. kind[i] = NoOp /\ curOp[p] = NoOp
  BY DEF IsNext
<1>3. /\ op \in AllDataOps /\ ks \in KeyLists /\ ks \in Seq(Key) /\ NoOp \notin AllDataOps
      /\ FreeOf(list, i) /\ Block(list, i, ks) /\ \A q \in Session : curOp[q] # i
  BY <1>2, BeginFacts
<1>4. /\ kind \in [OpId -> AllDataOps \cup {NoOp}] /\ keys \in [OpId -> Seq(Key)]
      /\ keys \in [OpId -> KeyLists]
      /\ curOp \in [Session -> OpId \cup {NoOp}] /\ wire \in [Session -> Seq(Command)]
      /\ multi \in [Session -> BOOLEAN] /\ queue \in [Session -> Seq(Command)]
      /\ res = [e \in OpId |-> res[e]] /\ \A e \in OpId : res[e].err \in {"pending", "err", "nil"}
  BY DEF DataIInv, DataTypes
<1>5. /\ kind'[i] = op /\ keys'[i] = ks
      /\ \A e \in OpId : e # i => kind'[e] = kind[e] /\ keys'[e] = keys[e] /\ res'[e] = res[e]
      /\ kind' \in [OpId -> AllDataOps \cup {NoOp}] /\ keys' \in [OpId -> Seq(Key)]
      /\ keys' \in [OpId -> KeyLists]
  BY <1>1, <1>3, <1>4
<1>6. res[i] = Pending
  BY <1>2 DEF DataIInv, ToldInv
<1>7. /\ res' = [e \in OpId |-> res'[e]]
      /\ res'[i] = Pending \/ res'[i] = OnError(op)
  <2>1. CASE res' = [res EXCEPT ![i] = OnError(op)]
    BY <1>4, <2>1
  <2>2. CASE res' = res
    BY <1>4, <1>6, <2>2
  <2> QED BY <1>1, <2>1, <2>2
<1>8. /\ res'[i].err \in {"pending", "err", "nil"} /\ \A m : TrueOf(op, ks, res'[i], m)
      /\ res'[i].err = "nil" => op = "setStringJSON"
  <2>1. /\ OnError(op).err \in {"err", "nil"} /\ Pending.err = "pending"
        /\ \A m : TrueOf(op, ks, OnError(op), m) /\ TrueOf(op, ks, Pending, m)
        /\ OnError(op).err = "nil" => op = "setStringJSON"
    BY <1>3, ErrorsAreTrue
  <2>2. CASE res'[i] = Pending
    BY <2>1, <2>2
  <2>3. CASE res'[i] = OnError(op)
    BY <2>1, <2>3
  <2> QED BY <1>7, <2>2, <2>3
<1> DEFINE s == Commands(op, ks)
<1>9. s \in Seq(Command) /\ Len(s) \in Nat /\ 1 <= Len(s)
  BY <1>3, ScriptIs
<1>10. /\ curOp' \in [Session -> OpId \cup {NoOp}] /\ wire' \in [Session -> Seq(Command)]
       /\ \A q \in Session : q # p => curOp'[q] = curOp[q] /\ wire'[q] = wire[q]
       /\ \/ curOp'[p] = NoOp /\ wire'[p] = wire[p]
          \/ curOp'[p] = i /\ wire'[p] = s
  <2>1. CASE UNCHANGED <<curOp, wire>>
    BY <1>2, <1>4, <2>1
  <2>2. CASE curOp' = [curOp EXCEPT ![p] = i] /\ wire' = [wire EXCEPT ![p] = s]
    BY <1>4, <1>9, <2>2
  <2> QED BY <1>1, <2>1, <2>2
<1> HIDE DEF s
<1>11. DataTypes'
  <2>1. \A e \in OpId : res'[e].err \in {"pending", "err", "nil"}
    BY <1>4, <1>5, <1>8
  <2> QED BY <1>1, <1>5, <1>7, <1>10, <2>1 DEF DataIInv, DataTypes
<1>12. ScriptInv'
  <2>1. ASSUME NEW q \in Session, curOp'[q] = NoOp PROVE ~multi'[q] /\ queue'[q] = <<>>
    <3>1. curOp[q] = NoOp
      BY <1>2, <1>10, <2>1
    <3> QED BY <1>1, <3>1 DEF DataIInv, ScriptInv
  <2>2. ASSUME NEW q \in Session, curOp'[q] # NoOp
        PROVE  LET x == Script(curOp[q])'
               IN  /\ kind'[curOp'[q]] # NoOp /\ EndOf(x, wire'[q])
                   /\ ~multi'[q] => Len(wire'[q]) = Len(x) /\ queue'[q] = <<>>
                   /\ multi'[q] => Between(x, queue'[q], wire'[q])
    <3>1. Script(curOp[q])' = Commands(kind'[curOp'[q]], keys'[curOp'[q]])
      BY DEF Script
    <3>2. CASE q = p
      <4>1. curOp'[q] = i /\ wire'[q] = s
        BY <1>10, <2>2, <3>2
      <4>2. Script(curOp[q])' = s /\ kind'[i] # NoOp
        BY <1>3, <1>5, <3>1, <4>1 DEF s
      <4>3. ~multi'[q] /\ queue'[q] = <<>>
        BY <1>1, <1>2, <3>2 DEF DataIInv, ScriptInv
      <4>4. EndOf(s, s)
        <5> DEFINE n == Len(s)
        <5>1. n \in Nat /\ 1 <= n
          BY <1>9
        <5> HIDE DEF n
        <5>2. \A j \in 1..n : n - n + j = j
          BY <5>1
        <5>3. n <= n
          BY <5>1
        <5> QED BY <5>1, <5>2, <5>3 DEF EndOf, n
      <4> QED BY <4>1, <4>2, <4>3, <4>4
    <3>3. CASE q # p
      <4>1. curOp'[q] = curOp[q] /\ wire'[q] = wire[q]
        BY <1>10, <3>3
      <4>2. curOp[q] # i /\ curOp[q] \in OpId
        BY <1>3, <1>4, <2>2, <4>1
      <4>3. Script(curOp[q])' = Script(curOp[q]) /\ kind'[curOp'[q]] = kind[curOp[q]]
        BY <1>5, <3>1, <4>1, <4>2 DEF Script
      <4> QED BY <1>1, <2>2, <4>1, <4>3 DEF DataIInv, ScriptInv
    <3> QED BY <3>2, <3>3
  <2>3. OneSession'
    <3>1. \A q, u \in Session : curOp'[q] = curOp'[u] /\ curOp'[q] # NoOp => q = u
      BY <1>3, <1>10 DEF DataIInv, ScriptInv, OneSession
    <3> QED BY <3>1 DEF OneSession
  <2> QED BY <2>1, <2>2, <2>3 DEF ScriptInv
<1>13. ToldInv'
  <2>1. ASSUME NEW e \in OpId PROVE \E m \in past' : TrueOf(kind'[e], keys'[e], res'[e], m)
    <3>1. <<db, list>> \in past' /\ \E m \in past' : TrueOf(kind[e], keys[e], res[e], m)
      BY <1>1 DEF DataIInv, ToldInv
    <3>2. CASE e = i
      BY <1>5, <1>8, <3>1, <3>2
    <3>3. CASE e # i
      BY <1>5, <3>1, <3>3
    <3> QED BY <3>2, <3>3
  <2>2. \A e \in OpId : kind'[e] = NoOp => res'[e] = Pending
    BY <1>3, <1>5 DEF DataIInv, ToldInv
  <2>3. <<db', list'>> \in past'
    BY <1>1 DEF DataIInv, ToldInv
  <2> QED BY <2>1, <2>2, <2>3 DEF ToldInv
<1>14. ListInv'
  <2>1. ASSUME NEW e \in OpId PROVE Block(list', e, keys'[e])
    <3>1. CASE e = i
      BY <1>1, <1>3, <1>5, <3>1
    <3>2. CASE e # i
      BY <1>1, <1>5, <3>2 DEF DataIInv, ListInv
    <3> QED BY <3>1, <3>2
  <2>2. ASSUME NEW j \in 1..Len(list')
        PROVE  kind'[list'[j][1]] # NoOp /\ \A q \in Session : curOp'[q] # list'[j][1]
    <3>1. list' = list /\ j \in 1..Len(list)
      BY <1>1
    <3>2. /\ list[j][1] # i /\ kind[list[j][1]] # NoOp
          /\ \A q \in Session : curOp[q] # list[j][1]
      BY <1>3, <3>1 DEF DataIInv, ListInv, FreeOf
    <3>3. list[j] \in OpId \X Key
      BY <3>1, ElementOfSeq DEF DataIInv, DataTypes
    <3>4. list[j][1] \in OpId /\ NoOp \notin OpId
      BY <3>3, DataAssumption DEF OpId
    <3>5. kind'[list[j][1]] # NoOp
      BY <1>5, <3>2, <3>4
    <3>6. \A q \in Session : curOp'[q] # list[j][1]
      BY <1>10, <3>2, <3>4
    <3> QED BY <3>1, <3>5, <3>6
  <2> QED BY <2>1, <2>2 DEF ListInv
<1>15. NilIsApplied'
  <2>1. ASSUME NEW e \in OpId, kind'[e] # "setStringJSON", res'[e].err = "nil"
        PROVE  e \in applied' \/ (e \in refused' /\ kind'[e] \in {"setMuch", "setMuchHash"})
    <3>1. e # i
      BY <1>5, <1>8, <2>1
    <3> QED BY <1>1, <1>5, <2>1, <3>1 DEF DataIInv, NilIsApplied
  <2> QED BY <2>1 DEF NilIsApplied
<1>16. (keys \in [OpId -> KeyLists])'
  BY <1>5
<1> QED BY <1>1, <1>11, <1>12, <1>13, <1>14, <1>15, <1>16 DEF DataIInv
\* A key expires.
LEMMA ExpiredStep ==
    ASSUME DataIInv, NEW k \in Key, Expired(k)
    PROVE  DataIInv' /\ \E x \in ttl : db' = [db EXCEPT !["string"][x] = Absent]
<1>1. /\ k \in ttl /\ ttl' = ttl \ {k} /\ db' = [db EXCEPT !["string"][k] = Absent]
      /\ past' = past \cup {<<db', list>>}
      /\ UNCHANGED <<kind, keys, curOp, wire, multi, queue, list, res, applied, refused>>
  BY DEF Expired
<1>2. /\ db \in Tables
      /\ ttl \subseteq Key /\ \A x \in ttl : db["string"][x] # Absent
  BY DEF DataIInv, DataTypes
<1>3. db' \in Tables
  <2>1. Absent \in Value
    BY DEF Value
  <2>2. db \in [{"string", "hash"} -> [Key -> Value]] /\ \A f \in Key : db["hash"][f] # Other
    BY <1>2 DEF Tables
  <2>3. db' \in [{"string", "hash"} -> [Key -> Value]] /\ db'["hash"] = db["hash"]
    BY <1>1, <2>1, <2>2
  <2> QED BY <2>2, <2>3 DEF Tables
<1>4. ttl' \subseteq Key /\ \A x \in ttl' : db'["string"][x] # Absent
  BY <1>1, <1>2 DEF Tables
<1>5. DataTypes'
  BY <1>1, <1>3, <1>4 DEF DataIInv, DataTypes
<1>6. ScriptInv'
  BY <1>1 DEF DataIInv, ScriptInv, OneSession, Script
<1>7. ToldInv'
  <2>1. past \subseteq past' /\ <<db', list'>> \in past'
    BY <1>1
  <2>2. \A i \in OpId : \E m \in past' : TrueOf(kind'[i], keys'[i], res'[i], m)
    BY <1>1, <2>1 DEF DataIInv, ToldInv
  <2> QED BY <1>1, <2>1, <2>2 DEF DataIInv, ToldInv
<1>8. ListInv' /\ NilIsApplied' /\ (keys \in [OpId -> KeyLists])'
  BY <1>1 DEF DataIInv, ListInv, NilIsApplied
<1> QED BY <1>1, <1>5, <1>6, <1>7, <1>8 DEF DataIInv

\* What a step may do to the strings and the hash.
WholeStep ==
    \/ UNCHANGED db
    \/ \E k \in ttl : db' = [db EXCEPT !["string"][k] = Absent]
    \/ \E p \in Session : WritesAll(p)

\* Every step keeps the invariant and writes as WholeWrites says.
LEMMA DataStepKeeps ==
    ASSUME DataIInv, [DataNext]_dataVars
    PROVE  DataIInv' /\ WholeStep
<1>1. ASSUME NEW p \in Session, NEW i \in OpId, IsNext(p, i), NEW op \in Together(i),
             NEW ks \in KeysOf(op), Begin(p, i, op, ks)
      PROVE  DataIInv' /\ WholeStep
  BY <1>1, BeginStep DEF WholeStep
<1>2. ASSUME NEW p \in Session, Queued(p) PROVE DataIInv' /\ WholeStep
  BY <1>2, QueuedStep DEF WholeStep
<1>3. ASSUME NEW p \in Session, DoSet(p) \/ DoDel(p) \/ DoHset(p) \/ DoHdel(p) \/ DoHincrby(p)
      PROVE  DataIInv' /\ WholeStep
  BY <1>3, WriteSteps DEF WholeStep
<1>4. ASSUME NEW p \in Session,
             DoExpire(p) \/ DoLtrim(p) \/ DoPop(p) \/ DoPopBlock(p) \/ DoRpop(p) \/ Break(p)
      PROVE  DataIInv' /\ WholeStep
  BY <1>4, OtherSteps DEF WholeStep
<1>5. ASSUME NEW p \in Session, DoExec(p) PROVE DataIInv' /\ WholeStep
  BY <1>5, ExecStep DEF WholeStep
<1>6. ASSUME NEW p \in Session, DoRead(p) PROVE DataIInv' /\ WholeStep
  BY <1>6, ReadStep DEF WholeStep
<1>10. ASSUME NEW p \in Session, DoExecRefused(p) PROVE DataIInv' /\ WholeStep
  BY <1>10, RefusedStep DEF WholeStep
<1>7. ASSUME NEW p \in Session, DoPush(p) PROVE DataIInv' /\ WholeStep
  BY <1>7, PushStep DEF WholeStep
<1>8. ASSUME NEW k \in Key, Expired(k) PROVE DataIInv' /\ WholeStep
  BY <1>8, ExpiredStep DEF WholeStep
<1>9. ASSUME UNCHANGED dataVars PROVE DataIInv' /\ WholeStep
  <2>1. UNCHANGED <<kind, keys, curOp, wire, multi, queue, db, ttl, list, res, past, applied, refused>>
    BY <1>9 DEF dataVars
  <2>2. DataTypes' /\ (keys \in [OpId -> KeyLists])'
    BY <2>1 DEF DataIInv, DataTypes
  <2>3. ScriptInv'
    BY <2>1 DEF DataIInv, ScriptInv, OneSession, Script
  <2>4. ToldInv' /\ ListInv' /\ NilIsApplied'
    BY <2>1 DEF DataIInv, ToldInv, ListInv, NilIsApplied
  <2> QED BY <2>1, <2>2, <2>3, <2>4 DEF DataIInv, WholeStep
<1> QED BY <1>1, <1>2, <1>3, <1>4, <1>5, <1>6, <1>7, <1>8, <1>9, <1>10
    DEF DataNext

\* It holds before anything is sent.
LEMMA DataInitInv == DataInit => DataIInv
<1> SUFFICES ASSUME DataInit PROVE DataIInv
  OBVIOUS
<1>0. NoOp \notin OpId /\ NoOp \notin AllDataOps
  BY DataAssumption DEF OpId
<1>1. /\ kind = [i \in OpId |-> NoOp] /\ keys = [i \in OpId |-> <<>>]
      /\ curOp = [p \in Session |-> NoOp] /\ wire = [p \in Session |-> <<>>]
      /\ multi = [p \in Session |-> FALSE] /\ queue = [p \in Session |-> <<>>]
      /\ db \in Tables
      /\ ttl = {} /\ list = <<>> /\ past = {<<db, list>>}
      /\ res = [i \in OpId |-> Pending] /\ applied = {}
  <2>1. PICK x \in SUBSET OtherKeys :
            db = [t \in {"string", "hash"} |->
                    [k \in Key |-> IF t = "string" /\ k \in x THEN Other ELSE Absent]]
    BY DEF DataInit
  <2>2. Absent \in Value /\ Other \in Value /\ Absent # Other
    BY DEF Value, Absent, Other
  <2>3. /\ db \in [{"string", "hash"} -> [Key -> Value]]
        /\ \A f \in Key : db["hash"][f] = Absent
    BY <2>1, <2>2
  <2> QED BY <2>2, <2>3 DEF DataInit, Tables
<1>2. <<>> \in KeyLists /\ <<>> \in Seq(Key) /\ <<>> \in Seq(Command) /\ Len(<<>>) = 0
  BY KeyListsAreSeqs
<1>3. list \in Seq(OpId \X Key) /\ Len(list) = 0
  BY <1>1
<1>4. /\ kind \in [OpId -> AllDataOps \cup {NoOp}] /\ keys \in [OpId -> Seq(Key)]
      /\ keys \in [OpId -> KeyLists]
  BY <1>1, <1>2
<1>5. /\ curOp \in [Session -> OpId \cup {NoOp}] /\ wire \in [Session -> Seq(Command)]
      /\ multi \in [Session -> BOOLEAN] /\ queue \in [Session -> Seq(Command)]
  BY <1>1, <1>2
<1>6. /\ res = [i \in OpId |-> res[i]] /\ \A i \in OpId : res[i] = Pending
      /\ Pending.err = "pending"
  BY <1>1 DEF Pending
<1>7. DataTypes
  BY <1>1, <1>3, <1>4, <1>5, <1>6 DEF DataTypes
<1>8. ScriptInv
  BY <1>1 DEF ScriptInv, OneSession
<1>9. ToldInv
  <2>1. \A m : TrueOf(NoOp, <<>>, Pending, m)
    BY ErrorsAreTrue
  <2>2. <<db, list>> \in past /\ \A i \in OpId : kind[i] = NoOp /\ keys[i] = <<>>
    BY <1>1
  <2> QED BY <1>6, <2>1, <2>2 DEF ToldInv
<1>10. ListInv
  <2>1. ASSUME NEW i \in OpId PROVE Block(list, i, keys[i])
    <3>1. BlockAt(list, i, keys[i], 1, 0, 0)
      <4>1. \A j \in 1..Len(list) : FALSE
        BY <1>3
      <4> QED BY <4>1 DEF BlockAt
    <3> DEFINE lo == 1
               hi == 0
    <3>2. lo \in Int /\ hi \in Int /\ keys[i] \in {keys[i], Reverse(keys[i])}
      OBVIOUS
    <3>3. BlockAt(list, i, keys[i], lo, hi, hi)
      BY <3>1
    <3> HIDE DEF lo, hi
    <3> QED BY <3>2, <3>3, BlockIs
  <2>2. \A j \in 1..Len(list) : FALSE
    BY <1>3
  <2> QED BY <2>1, <2>2 DEF ListInv
<1>11. NilIsApplied
  BY <1>6 DEF NilIsApplied
<1> QED BY <1>4, <1>7, <1>8, <1>9, <1>10, <1>11 DEF DataIInv
\* The blocks of the list, as the property states them.
LEMMA BlocksArePushes == DataIInv => PushedTogether
<1> SUFFICES ASSUME DataIInv, NEW i \in OpId
             PROVE  LET at == {j \in DOMAIN list : list[j][1] = i}
                        order == {keys[i], Reverse(keys[i])}
                    IN  /\ \A j, k \in at : \A m \in j..k : m \in at
                        /\ at # {} =>
                             \E o \in order, d \in 0..Len(keys[i]) :
                                LET first == CHOOSE j \in at : \A k \in at : j <= k
                                IN  \A j \in at : list[j][2] = o[j - first + 1 + d]
  BY DEF PushedTogether
<1> DEFINE at == {j \in DOMAIN list : list[j][1] = i}
           first == CHOOSE j \in at : \A k \in at : j <= k
           ks == keys[i]
<1>1. PICK o \in {ks, Reverse(ks)}, lo \in Int, hi \in Int, d \in Int : BlockAt(list, i, o, lo, hi, d)
  BY DEF DataIInv, ListInv, Block
<1>2. DOMAIN list = 1..Len(list) /\ Len(list) \in Nat
  BY LenProperties DEF DataIInv, DataTypes
<1>3. ks \in Seq(Key)
  BY DEF DataIInv, DataTypes
<1>4. Len(o) = Len(ks) /\ Len(ks) \in Nat
  BY <1>3, ReverseIs
<1>5. at = {j \in 1..Len(list) : lo <= j /\ j <= hi}
  BY <1>1, <1>2 DEF BlockAt
<1>6. \A j \in at : j \in Int /\ j + d \in 1..Len(o) /\ list[j][2] = o[j + d]
  BY <1>1, <1>2 DEF BlockAt
<1> HIDE DEF at, ks
<1>7. \A j, k \in at : \A m \in j..k : m \in at
  <2> SUFFICES ASSUME NEW j \in at, NEW k \in at, NEW m \in j..k PROVE m \in at
    OBVIOUS
  <2>1. /\ j \in 1..Len(list) /\ lo <= j /\ k \in 1..Len(list) /\ k <= hi
        /\ m \in Int /\ j <= m /\ m <= k
    BY <1>5
  <2>2. m \in 1..Len(list) /\ lo <= m /\ m <= hi
    BY <1>2, <2>1
  <2> QED BY <1>5, <2>2
<1>8. ASSUME at # {}
      PROVE  \E e \in 0..Len(ks) : \A j \in at : list[j][2] = o[j - first + 1 + e]
  <2> DEFINE f == IF lo >= 1 THEN lo ELSE 1
  <2>1. PICK j0 \in at : TRUE
    BY <1>8
  <2>2. /\ j0 \in Int /\ 1 <= j0 /\ j0 <= Len(list) /\ lo <= j0 /\ j0 <= hi
    BY <1>5, <2>1
  <2>3. f \in Int /\ 1 <= f /\ f <= j0 /\ lo <= f
    BY <2>2
  <2>4. f \in 1..Len(list) /\ f <= hi
    BY <1>2, <2>2, <2>3
  <2>5. f \in at
    BY <1>5, <2>3, <2>4
  <2>6. \A k \in at : f <= k
    BY <1>5
  <2> HIDE DEF f
  <2>7. first \in at /\ \A k \in at : first <= k
    BY <2>5, <2>6
  <2>8. first = f
    <3>1. first \in Int /\ first <= f /\ f <= first
      BY <1>6, <2>5, <2>6, <2>7
    <3> QED BY <2>3, <3>1
  <2> HIDE DEF first
  <2> DEFINE e == f - 1 + d
  <2>9. f + d \in 1..Len(ks)
    BY <1>4, <1>6, <2>5
  <2>10. e \in 0..Len(ks)
    BY <1>4, <2>3, <2>9
  <2>11. ASSUME NEW j \in at PROVE list[j][2] = o[j - first + 1 + e]
    <3>1. j \in Int /\ j - f + 1 + e = j + d
      BY <1>6, <2>3
    <3> QED BY <1>6, <2>8, <3>1
  <2> HIDE DEF e
  <2> QED BY <2>10, <2>11
<1> QED BY <1>1, <1>7, <1>8 DEF at, ks

\* All that callers were told of strings, hash and list agrees with what the
\* server did, and a key with a time to live exists.
LEMMA DataIInvIsEnough == DataIInv => DataInv
<1> SUFFICES ASSUME DataIInv PROVE DataInv
  OBVIOUS
<1>1. DataTypeOK
  BY DEF DataIInv, DataTypes, DataTypeOK, Tables, Value
<1>2. NilIsApplied /\ SnapshotReads
  BY DEF DataIInv, ToldInv, SnapshotReads
<1> QED BY <1>1, <1>2, BlocksArePushes DEF DataInv

\* The operations of RedisModule report of strings, hash and list what the server
\* held at one moment, repeated keys and keys of another type included; the values
\* of one push stay together; and no operation reports success without its effect,
\* but for SetStringJSONExpire and for a transaction whose writes the server ran
\* and refused (setMuchStringByExpire and SetMuchHashJSON look at no element of the
\* reply).  For every number of connections, keys and operations, however their
\* commands interleave and break.
THEOREM DataSafe == DataSpec => []DataInv
<1>1. DataInit => DataIInv
  BY DataInitInv
<1>2. DataIInv /\ [DataNext]_dataVars => DataIInv'
  BY DataStepKeeps
<1>3. DataIInv => DataInv
  BY DataIInvIsEnough
<1> QED BY <1>1, <1>2, <1>3, PTL DEF DataSpec

\* Strings and hash change by whole operations: the writes of one transaction are
\* all made or none is, and nothing else changes but by a key that expires.
THEOREM WholeWritesHold == DataSpec => WholeWrites
<1>1. DataInit => DataIInv
  BY DataInitInv
<1>2. DataIInv /\ [DataNext]_dataVars => DataIInv'
  BY DataStepKeeps
<1>3. ASSUME DataIInv, [DataNext]_dataVars
      PROVE [\/ \E k \in ttl : db' = [db EXCEPT !["string"][k] = Absent]
             \/ \E p \in Session :
                  LET i == curOp[p]
                      new == IF kind[i] \in {"delString", "delMuch", "delMuchHash"} THEN Absent
                             ELSE i
                  IN  /\ i # NoOp
                      /\ db' = [db EXCEPT ![Table(kind[i])] =
                                   [k \in Key |-> IF k \in Range(keys[i]) THEN new ELSE @[k]]]]_db
  BY <1>3, DataStepKeeps DEF WholeStep, WritesAll
<1> QED BY <1>1, <1>2, <1>3, PTL DEF DataSpec, WholeWrites

-----------------------------------------------------------------------------
(***************************************************************************)
(* The sorted set.  A call in progress has seen the content of the set, so *)
(* its reply, which is about the content it meets, is about one it saw.    *)
(* What remains is that each reply describes the content: the members in   *)
(* the server's order are found again, in their places and with their      *)
(* scores, in what the caller decodes.                                     *)
(***************************************************************************)
\* The contents the sorted set can have.
Content == [Member -> Score \cup {Absent}]

\* The order of a reply.
Comes(z, m, n, asc) == IF asc THEN Precedes(z, m, n) ELSE Precedes(z, n, m)

\* s lists ms in that order.
Lists(z, s, ms, asc) ==
    /\ s \in Seq(ms) /\ s \in [1..Cardinality(ms) -> ms] /\ Len(s) = Cardinality(ms)
    /\ \A j, k \in 1..Len(s) : j < k => Comes(z, s[j], s[k], asc)
    /\ \A m \in ms : \E j \in 1..Len(s) : s[j] = m

\* The server's order is strict and total.
LEMMA StrictOrder ==
    ASSUME NEW z \in Content, NEW m \in InSet(z), NEW n \in InSet(z)
    PROVE  /\ m = n \/ Precedes(z, m, n) \/ Precedes(z, n, m)
           /\ ~(Precedes(z, m, n) /\ Precedes(z, n, m)) /\ ~Precedes(z, m, m)
           /\ \A k \in InSet(z) : Precedes(z, m, n) /\ Precedes(z, n, k) => Precedes(z, m, k)
<1>1. \A k \in InSet(z) : k \in Nat /\ z[k] \in Nat
  BY ZSetAssumption DEF InSet, Content, Score, Absent
<1>2. m \in Nat /\ n \in Nat /\ z[m] \in Nat /\ z[n] \in Nat
  BY <1>1
<1>3. ASSUME NEW k \in InSet(z) PROVE Precedes(z, m, n) /\ Precedes(z, n, k) => Precedes(z, m, k)
  <2>1. k \in Nat /\ z[k] \in Nat
    BY <1>1
  <2> QED BY <1>2, <2>1 DEF Precedes
<1>4. m = n \/ Precedes(z, m, n) \/ Precedes(z, n, m)
  BY <1>2 DEF Precedes
<1>5. ~(Precedes(z, m, n) /\ Precedes(z, n, m)) /\ ~Precedes(z, m, m)
  BY <1>2 DEF Precedes
<1> QED BY <1>3, <1>4, <1>5

\* A set of members can be listed in the server's order: a member's place is the
\* number of those that precede it, and no two have one place.
LEMMA RankingExists ==
    ASSUME NEW z \in Content, NEW ms \in SUBSET InSet(z)
    PROVE  \E s \in [1..Cardinality(ms) -> ms] : Ascends(z, s)
<1> DEFINE N == Cardinality(ms)
           Under(m) == {n \in ms : Precedes(z, n, m)}
           place == [m \in ms |-> Cardinality(Under(m)) + 1]
<1>1. IsFiniteSet(ms) /\ N \in Nat
  <2>1. ms \in SUBSET Member
    BY DEF InSet
  <2>2. IsFiniteSet(ms)
    BY <2>1, ZSetAssumption, FS_Subset
  <2> QED BY <2>2, FS_CardinalityType
<1>2. ASSUME NEW m \in ms
      PROVE  IsFiniteSet(Under(m)) /\ Cardinality(Under(m)) \in Nat /\ Cardinality(Under(m)) < N
  <2>1. Under(m) \in SUBSET ms /\ m \notin Under(m)
    BY StrictOrder
  <2> HIDE DEF Under
  <2>2. IsFiniteSet(Under(m)) /\ Cardinality(Under(m)) <= N /\ (Cardinality(Under(m)) = N => Under(m) = ms)
    BY <1>1, <2>1, FS_Subset
  <2>3. Cardinality(Under(m)) \in Nat
    BY <2>2, FS_CardinalityType
  <2>4. Cardinality(Under(m)) # N
    BY <2>1, <2>2
  <2> HIDE DEF N
  <2> QED BY <1>1, <2>2, <2>3, <2>4
<1>3. ASSUME NEW m \in ms, NEW n \in ms, Precedes(z, m, n)
      PROVE  Cardinality(Under(m)) < Cardinality(Under(n))
  <2>1. Under(m) \in SUBSET Under(n)
    <3> SUFFICES ASSUME NEW k \in ms, Precedes(z, k, m) PROVE Precedes(z, k, n)
      OBVIOUS
    <3>1. k \in InSet(z) /\ m \in InSet(z) /\ n \in InSet(z)
      OBVIOUS
    <3> QED BY <1>3, <3>1, StrictOrder
  <2>2. m \in Under(n) /\ m \notin Under(m)
    BY <1>3, StrictOrder
  <2>3. /\ Cardinality(Under(m)) \in Nat /\ Cardinality(Under(n)) \in Nat /\ IsFiniteSet(Under(n))
    BY <1>2
  <2> HIDE DEF Under
  <2>4. Cardinality(Under(m)) <= Cardinality(Under(n))
        /\ (Cardinality(Under(m)) = Cardinality(Under(n)) => Under(m) = Under(n))
    BY <2>1, <2>3, FS_Subset
  <2>5. Cardinality(Under(m)) # Cardinality(Under(n))
    BY <2>2, <2>4
  <2> QED BY <2>3, <2>4, <2>5
<1> HIDE DEF N, Under
<1>4. /\ place \in [ms -> 1..N]
      /\ \A m, n \in ms : Precedes(z, m, n) => place[m] < place[n]
  <2>1. ASSUME NEW m \in ms PROVE place[m] \in 1..N
    BY <1>1, <1>2
  <2>2. ASSUME NEW m \in ms, NEW n \in ms, Precedes(z, m, n) PROVE place[m] < place[n]
    BY <1>2, <1>3, <2>2
  <2>3. place = [m \in ms |-> place[m]]
    OBVIOUS
  <2> HIDE DEF place
  <2>4. place \in [ms -> 1..N]
    BY <2>1, <2>3
  <2> QED BY <2>2, <2>4
<1> HIDE DEF place
<1>5. place \in Injection(ms, 1..N)
  <2>1. ASSUME NEW m \in ms, NEW n \in ms, m # n PROVE place[m] # place[n]
    <3>1. Precedes(z, m, n) \/ Precedes(z, n, m)
      BY <2>1, StrictOrder
    <3>2. place[m] \in Nat /\ place[n] \in Nat
      BY <1>4
    <3> QED BY <1>4, <3>1, <3>2
  <2>2. place \in [ms -> 1..N]
    BY <1>4
  <2> QED BY <2>1, <2>2 DEF Injection, IsInjective
<1>6. place \in Surjection(ms, 1..N)
  <2>1. IsFiniteSet(1..N) /\ Cardinality(1..N) = N
    BY <1>1, FS_Interval
  <2> QED BY <1>5, <2>1, FS_Injection DEF N
<1> DEFINE s == [j \in 1..N |-> CHOOSE m \in ms : place[m] = j]
<1>7. ASSUME NEW j \in 1..N PROVE s[j] \in ms /\ place[s[j]] = j
  <2>1. \E m \in ms : place[m] = j
    BY <1>6 DEF Surjection
  <2> QED BY <2>1
<1>8. s = [j \in 1..N |-> s[j]]
  OBVIOUS
<1> HIDE DEF s
<1>9. s \in [1..N -> ms] /\ DOMAIN s = 1..N
  BY <1>7, <1>8
<1>10. ASSUME NEW j \in 1..N, NEW k \in 1..N, j < k PROVE Precedes(z, s[j], s[k])
  <2>1. s[j] \in ms /\ s[k] \in ms /\ place[s[j]] = j /\ place[s[k]] = k
    BY <1>7
  <2>2. s[j] # s[k]
    BY <1>10, <2>1
  <2>3. ~Precedes(z, s[k], s[j])
    <3>1. Precedes(z, s[k], s[j]) => k < j
      BY <1>4, <2>1
    <3> QED BY <1>10, <3>1
  <2> QED BY <2>1, <2>2, <2>3, StrictOrder
<1>11. Ascends(z, s)
  BY <1>9, <1>10 DEF Ascends
<1> QED BY <1>9, <1>11 DEF N

\* Ranking lists the set, and so does its reverse the other way.
LEMMA RankingLists ==
    ASSUME NEW z \in Content, NEW ms \in SUBSET InSet(z), NEW asc \in BOOLEAN
    PROVE  /\ Lists(z, Directed(Ranking(z, ms), asc), ms, asc)
           /\ IsFiniteSet(ms) /\ Cardinality(ms) \in Nat
<1> DEFINE N == Cardinality(ms)
           s == Ranking(z, ms)
           t == Directed(s, asc)
<1>1. IsFiniteSet(ms) /\ N \in Nat
  <2>1. ms \in SUBSET Member
    BY DEF InSet
  <2>2. IsFiniteSet(ms)
    BY <2>1, ZSetAssumption, FS_Subset
  <2> QED BY <2>2, FS_CardinalityType
<1>2. /\ s \in [1..N -> ms]
      /\ \A j, k \in DOMAIN s : j < k => Precedes(z, s[j], s[k])
  <2>1. \E q \in [1..N -> ms] : Ascends(z, q)
    BY RankingExists
  <2>2. s = CHOOSE q \in [1..N -> ms] : Ascends(z, q)
    BY DEF Ranking
  <2> HIDE DEF N, s
  <2>3. s \in [1..N -> ms] /\ Ascends(z, s)
    BY <2>1, <2>2
  <2> QED BY <2>3 DEF Ascends
<1> HIDE DEF s
<1>3. s \in Seq(ms) /\ Len(s) = N
  <2> HIDE DEF N
  <2> QED BY <1>1, <1>2
<1>4. \A j, k \in 1..N : j < k => Precedes(z, s[j], s[k])
  BY <1>2
<1>5. \A m \in ms : \E j \in 1..N : s[j] = m
  <2>1. s \in Injection(1..N, ms)
    <3>1. ASSUME NEW j \in 1..N, NEW k \in 1..N, j # k PROVE s[j] # s[k]
      <4>1. j < k \/ k < j
        BY <3>1
      <4>2. s[j] \in InSet(z) /\ s[k] \in InSet(z)
        BY <1>2
      <4>3. Precedes(z, s[j], s[k]) \/ Precedes(z, s[k], s[j])
        BY <1>4, <4>1
      <4> QED BY <4>2, <4>3, StrictOrder
    <3> QED BY <1>2, <3>1 DEF Injection, IsInjective
  <2>2. IsFiniteSet(1..N) /\ Cardinality(1..N) = N
    BY <1>1, FS_Interval
  <2>3. s \in Surjection(1..N, ms)
    BY <1>1, <2>1, <2>2, FS_Injection
  <2> QED BY <2>3 DEF Surjection
<1>6. /\ t \in Seq(ms) /\ Len(t) = N
      /\ \A j \in 1..N : t[j] = IF asc THEN s[j] ELSE s[(N + 1) - j]
  <2>1. CASE asc
    BY <1>3, <2>1 DEF Directed
  <2>2. CASE ~asc
    <3>1. t = [j \in 1..N |-> s[(N - j) + 1]]
      BY <1>3, <2>2 DEF Directed, Reverse
    <3> HIDE DEF t
    <3>2. ASSUME NEW j \in 1..N PROVE t[j] = s[(N + 1) - j] /\ t[j] \in ms
      <4> HIDE DEF N
      <4>1. (N - j) + 1 \in 1..N /\ (N - j) + 1 = (N + 1) - j
        BY <1>1
      <4> QED BY <1>2, <3>1, <4>1 DEF N
    <3>3. t \in [1..N -> ms]
      BY <3>1, <3>2
    <3>4. t \in Seq(ms) /\ Len(t) = N
      <4> HIDE DEF N
      <4> QED BY <1>1, <3>3
    <3> QED BY <2>2, <3>2, <3>4
  <2> QED BY <2>1, <2>2
<1> HIDE DEF t
<1>7. \A j, k \in 1..N : j < k => Comes(z, t[j], t[k], asc)
  <2> SUFFICES ASSUME NEW j \in 1..N, NEW k \in 1..N, j < k PROVE Comes(z, t[j], t[k], asc)
    OBVIOUS
  <2>1. CASE asc
    BY <1>4, <1>6, <2>1 DEF Comes
  <2>2. CASE ~asc
    <3>1. (N + 1) - j \in 1..N /\ (N + 1) - k \in 1..N /\ (N + 1) - k < (N + 1) - j
      <4> HIDE DEF N
      <4> QED BY <1>1
    <3>2. Precedes(z, s[(N + 1) - k], s[(N + 1) - j])
      BY <1>4, <3>1
    <3>3. t[j] = s[(N + 1) - j] /\ t[k] = s[(N + 1) - k]
      BY <1>6, <2>2
    <3> QED BY <2>2, <3>2, <3>3 DEF Comes
  <2> QED BY <2>1, <2>2
<1>8. \A m \in ms : \E j \in 1..N : t[j] = m
  <2> SUFFICES ASSUME NEW m \in ms PROVE \E j \in 1..N : t[j] = m
    OBVIOUS
  <2>1. PICK i \in 1..N : s[i] = m
    BY <1>5
  <2>2. CASE asc
    BY <1>6, <2>1, <2>2
  <2>3. CASE ~asc
    <3>1. (N + 1) - i \in 1..N /\ (N + 1) - ((N + 1) - i) = i
      <4> HIDE DEF N
      <4> QED BY <1>1
    <3>2. t[(N + 1) - i] = s[(N + 1) - ((N + 1) - i)]
      BY <1>6, <2>3, <3>1
    <3> QED BY <2>1, <3>1, <3>2
  <2> QED BY <2>2, <2>3
<1>9. t \in [1..N -> ms]
  <2>1. \A j \in 1..Len(t) : t[j] \in ms
    BY <1>6
  <2>2. t = [j \in 1..N |-> t[j]]
    BY <1>6
  <2> QED BY <1>6, <2>1, <2>2
<1> QED BY <1>1, <1>6, <1>7, <1>8, <1>9 DEF Lists, t, s

\* The places of t hold different members of ms, in its order.
Apart(z, t, ms, asc) ==
    \A j, k \in 1..Len(t) :
        /\ t[j] \in ms /\ t[k] \in ms
        /\ t[j] = t[k] => j = k
        /\ Comes(z, t[j], t[k], asc) <=> j < k

\* A list of ms in its order has them once each, at places in that order.
LEMMA ListsApart ==
    ASSUME NEW z \in Content, NEW ms \in SUBSET InSet(z), NEW asc \in BOOLEAN, NEW t,
           Lists(z, t, ms, asc)
    PROVE  Apart(z, t, ms, asc)
<1> SUFFICES ASSUME NEW j \in 1..Len(t), NEW k \in 1..Len(t)
             PROVE  /\ t[j] \in ms /\ t[k] \in ms
                    /\ t[j] = t[k] => j = k
                    /\ Comes(z, t[j], t[k], asc) <=> j < k
  BY DEF Apart
<1>1. t[j] \in ms /\ t[k] \in ms /\ t[j] \in InSet(z) /\ t[k] \in InSet(z)
  BY DEF Lists
<1>2. /\ j < k => Comes(z, t[j], t[k], asc)
      /\ k < j => Comes(z, t[k], t[j], asc)
  BY DEF Lists
<1>3. j < k \/ k < j \/ j = k
  OBVIOUS
<1>4. j < k => Comes(z, t[j], t[k], asc) /\ t[j] # t[k]
  BY <1>1, <1>2, StrictOrder DEF Comes
<1>5. k < j => ~Comes(z, t[j], t[k], asc) /\ t[j] # t[k]
  BY <1>1, <1>2, StrictOrder DEF Comes
<1>6. j = k => ~Comes(z, t[j], t[k], asc)
  BY <1>1, StrictOrder DEF Comes
<1>7. ~(j < k) => ~Comes(z, t[j], t[k], asc)
  BY <1>3, <1>5, <1>6
<1>8. t[j] = t[k] => j = k
  BY <1>3, <1>4, <1>5
<1> QED BY <1>1, <1>4, <1>7, <1>8

\* The members of the first h places.
Firsts(t, h) == {t[j] : j \in 1..h}

\* They are h.
LEMMA FirstsCount ==
    ASSUME NEW z \in Content, NEW ms \in SUBSET InSet(z), NEW asc \in BOOLEAN, NEW t,
           Lists(z, t, ms, asc), NEW h \in 0..Len(t)
    PROVE  Cardinality(Firsts(t, h)) = h
<1> DEFINE g == [j \in 1..h |-> t[j]]
<1>0. \A j, k \in 1..Len(t) : t[j] = t[k] => j = k
  <2>1. Apart(z, t, ms, asc)
    BY ListsApart
  <2> QED BY <2>1 DEF Apart
<1>1. Len(t) \in Nat /\ h \in Nat /\ \A j \in 1..h : j \in 1..Len(t)
  BY DEF Lists
<1>2. g \in [1..h -> Firsts(t, h)]
  BY DEF Firsts
<1>3. \A j \in 1..h : g[j] = t[j]
  OBVIOUS
<1> HIDE DEF g
<1>4. \A x \in Firsts(t, h) : \E j \in 1..h : g[j] = x
  BY <1>3 DEF Firsts
<1>5. ASSUME NEW j \in 1..h, NEW k \in 1..h, g[j] = g[k] PROVE j = k
  <2>1. t[j] = t[k] /\ j \in 1..Len(t) /\ k \in 1..Len(t)
    BY <1>1, <1>3, <1>5
  <2> QED BY <1>0, <2>1
<1>6. g \in Bijection(1..h, Firsts(t, h))
  BY <1>2, <1>4, <1>5 DEF Bijection, Injection, Surjection, IsInjective
<1>7. ExistsBijection(1..h, Firsts(t, h))
  BY <1>6 DEF ExistsBijection
<1> QED BY <1>1, <1>7, FS_CountingElements

\* The place of a member is the number of those before it.
LEMMA PlaceIsBefore ==
    ASSUME NEW z \in Content, NEW asc \in BOOLEAN, NEW t,
           Lists(z, t, InSet(z), asc), NEW j \in 1..Len(t)
    PROVE  Before(z, t[j], asc) = j - 1
<1>1. Len(t) \in Nat /\ t[j] \in InSet(z)
  BY DEF Lists
<1>0. \A i, k \in 1..Len(t) : t[i] \in InSet(z) /\ (Comes(z, t[i], t[k], asc) <=> i < k)
  <2>1. Apart(z, t, InSet(z), asc)
    BY ListsApart
  <2> QED BY <2>1 DEF Apart
<1> DEFINE B == {n \in InSet(z) : LET less == z[n] < z[t[j]] \/ (z[n] = z[t[j]] /\ n < t[j])
                                  IN  n # t[j] /\ (less <=> asc)}
<1>2. ASSUME NEW n \in InSet(z) PROVE n \in B <=> Comes(z, n, t[j], asc)
  <2>1. n \in B <=> n # t[j] /\ (Precedes(z, n, t[j]) <=> asc)
    BY DEF Precedes
  <2> QED BY <1>1, <2>1, StrictOrder DEF Comes
<1>3. B \subseteq InSet(z)
  OBVIOUS
<1>4. Before(z, t[j], asc) = Cardinality(B)
  BY DEF Before
<1> HIDE DEF B
<1>5. ASSUME NEW n PROVE n \in B <=> n \in Firsts(t, j - 1)
  <2>1. ASSUME n \in B PROVE n \in Firsts(t, j - 1)
    <3>1. n \in InSet(z) /\ Comes(z, n, t[j], asc)
      BY <1>2, <1>3, <2>1
    <3>2. PICK i \in 1..Len(t) : t[i] = n
      BY <3>1 DEF Lists
    <3>3. i < j
      BY <1>0, <3>1, <3>2
    <3>4. i \in 1..(j - 1)
      BY <3>3
    <3> QED BY <3>2, <3>4 DEF Firsts
  <2>2. ASSUME n \in Firsts(t, j - 1) PROVE n \in B
    <3>1. PICK i \in 1..(j - 1) : n = t[i]
      BY <2>2 DEF Firsts
    <3>2. i \in 1..Len(t) /\ i < j
      BY <1>1
    <3>3. t[i] \in InSet(z) /\ Comes(z, t[i], t[j], asc)
      BY <1>0, <3>2
    <3> QED BY <1>2, <3>1, <3>3
  <2> QED BY <2>1, <2>2
<1>6. B = Firsts(t, j - 1)
  BY <1>5
<1>7. j - 1 \in 0..Len(t)
  BY <1>1
<1> QED BY <1>4, <1>6, <1>7, FirstsCount

\* The text that makeListJson makes of the members s.
Made(z, s, scores, b) ==
    /\ DOMAIN b = 1..Len(s)
    /\ \A j \in 1..Len(s) : b[j].data = s[j] /\ (scores => b[j].score = z[s[j]])

\* What the caller of a range gets for the members s.
Decoded(z, s, scores, v) ==
    /\ Len(v) = Len(s) /\ DOMAIN v = 1..Len(s)
    /\ \A j \in 1..Len(s) :
           v[j].data = s[j] /\ (scores => v[j].values = 1 /\ v[j].score = z[s[j]])

\* The j-th pair of a flat reply is at 2j - 1 and 2j.
LEMMA Pairs ==
    ASSUME NEW n \in Nat
    PROVE  /\ (2 * n) \div 2 = n
           /\ \A j \in 1..n :
                  /\ 2 * j - 1 \in 1..(2 * n) /\ 2 * j \in 1..(2 * n)
                  /\ (2 * j - 1) % 2 = 1 /\ ((2 * j - 1) + 1) \div 2 = j
                  /\ (2 * j) % 2 = 0 /\ (2 * j) \div 2 = j
           /\ \A i \in 1..(2 * n) : /\ i % 2 = 1 => (i + 1) \div 2 \in 1..n
                                    /\ i % 2 # 1 => i \div 2 \in 1..n
OBVIOUS

\* makeListJson puts each member into the text, with its score.
LEMMA ListMade ==
    ASSUME NEW z \in Content, NEW s \in Seq(InSet(z)), NEW scores \in BOOLEAN
    PROVE  Made(z, s, scores, MakeListJson(FlatReply(z, s, scores), scores))
<1> DEFINE n == Len(s)
           w == FlatReply(z, s, scores)
           b == MakeListJson(w, scores)
<1>1. n \in Nat /\ DOMAIN s = 1..n /\ \A j \in 1..n : s[j] \in InSet(z)
  OBVIOUS
<1> SUFFICES Made(z, s, scores, b)
  OBVIOUS
<1>3. CASE ~scores
  <2>1. b = [j \in 1..n |-> [data |-> s[j], score |-> Absent]]
    BY <1>1, <1>3 DEF MakeListJson, FlatReply
  <2> HIDE DEF b
  <2>2. DOMAIN b = 1..n
    BY <2>1
  <2>3. \A j \in 1..n : b[j].data = s[j]
    BY <2>1
  <2> QED BY <1>3, <2>2, <2>3 DEF Made
<1>4. CASE scores
  <2> DEFINE V == InSet(z) \cup Score
  <2>1. w = [j \in 1..(2 * n) |-> IF j % 2 = 1 THEN s[(j + 1) \div 2] ELSE z[s[j \div 2]]]
    BY <1>4 DEF FlatReply
  <2> HIDE DEF w
  <2>2. \A m \in InSet(z) : z[m] \in Score
    BY DEF InSet, Content
  <2>3. \A i \in 1..(2 * n) : w[i] \in V
    <3> SUFFICES ASSUME NEW i \in 1..(2 * n) PROVE w[i] \in V
      OBVIOUS
    <3>1. w[i] = IF i % 2 = 1 THEN s[(i + 1) \div 2] ELSE z[s[i \div 2]]
      BY <2>1
    <3>2. CASE i % 2 = 1
      <4>1. (i + 1) \div 2 \in 1..n
        BY <1>1, <3>2, Pairs
      <4> QED BY <1>1, <3>1, <3>2, <4>1
    <3>3. CASE i % 2 # 1
      <4>1. i \div 2 \in 1..n
        BY <1>1, <3>3, Pairs
      <4> QED BY <1>1, <2>2, <3>1, <3>3, <4>1
    <3> QED BY <3>2, <3>3
  <2>4. Len(w) = 2 * n
    <3> HIDE DEF n
    <3> DEFINE d == 2 * n
    <3>1. d \in Nat
      BY <1>1
    <3>2. w \in [1..d -> V]
      BY <2>1, <2>3
    <3> HIDE DEF d, V
    <3>3. Len(w) = d
      BY <3>1, <3>2
    <3> QED BY <3>3 DEF d
  <2>5. b = [j \in 1..n |-> [data |-> w[2 * j - 1], score |-> w[2 * j]]]
    <3>1. b = [j \in 1..(Len(w) \div 2) |-> [data |-> w[2 * j - 1], score |-> w[2 * j]]]
      BY <1>4 DEF MakeListJson
    <3>2. Len(w) \div 2 = n
      BY <1>1, <2>4, Pairs
    <3> QED BY <3>1, <3>2
  <2> HIDE DEF b
  <2>6. \A j \in 1..n : w[2 * j - 1] = s[j] /\ w[2 * j] = z[s[j]]
    <3> SUFFICES ASSUME NEW j \in 1..n PROVE w[2 * j - 1] = s[j] /\ w[2 * j] = z[s[j]]
      OBVIOUS
    <3> DEFINE i == 2 * j - 1
               k == 2 * j
    <3>1. /\ i \in 1..(2 * n) /\ k \in 1..(2 * n) /\ i % 2 = 1 /\ (i + 1) \div 2 = j
          /\ k % 2 = 0 /\ k \div 2 = j
      BY <1>1, Pairs
    <3> HIDE DEF i, k, n
    <3>2. w[i] = s[j]
      <4>1. w[i] = IF i % 2 = 1 THEN s[(i + 1) \div 2] ELSE z[s[i \div 2]]
        BY <2>1, <3>1
      <4> QED BY <3>1, <4>1
    <3>3. w[k] = z[s[j]]
      <4>1. w[k] = IF k % 2 = 1 THEN s[(k + 1) \div 2] ELSE z[s[k \div 2]]
        BY <2>1, <3>1
      <4> QED BY <3>1, <4>1
    <3> QED BY <3>2, <3>3 DEF i, k
  <2>7. DOMAIN b = 1..n
    BY <2>5
  <2>8. \A j \in 1..n : b[j].data = w[2 * j - 1] /\ b[j].score = w[2 * j]
    BY <2>5
  <2>9. \A j \in 1..n : b[j].data = s[j] /\ b[j].score = z[s[j]]
    BY <2>6, <2>8
  <2> QED BY <2>7, <2>9 DEF Made
<1> QED BY <1>3, <1>4

\* json.Unmarshal gives the members back, each with its score, unless it refuses
\* the text: one that it reads as two values cannot stand beside a score.
LEMMA RangeDecoded ==
    ASSUME NEW z \in Content, NEW s \in Seq(InSet(z)), NEW scores \in BOOLEAN,
           \A j \in 1..Len(s) : Elements[s[j]] # 0,
           NEW r \in RangeJSON(z, s, scores), r.err = "nil"
    PROVE  Decoded(z, s, scores, r.val)
<1> DEFINE n == Len(s)
           b == MakeListJson(FlatReply(z, s, scores), scores)
           v == Parsed(b)
<1>1. n \in Nat /\ \A j \in 1..n : s[j] \in InSet(z) /\ s[j] \in Member
  BY DEF InSet
<1>2. r \in IF \E j \in DOMAIN v : v[j].values = 0 THEN {Failed, Nil(<<>>)}
            ELSE IF scores /\ \E j \in DOMAIN v : v[j].values # 1 THEN {Failed}
            ELSE {Nil(v)}
  BY DEF RangeJSON
<1>3. Made(z, s, scores, b)
  BY ListMade
<1> HIDE DEF b
<1>4. v = [j \in 1..n |-> [data |-> b[j].data, values |-> Elements[b[j].data],
                           score |-> b[j].score]]
  BY <1>3 DEF Made, Parsed
<1>5. /\ DOMAIN v = 1..n
      /\ \A j \in 1..n : /\ v[j].data = s[j] /\ v[j].values = Elements[s[j]]
                         /\ scores => v[j].score = z[s[j]]
  BY <1>3, <1>4 DEF Made
<1>6. Len(v) = n
  <2> DEFINE T == {v[j] : j \in 1..n}
  <2>1. v \in [1..n -> T]
    <3>1. v = [j \in 1..n |-> v[j]]
      BY <1>4
    <3> QED BY <3>1
  <2> HIDE DEF v, n, T
  <2> QED BY <1>1, <2>1
<1> HIDE DEF v
<1>7. ~\E j \in DOMAIN v : v[j].values = 0
  BY <1>5
<1>8. Failed.err # "nil" /\ Nil(v).val = v
  BY DEF Failed, Nil
<1>9. r = Nil(v) /\ ~(scores /\ \E j \in DOMAIN v : v[j].values # 1)
  BY <1>2, <1>7, <1>8
<1>10. r.val = v /\ (scores => \A j \in 1..n : v[j].values = 1)
  BY <1>5, <1>8, <1>9
<1> QED BY <1>5, <1>6, <1>10 DEF Decoded

\* The first h elements of v are the members of t, with scores if c wants them.
Shows(v, t, h, z, c) ==
    /\ Len(v) = h /\ DOMAIN v = 1..h
    /\ \A j \in 1..h : v[j].data = t[j]
    /\ c.scores => \A j \in 1..h : v[j].values = 1 /\ v[j].score = z[t[j]]

\* A reply of the first h members of a list is in order.
LEMMA FirstsInOrder ==
    ASSUME NEW z \in Content, NEW ms \in SUBSET InSet(z), NEW asc \in BOOLEAN,
           NEW c, c.asc = asc, NEW t, Lists(z, t, ms, asc),
           NEW h \in 0..Len(t), NEW v, Shows(v, t, h, z, c)
    PROVE  ListsInOrder(v, Firsts(t, h), z, c)
<1>0. /\ Len(v) = h /\ DOMAIN v = 1..h /\ \A j \in 1..h : v[j].data = t[j]
      /\ c.scores => \A j \in 1..h : v[j].values = 1 /\ v[j].score = z[t[j]]
  BY DEF Shows
<1>1. Cardinality(Firsts(t, h)) = h
  BY FirstsCount
<1>2. {v[j].data : j \in DOMAIN v} = Firsts(t, h)
  BY <1>0 DEF Firsts
<1>3. \A j, k \in 1..Len(t) : j < k => t[j] \in ms /\ t[k] \in ms /\ Comes(z, t[j], t[k], asc)
  <2>1. Apart(z, t, ms, asc)
    BY ListsApart
  <2> QED BY <2>1 DEF Apart
<1>4. ASSUME NEW j \in DOMAIN v, NEW k \in DOMAIN v, j < k
      PROVE  IF asc THEN z[v[j].data] <= z[v[k].data] ELSE z[v[j].data] >= z[v[k].data]
  <2>1. j \in 1..Len(t) /\ k \in 1..Len(t)
    BY <1>0 DEF Lists
  <2>2. t[j] \in InSet(z) /\ t[k] \in InSet(z) /\ Comes(z, t[j], t[k], asc)
    BY <1>3, <1>4, <2>1
  <2>3. z[t[j]] \in Nat /\ z[t[k]] \in Nat
    BY <2>2 DEF InSet, Content, Score, Absent
  <2>4. v[j].data = t[j] /\ v[k].data = t[k]
    BY <1>0
  <2>5. IF asc THEN z[t[j]] <= z[t[k]] ELSE z[t[j]] >= z[t[k]]
    BY <2>2, <2>3 DEF Comes, Precedes
  <2> QED BY <2>4, <2>5
<1>5. Len(v) = Cardinality(Firsts(t, h))
  BY <1>0, <1>1
<1>6. c.scores => \A j \in DOMAIN v : v[j].values = 1 /\ v[j].score = z[v[j].data]
  BY <1>0
<1> QED BY <1>2, <1>4, <1>5, <1>6 DEF ListsInOrder

\* Of the calls, what the results depend on.
ShapeOf(c) ==
    /\ c.asc \in BOOLEAN /\ c.scores \in BOOLEAN /\ c.ms \in SUBSET Member
    /\ c.op \in {"ZADDInsert", "ZRangeJSON", "ZRangeByScoreJSON", "Zcard",
                 "ZScore", "ZRank", "ZREM", "ZREMRANGEBYSCORE", "Zremrangebyrank"}
    /\ c.op = "ZRangeJSON" => c.a = 0 /\ c.b \in {-1, 0}
    /\ c.op = "ZADDInsert" => c.a \in Score
    /\ c.op = "ZRank" => \E m \in Member : c.ms = {m}

\* Every call is so.
LEMMA CallShapes == ASSUME NEW c \in ZCalls PROVE ShapeOf(c)
<1>1. CASE c \in ZAddCalls
  <2>1. \E m \in Member, s \in Score : c = ZCall("ZADDInsert", {m}, s, s, TRUE, FALSE)
    BY <1>1 DEF ZAddCalls, ZCall
  <2> QED BY <2>1 DEF ZCall, ShapeOf
<1>2. CASE c \in ZRangeCalls
  <2>1. CASE \E r \in RankArgs, asc, sc \in BOOLEAN :
                 c = ZCall("ZRangeJSON", {}, r[1], r[2], asc, sc)
    <3>1. PICK r \in RankArgs, asc \in BOOLEAN, sc \in BOOLEAN :
              c = ZCall("ZRangeJSON", {}, r[1], r[2], asc, sc)
      BY <2>1
    <3>2. r[1] = 0 /\ r[2] \in {-1, 0}
      BY DEF RankArgs
    <3> QED BY <3>1, <3>2 DEF ZCall, ShapeOf
  <2>2. CASE \E r \in ScoreArgs, asc, sc \in BOOLEAN :
                 c = ZCall("ZRangeByScoreJSON", {}, r[1], r[2], asc, sc)
    <3>1. PICK r \in ScoreArgs, asc \in BOOLEAN, sc \in BOOLEAN :
              c = ZCall("ZRangeByScoreJSON", {}, r[1], r[2], asc, sc)
      BY <2>2
    <3> QED BY <3>1 DEF ZCall, ShapeOf
  <2> QED BY <1>2, <2>1, <2>2 DEF ZRangeCalls
<1>3. CASE c \in ZReadCalls
  <2>1. CASE c = ZCall("Zcard", {}, 0, 0, TRUE, FALSE)
    BY <2>1 DEF ZCall, ShapeOf
  <2>2. CASE \E m \in Member : c = ZCall("ZScore", {m}, 0, 0, TRUE, FALSE)
    BY <2>2 DEF ZCall, ShapeOf
  <2>3. CASE \E m \in Member, asc \in BOOLEAN : c = ZCall("ZRank", {m}, 0, 0, asc, FALSE)
    <3>1. PICK m \in Member, asc \in BOOLEAN : c = ZCall("ZRank", {m}, 0, 0, asc, FALSE)
      BY <2>3
    <3> QED BY <3>1 DEF ZCall, ShapeOf
  <2>4. \/ c = ZCall("Zcard", {}, 0, 0, TRUE, FALSE)
        \/ \E m \in Member : c = ZCall("ZScore", {m}, 0, 0, TRUE, FALSE)
        \/ \E m \in Member, asc \in BOOLEAN : c = ZCall("ZRank", {m}, 0, 0, asc, FALSE)
    BY <1>3 DEF ZReadCalls, ZCall
  <2> QED BY <2>1, <2>2, <2>3, <2>4
<1>4. CASE c \in ZRemCalls
  <2>1. CASE \E m, n \in Member : c = ZCall("ZREM", {m, n}, 0, 0, TRUE, FALSE)
    BY <2>1 DEF ZCall, ShapeOf
  <2>2. CASE \E r \in ScoreArgs : c = ZCall("ZREMRANGEBYSCORE", {}, r[1], r[2], TRUE, FALSE)
    BY <2>2 DEF ZCall, ShapeOf
  <2>3. CASE \E r \in RankArgs : c = ZCall("Zremrangebyrank", {}, r[1], r[2], TRUE, FALSE)
    BY <2>3 DEF ZCall, ShapeOf
  <2>4. \/ \E m, n \in Member : c = ZCall("ZREM", {m, n}, 0, 0, TRUE, FALSE)
        \/ \E r \in ScoreArgs : c = ZCall("ZREMRANGEBYSCORE", {}, r[1], r[2], TRUE, FALSE)
        \/ \E r \in RankArgs : c = ZCall("Zremrangebyrank", {}, r[1], r[2], TRUE, FALSE)
    BY <1>4 DEF ZRemCalls, ZCall
  <2> QED BY <2>1, <2>2, <2>3, <2>4
<1> QED BY <1>1, <1>2, <1>3, <1>4 DEF ZCalls

\* The members whose ranks a call asks for are the first ones of their list, and
\* ByRank lists them.
LEMMA RankedFirsts ==
    ASSUME NEW z \in Content, NEW c \in ZCalls, c.op = "ZRangeJSON"
    PROVE  LET t == Directed(Sorted(z), c.asc)
           IN  /\ Lists(z, t, InSet(z), c.asc)
               /\ \E h \in 0..Len(t) :
                      /\ ByRank(z, c) \in Seq(InSet(z)) /\ Len(ByRank(z, c)) = h
                      /\ \A j \in 1..h : ByRank(z, c)[j] = t[j]
                      /\ InRange(z, c) = Firsts(t, h)
<1> DEFINE t == Directed(Sorted(z), c.asc)
           h == IF c.b < 0 THEN Len(t) ELSE Least(1, Len(t))
<1>1. c.asc \in BOOLEAN /\ c.a = 0 /\ c.b \in {-1, 0}
  BY CallShapes DEF ShapeOf
<1>2. Lists(z, t, InSet(z), c.asc)
  BY <1>1, RankingLists DEF Sorted
<1>3. \A j \in 1..Len(t) : Before(z, t[j], c.asc) = j - 1
  BY <1>1, <1>2, PlaceIsBefore
<1>4. ByRank(z, c) = Ranks(t, c.a, c.b)
  BY DEF ByRank
<1> HIDE DEF t
<1>5. /\ t \in Seq(InSet(z)) /\ Len(t) \in Nat /\ \A m \in InSet(z) : \E j \in 1..Len(t) : t[j] = m
  BY <1>2 DEF Lists
<1>6. h \in 0..Len(t) /\ \A j \in 1..Len(t) : j <= h <=> (c.b < 0 \/ j - 1 <= c.b)
  BY <1>1, <1>5 DEF Least
<1>7. ByRank(z, c) = SubSeq(t, 1, h)
  BY <1>1, <1>4, <1>5 DEF Ranks, Least
<1> HIDE DEF h
<1>8. /\ SubSeq(t, 1, h) \in Seq(InSet(z)) /\ Len(SubSeq(t, 1, h)) = h
      /\ \A j \in 1..h : SubSeq(t, 1, h)[j] = t[j]
  BY <1>5, <1>6
<1>9. ASSUME NEW m PROVE m \in InRange(z, c) <=> m \in Firsts(t, h)
  <2>1. ASSUME m \in InRange(z, c) PROVE m \in Firsts(t, h)
    <3>1. m \in InSet(z) /\ (c.b < 0 \/ Before(z, m, c.asc) <= c.b)
      BY <2>1 DEF InRange
    <3>2. PICK j \in 1..Len(t) : t[j] = m
      BY <1>5, <3>1
    <3>3. j <= h
      BY <1>3, <1>6, <3>1, <3>2
    <3>4. j \in 1..h
      BY <1>5, <1>6, <3>3
    <3> QED BY <3>2, <3>4 DEF Firsts
  <2>2. ASSUME m \in Firsts(t, h) PROVE m \in InRange(z, c)
    <3>1. PICK j \in 1..h : m = t[j]
      BY <2>2 DEF Firsts
    <3>2. j \in 1..Len(t) /\ j <= h
      BY <1>5, <1>6
    <3>3. m \in InSet(z) /\ Before(z, m, c.asc) = j - 1
      BY <1>3, <1>5, <3>1, <3>2
    <3>4. c.b < 0 \/ j - 1 <= c.b
      BY <1>6, <3>2
    <3>5. j - 1 >= c.a
      BY <1>1
    <3> QED BY <3>3, <3>4, <3>5 DEF InRange
  <2> QED BY <2>1, <2>2
<1>10. InRange(z, c) = Firsts(t, h)
  BY <1>9
<1> QED BY <1>2, <1>6, <1>7, <1>8, <1>10 DEF t

\* What ZSetReads says of a result v of the call c on the content z.
Describes(z, c, v) ==
    CASE c.op \in {"ZRangeJSON", "ZRangeByScoreJSON"} ->
            (\A m \in InRange(z, c) : Elements[m] # 0) => ListsInOrder(v, InRange(z, c), z, c)
      [] c.op = "ZRank" -> \A m \in c.ms : z[m] # Absent /\ v = <<Before(z, m, c.asc)>>
      [] c.op = "ZREM" -> v = <<Cardinality({m \in c.ms : z[m] # Absent})>>
      [] OTHER -> TRUE

\* A range by rank.
LEMMA RankedRight ==
    ASSUME NEW z \in Content, NEW c \in ZCalls, c.op = "ZRangeJSON",
           NEW r \in ZResult(z, c), r.err = "nil"
    PROVE  Describes(z, c, r.val)
<1> SUFFICES ASSUME \A m \in InRange(z, c) : Elements[m] # 0
             PROVE  ListsInOrder(r.val, InRange(z, c), z, c)
  BY DEF Describes
<1> DEFINE s == ByRank(z, c)
           t == Directed(Sorted(z), c.asc)
           v == r.val
<1>1. c.asc \in BOOLEAN /\ c.scores \in BOOLEAN
  BY CallShapes DEF ShapeOf
<1>2. r \in RangeJSON(z, s, c.scores)
  BY DEF ZResult
<1>3. Lists(z, t, InSet(z), c.asc)
  BY RankedFirsts
<1>4. PICK h \in 0..Len(t) : /\ s \in Seq(InSet(z)) /\ Len(s) = h
                             /\ \A j \in 1..h : s[j] = t[j]
                             /\ InRange(z, c) = Firsts(t, h)
  BY RankedFirsts
<1> HIDE DEF s, t
<1>5. \A j \in 1..Len(s) : Elements[s[j]] # 0
  BY <1>4 DEF Firsts
<1>6. Decoded(z, s, c.scores, v)
  BY <1>1, <1>2, <1>4, <1>5, RangeDecoded
<1> HIDE DEF v
<1>7. Shows(v, t, h, z, c)
  BY <1>4, <1>6 DEF Decoded, Shows
<1>8. InSet(z) \in SUBSET InSet(z)
  OBVIOUS
<1>9. ListsInOrder(v, Firsts(t, h), z, c)
  <2> DEFINE asc == c.asc
             all == InSet(z)
  <2>1. asc \in BOOLEAN /\ c.asc = asc /\ Lists(z, t, all, asc) /\ all \in SUBSET InSet(z)
    BY <1>1, <1>3, <1>8
  <2> HIDE DEF asc, all
  <2> QED BY <1>7, <2>1, FirstsInOrder
<1> QED BY <1>4, <1>9 DEF v

\* A range by score.
LEMMA ScoredRight ==
    ASSUME NEW z \in Content, NEW c \in ZCalls, c.op = "ZRangeByScoreJSON",
           NEW r \in ZResult(z, c), r.err = "nil"
    PROVE  Describes(z, c, r.val)
<1> SUFFICES ASSUME \A m \in InRange(z, c) : Elements[m] # 0
             PROVE  ListsInOrder(r.val, InRange(z, c), z, c)
  BY DEF Describes
<1> DEFINE lo == IF c.asc THEN c.a ELSE c.b
           hi == IF c.asc THEN c.b ELSE c.a
           ms == {m \in InSet(z) : lo <= z[m] /\ z[m] <= hi}
           s == ByScore(z, c)
           v == r.val
<1>1. c.asc \in BOOLEAN /\ c.scores \in BOOLEAN
  BY CallShapes DEF ShapeOf
<1>2. r \in RangeJSON(z, s, c.scores)
  BY DEF ZResult
<1>3. s = Directed(Ranking(z, ms), c.asc) /\ ms \in SUBSET InSet(z)
  BY DEF ByScore
<1>4. InRange(z, c) = ms
  BY DEF InRange
<1> HIDE DEF s, ms
<1>5. Lists(z, s, ms, c.asc)
  BY <1>1, <1>3, RankingLists
<1>6. /\ s \in Seq(InSet(z)) /\ Len(s) \in Nat /\ \A j \in 1..Len(s) : s[j] \in ms
      /\ \A m \in ms : \E j \in 1..Len(s) : s[j] = m
  BY <1>3, <1>5 DEF Lists
<1>7. Firsts(s, Len(s)) = ms
  BY <1>6 DEF Firsts
<1>8. Decoded(z, s, c.scores, v)
  <2>1. \A j \in 1..Len(s) : Elements[s[j]] # 0
    BY <1>4, <1>6
  <2> QED BY <1>1, <1>2, <1>6, <2>1, RangeDecoded
<1> HIDE DEF v
<1>9. Shows(v, s, Len(s), z, c)
  BY <1>8 DEF Decoded, Shows
<1>10. ListsInOrder(v, Firsts(s, Len(s)), z, c)
  <2>1. Len(s) \in 0..Len(s)
    BY <1>6
  <2> DEFINE asc == c.asc
             h == Len(s)
  <2>2. /\ asc \in BOOLEAN /\ c.asc = asc /\ Lists(z, s, ms, asc) /\ h \in 0..Len(s)
        /\ Shows(v, s, h, z, c)
    BY <1>1, <1>5, <1>9, <2>1
  <2> HIDE DEF asc, h
  <2>3. ListsInOrder(v, Firsts(s, h), z, c)
    BY <1>3, <2>2, FirstsInOrder
  <2> QED BY <2>3 DEF h
<1> QED BY <1>4, <1>7, <1>10 DEF v

\* A rank.
LEMMA RankRight ==
    ASSUME NEW z \in Content, NEW c \in ZCalls, c.op = "ZRank",
           NEW r \in ZResult(z, c), r.err = "nil"
    PROVE  Describes(z, c, r.val)
<1> DEFINE m == CHOOSE n \in c.ms : TRUE
           s == Directed(Sorted(z), c.asc)
           j == CHOOSE i \in DOMAIN s : s[i] = m
<1>1. ZRank(z, c) = IF z[m] = Absent THEN Failed ELSE Nil(<<j - 1>>)
  BY DEF ZRank
<1> HIDE DEF m
<1>2. c.asc \in BOOLEAN
  BY CallShapes DEF ShapeOf
<1>3. m \in Member /\ c.ms = {m}
  <2>1. PICK n \in Member : c.ms = {n}
    BY CallShapes DEF ShapeOf
  <2> QED BY <2>1 DEF m
<1>4. r = IF z[m] = Absent THEN Failed ELSE Nil(<<j - 1>>)
  BY <1>1 DEF ZResult
<1>5. z[m] # Absent /\ r.val = <<j - 1>>
  BY <1>4 DEF Failed, Nil
<1>6. m \in InSet(z)
  BY <1>3, <1>5 DEF InSet
<1>7. Lists(z, s, InSet(z), c.asc)
  BY <1>2, RankingLists DEF Sorted
<1> HIDE DEF s
<1>8. DOMAIN s = 1..Len(s) /\ \E i \in 1..Len(s) : s[i] = m
  BY <1>6, <1>7 DEF Lists
<1>9. j \in 1..Len(s) /\ s[j] = m
  BY <1>8
<1> HIDE DEF j
<1>10. Before(z, m, c.asc) = j - 1
  BY <1>2, <1>7, <1>9, PlaceIsBefore
<1>11. \A n \in c.ms : z[n] # Absent /\ r.val = <<Before(z, n, c.asc)>>
  BY <1>3, <1>5, <1>10
<1> QED BY <1>11 DEF Describes

\* A removal.
LEMMA RemovedRight ==
    ASSUME NEW z \in Content, NEW c \in ZCalls, c.op = "ZREM", NEW r \in ZResult(z, c)
    PROVE  Describes(z, c, r.val)
<1>1. c.ms \in SUBSET Member
  BY CallShapes DEF ShapeOf
<1>2. Removed(z, c) = c.ms \cap InSet(z)
  BY DEF Removed
<1>3. Removed(z, c) = {m \in c.ms : z[m] # Absent}
  BY <1>1, <1>2 DEF InSet
<1>4. r = Nil(<<Cardinality(Removed(z, c))>>)
  BY DEF ZResult
<1>5. r.val = <<Cardinality({m \in c.ms : z[m] # Absent})>>
  BY <1>3, <1>4 DEF Nil
<1> QED BY <1>5 DEF Describes

\* Every result without an error.
LEMMA ResultsRight ==
    ASSUME NEW z \in Content, NEW c \in ZCalls, NEW r \in ZResult(z, c), r.err = "nil"
    PROVE  Describes(z, c, r.val)
<1>1. CASE c.op \notin {"ZRangeJSON", "ZRangeByScoreJSON", "ZRank", "ZREM"}
  BY <1>1 DEF Describes
<1> QED BY <1>1, RankedRight, ScoredRight, RankRight, RemovedRight

\* What is left of the set is a content.
LEMMA ContentAfter == ASSUME NEW z \in Content, NEW c \in ZCalls PROVE ZAfter(z, c) \in Content
<1>1. c.op \in {"ZADDInsert"} => c.a \in Score
  BY CallShapes DEF ShapeOf
<1>2. CASE c.op \in {"ZADDInsert"}
  BY <1>1, <1>2 DEF ZAfter, ZADDInsert, Content
<1>3. CASE c.op \in {"ZREM", "ZREMRANGEBYSCORE", "Zremrangebyrank"}
  BY <1>3 DEF ZAfter, Without, Content
<1>4. CASE c.op \notin {"ZADDInsert", "ZREM", "ZREMRANGEBYSCORE", "Zremrangebyrank"}
  BY <1>4 DEF ZAfter
<1> QED BY <1>2, <1>3, <1>4

\* The calls in progress: each has seen the content as it is.
SeenInv ==
    /\ zcall \in [Session -> ZCalls \cup {NoOp}] /\ DOMAIN zseen = Session
    /\ \A p \in Session : zcall[p] # NoOp => zset \in zseen[p]

ZSetIInv == ZSetTypeOK /\ SeenInv /\ ZSetReads

\* ZSetReads is that the last result describes a content its call saw.
LEMMA ZReads ==
    ZSetReads <=> (zres.res.err = "nil" =>
                       \E z \in zres.seen : Describes(z, zres.call, zres.res.val))
BY DEF ZSetReads, Describes

\* There is no call yet.
LEMMA ZSetInitInv == ZSetInit => ZSetIInv
<1> SUFFICES ASSUME ZSetInit PROVE ZSetIInv
  OBVIOUS
<1>1. ZSetTypeOK
  BY ZSetAssumption DEF ZSetInit, ZSetTypeOK
<1>2. SeenInv
  BY DEF ZSetInit, SeenInv
<1>3. zres.res.err # "nil"
  BY DEF ZSetInit, NoResult, Pending
<1> QED BY <1>1, <1>2, <1>3, ZReads DEF ZSetIInv

\* A call begins: it sees the content.
LEMMA ZBeginStep ==
    ASSUME ZSetIInv, NEW p \in Session, NEW c \in ZCalls, ZBegin(p, c)
    PROVE  ZSetIInv'
<1>1. /\ zcall[p] = NoOp /\ zcount < MaxZOps
      /\ zcall' = [zcall EXCEPT ![p] = c] /\ zseen' = [zseen EXCEPT ![p] = {zset}]
      /\ zcount' = zcount + 1 /\ zres' = NoResult /\ zset' = zset
  BY DEF ZBegin
<1>2. ZSetTypeOK /\ SeenInv
  BY DEF ZSetIInv
<1>3. c # NoOp
  BY ZSetAssumption
<1>4. SeenInv'
  BY <1>1, <1>2 DEF SeenInv
<1>5. ZSetTypeOK'
  <2>1. zcount' \in 0..MaxZOps
    BY <1>1, <1>2, ZSetAssumption DEF ZSetTypeOK
  <2>2. ASSUME NEW q \in Session
        PROVE  zcall'[q] \in ZCalls \cup {NoOp} /\ (zcall'[q] = NoOp <=> zseen'[q] = {})
    BY <1>1, <1>2, <1>3 DEF ZSetTypeOK, SeenInv
  <2> QED BY <1>1, <1>2, <2>1, <2>2 DEF ZSetTypeOK
<1>6. zres'.res.err # "nil"
  BY <1>1 DEF NoResult, Pending
<1>7. ZSetReads'
  BY <1>6 DEF ZSetReads, Describes
<1> QED BY <1>4, <1>5, <1>7 DEF ZSetIInv

\* The command takes effect: the others see the new content, and the reply is
\* about the old one.
LEMMA ZDoStep ==
    ASSUME ZSetIInv, NEW p \in Session, ZDo(p)
    PROVE  ZSetIInv'
<1>1. /\ zcall[p] # NoOp /\ zset' = ZAfter(zset, zcall[p]) /\ zcount' = zcount
      /\ zseen' = [q \in Session |-> IF q # p /\ zcall[q] # NoOp THEN zseen[q] \cup {zset'} ELSE {}]
      /\ zcall' = [zcall EXCEPT ![p] = NoOp]
  BY DEF ZDo, ZReturn
<1>2. ZSetTypeOK /\ SeenInv
  BY DEF ZSetIInv
<1>3. zcall[p] \in ZCalls /\ zset \in Content /\ zset \in zseen[p]
  BY <1>1, <1>2 DEF ZSetTypeOK, SeenInv, Content
<1>4. zset' \in Content
  BY <1>1, <1>3, ContentAfter
<1>5. SeenInv'
  BY <1>1, <1>2 DEF SeenInv
<1>6. ZSetTypeOK'
  <2>1. ASSUME NEW q \in Session
        PROVE  zcall'[q] \in ZCalls \cup {NoOp} /\ (zcall'[q] = NoOp <=> zseen'[q] = {})
    BY <1>1, <1>2 DEF ZSetTypeOK, SeenInv
  <2> QED BY <1>1, <1>2, <1>4, <2>1 DEF ZSetTypeOK, Content
<1>7. \/ \E r \in ZResult(zset, zcall[p]) : ZReturn(p, r, zseen[p])
      \/ ZReturn(p, Failed, zseen[p])
  BY DEF ZDo
<1>8. zres'.res.err = "nil" =>
          \E z \in zres'.seen : Describes(z, zres'.call, zres'.res.val)
  <2>1. ASSUME NEW r \in ZResult(zset, zcall[p]), ZReturn(p, r, zseen[p]), zres'.res.err = "nil"
        PROVE  \E z \in zres'.seen : Describes(z, zres'.call, zres'.res.val)
    <3>1. NoResult.res.err # "nil"
      BY DEF NoResult, Pending
    <3>2. r.err = "nil" /\ zres' = [call |-> zcall[p], res |-> r, seen |-> zseen[p]]
      BY <2>1, <3>1 DEF ZReturn
    <3>3. zres'.seen = zseen[p] /\ zres'.call = zcall[p] /\ zres'.res = r
      BY <3>2
    <3>4. Describes(zset, zcall[p], r.val)
      BY <1>3, <2>1, <3>2, ResultsRight
    <3> QED BY <1>3, <3>3, <3>4
  <2>2. CASE ZReturn(p, Failed, zseen[p])
    <3>1. zres' = NoResult
      BY <2>2 DEF ZReturn, Failed
    <3> QED BY <3>1 DEF NoResult, Pending
  <2> QED BY <1>7, <2>1, <2>2
<1>9. ZSetReads'
  BY <1>8 DEF ZSetReads, Describes
<1> QED BY <1>5, <1>6, <1>9 DEF ZSetIInv

\* The call ends without an effect.
LEMMA ZFailStep ==
    ASSUME ZSetIInv, NEW p \in Session, ZFail(p)
    PROVE  ZSetIInv'
<1>1. /\ zcall' = [zcall EXCEPT ![p] = NoOp] /\ zseen' = [zseen EXCEPT ![p] = {}]
      /\ zres' = NoResult /\ zset' = zset /\ zcount' = zcount
  BY DEF ZFail, ZReturn, Failed
<1>2. ZSetTypeOK /\ SeenInv
  BY DEF ZSetIInv
<1>3. SeenInv'
  BY <1>1, <1>2 DEF SeenInv
<1>4. ZSetTypeOK'
  <2>1. ASSUME NEW q \in Session
        PROVE  zcall'[q] \in ZCalls \cup {NoOp} /\ (zcall'[q] = NoOp <=> zseen'[q] = {})
    BY <1>1, <1>2 DEF ZSetTypeOK, SeenInv
  <2> QED BY <1>1, <1>2, <2>1 DEF ZSetTypeOK
<1>5. zres'.res.err # "nil"
  BY <1>1 DEF NoResult, Pending
<1>6. ZSetReads'
  BY <1>5 DEF ZSetReads, Describes
<1> QED BY <1>3, <1>4, <1>6 DEF ZSetIInv

\* Every step keeps the invariant.
LEMMA ZSetStepInv == ZSetIInv /\ [ZSetNext]_zsetVars => ZSetIInv'
<1> SUFFICES ASSUME ZSetIInv, [ZSetNext]_zsetVars PROVE ZSetIInv'
  OBVIOUS
<1>1. ASSUME NEW p \in Session, NEW c \in ZCalls, ZBegin(p, c) PROVE ZSetIInv'
  BY <1>1, ZBeginStep
<1>2. ASSUME NEW p \in Session, ZDo(p) PROVE ZSetIInv'
  BY <1>2, ZDoStep
<1>3. ASSUME NEW p \in Session, ZFail(p) PROVE ZSetIInv'
  BY <1>3, ZFailStep
<1>4. CASE UNCHANGED zsetVars
  <2>1. /\ zset' = zset /\ zcall' = zcall /\ zres' = zres /\ zseen' = zseen /\ zcount' = zcount
    BY <1>4 DEF zsetVars
  <2>2. ZSetTypeOK /\ SeenInv /\ ZSetReads
    BY DEF ZSetIInv
  <2>3. ZSetTypeOK'
    BY <2>1, <2>2 DEF ZSetTypeOK
  <2>4. SeenInv'
    BY <2>1, <2>2 DEF SeenInv
  <2>5. zres.res.err = "nil" => \E z \in zres.seen : Describes(z, zres.call, zres.res.val)
    BY <2>2, ZReads
  <2>6. zres'.res.err = "nil" => \E z \in zres'.seen : Describes(z, zres'.call, zres'.res.val)
    BY <2>1, <2>5
  <2>7. ZSetReads'
    BY <2>6 DEF ZSetReads, Describes
  <2> QED BY <2>3, <2>4, <2>7 DEF ZSetIInv
<1> QED BY <1>1, <1>2, <1>3, <1>4 DEF ZSetNext

\* What a sorted set operation (ZRangeJSON, ZRangeByScoreJSON, ZRank, ZREM)
\* returns without an error was true of the set at a moment while it ran, for any
\* goroutines, members and scores; of a range if no text in it is neither a JSON
\* value nor a list of them (makeListJson only concatenates).
THEOREM ZSetSafe == ZSetSpec => []ZSetInv
<1>1. ZSetIInv => ZSetInv
  BY DEF ZSetIInv, ZSetInv
<1> QED BY <1>1, ZSetInitInv, ZSetStepInv, PTL DEF ZSetSpec

\* RedisModule's operations report what the server held: the reads and writes of
\* strings, hash and list (DataSafe), and those of the sorted set.
THEOREM RepliesSafe == DataSpec /\ ZSetSpec => []RepliesInv
<1>1. DataInv /\ ZSetInv => RepliesInv
  BY DEF RepliesInv
<1> QED BY <1>1, DataSafe, ZSetSafe, PTL

=============================================================================
