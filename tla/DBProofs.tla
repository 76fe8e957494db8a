------------------------------ MODULE DBProofs ------------------------------
(***************************************************************************)
(* Safety of sysmodule.DBModule: its executors, for any clients, hashes,   *)
(* executors, capacities and statements; its connections, for any finite   *)
(* set of goroutines and any maxconn; and the decoding of rows, for any    *)
(* answers, names and structs.                                             *)
(***************************************************************************)
EXTENDS DBExecute, DBTx, DBRows, ProofLemmas

-----------------------------------------------------------------------------
(***************************************************************************)
(* The executors.  A request is with its client until it is sent, in the   *)
(* channel of its executor, or with the executor; the requests of one      *)
(* client that one executor gets pass these places in the order they were  *)
(* made.                                                                   *)
(***************************************************************************)
Request == [by : Client, kind : Kinds, fate : Fates, hash : Hashes, chan : Executor]

\* The error a statement answers with.
ErrOf(q) == QueryEx(reqs[q].fate).err

\* Who is about which request: a client about one of its own, an executor about
\* those it was given by their hash; the channels of others are unused.
IdsInv ==
    /\ \A c \in Client : /\ cpc[c] # "idle" => cur[c] # 0
                         /\ cur[c] # 0 => cur[c] \in 1..Len(reqs) /\ reqs[cur[c]].by = c
    /\ \A e \in Executor : \A q : On(fun[e], q) => q \in 1..Len(reqs) /\ reqs[q].chan = e
    /\ \A e \in Executor :
           epc[e] \in {"run", "push"} => job[e] \in 1..Len(reqs) /\ reqs[job[e]].chan = e
    /\ \A q : On(executed, q) => q \in 1..Len(reqs)
    /\ \A q \in Ids : q > Len(reqs) => err[q] = Empty /\ got[q] = "none"
    /\ \A q \in 1..Len(reqs) :
           GoRem(reqs[q].hash, ExecuteNum) >= 0 => reqs[q].chan = GoRem(reqs[q].hash, ExecuteNum)

\* Requests p and q come from one client and go to executor e.
Mates(f, p, q, e) == f[p].by = f[q].by /\ f[p].chan = e /\ f[q].chan = e

\* Each executor gets, holds and has run the requests of one client in order.
OrderInv ==
    /\ \A e \in Executor : InOrder(reqs, fun[e])
    /\ \A e \in Executor : epc[e] = "run" =>
           /\ \A q : On(executed, q) /\ Mates(reqs, q, job[e], e) => q < job[e]
           /\ \A q : On(fun[e], q) /\ Mates(reqs, q, job[e], e) => job[e] < q
    /\ \A e \in Executor : \A p, q :
           On(executed, p) /\ On(fun[e], q) /\ Mates(reqs, p, q, e) => p < q
    /\ \A i, j \in 1..Len(executed) : \A e \in Executor :
           i < j /\ Mates(reqs, executed[i], executed[j], e) => executed[i] < executed[j]

\* What a client has yet to send comes after all it has sent.
SendInv ==
    \A c \in Client : cpc[c] = "send" =>
        /\ \A q : On(executed, q) /\ reqs[q].by = c => q < cur[c]
        /\ \A e \in Executor : \A q : On(fun[e], q) /\ reqs[q].by = c => q < cur[c]
        /\ \A e \in Executor : epc[e] = "run" /\ reqs[job[e]].by = c => job[e] < cur[c]

\* An error is that of the request's own statement, which has run, and it is
\* there as long as the client that has seen it waits for the result.
AnswersInv ==
    /\ \A q \in 1..Len(reqs) :
           /\ err[q] \notin {Empty, Full} => On(executed, q) /\ err[q] = ErrOf(q)
           /\ got[q] \notin {"none", "timeout", Full} => On(executed, q) /\ got[q] = ErrOf(q)
    /\ \A c \in Client : cpc[c] = "dataset" => err[cur[c]] # Empty

DBExecIInv ==
    TypeOK /\ Len(reqs) <= MaxRequests /\ IdsInv /\ OrderInv /\ SendInv /\ AnswersInv

\* The remainder and the executors it names.
LEMMA Indexes ==
    ASSUME NEW h \in Hashes
    PROVE  /\ ChanIndex(h) \subseteq Executor
           /\ GoRem(h, ExecuteNum) >= 0 => ChanIndex(h) = {GoRem(h, ExecuteNum)}
<1>1. h \in Int /\ ExecuteNum \in Nat \ {0}
  BY DBAssumption
<1>2. GoRem(h, ExecuteNum) >= 0 => GoRem(h, ExecuteNum) \in Executor
  <2>1. CASE h >= 0
    BY <1>1, <2>1 DEF GoRem, Executor
  <2>2. CASE ~(h >= 0)
    <3>1. (-h) % ExecuteNum \in Nat
      BY <1>1
    <3>2. GoRem(h, ExecuteNum) >= 0 => GoRem(h, ExecuteNum) = 0
      BY <2>2, <3>1 DEF GoRem
    <3> QED BY <1>1, <3>2 DEF Executor
  <2> QED BY <2>1, <2>2
<1>3. GoRem(h, ExecuteNum) \in Int
  BY <1>1 DEF GoRem
<1> QED BY <1>2, <1>3 DEF ChanIndex

\* The errors there are.
LEMMA Errors ==
    ASSUME NEW f \in Fates
    PROVE  /\ QueryEx(f).err \in {"nil", "sqlErr", "noDb"} /\ Exec(f).err = QueryEx(f).err
           /\ QueryEx(f).rsp \in {"zero", "data"} /\ Exec(f).rsp \in {"zero", "data", "nil"}
BY DEF QueryEx, Exec, Fates

\* At the start nothing is asked for.
LEMMA DBExecInit == Init => DBExecIInv
<1> SUFFICES ASSUME Init PROVE DBExecIInv
  OBVIOUS
<1>1. /\ reqs = <<>> /\ executed = <<>> /\ \A e \in Executor : fun[e] = <<>> /\ epc[e] = "idle"
      /\ \A c \in Client : cpc[c] = "idle" /\ cur[c] = 0
      /\ \A q \in Ids : err[q] = Empty /\ got[q] = "none"
  BY DEF Init
<1>2. MaxRequests \in Nat /\ MAX_EXECUTE_FUN \in Nat
  BY DBAssumption
<1>3. TypeOK
  <2>1. reqs \in Seq(Request) /\ executed \in Seq(Ids) /\ fun \in [Executor -> Seq(Ids)]
    BY DEF Init
  <2>2. exit \in BOOLEAN /\ crashed \in BOOLEAN /\ called \subseteq Ids
    BY DEF Init
  <2>3. cpc \in [Client -> {"idle", "send", "select", "dataset"}] /\ cur \in [Client -> 0..MaxRequests]
    BY <1>2 DEF Init
  <2>4. epc \in [Executor -> {"idle", "run", "push", "ended"}] /\ job \in [Executor -> 0..MaxRequests]
    BY <1>2 DEF Init
  <2>5. /\ err \in [Ids -> {Empty, "nil", "sqlErr", "noDb", Full}]
        /\ sres \in [Ids -> {Empty, "nil", "zero", "data"}]
        /\ got \in [Ids -> {"none", "timeout", "nil", "sqlErr", "noDb", Full}]
    BY DEF Init
  <2>6. \A e \in Executor : Len(fun[e]) <= MAX_EXECUTE_FUN
    BY <1>1, <1>2
  <2> QED BY <2>1, <2>2, <2>3, <2>4, <2>5, <2>6 DEF TypeOK, Request
<1>4. Len(reqs) = 0 /\ \A q : ~On(executed, q) /\ \A e \in Executor : ~On(fun[e], q)
  BY <1>1 DEF On
<1>5. IdsInv
  BY <1>1, <1>4 DEF IdsInv
<1>6. OrderInv
  BY <1>1, <1>4 DEF OrderInv, InOrder
<1>7. SendInv /\ AnswersInv
  BY <1>1, <1>4 DEF SendInv, AnswersInv
<1> QED BY <1>2, <1>3, <1>4, <1>5, <1>6, <1>7 DEF DBExecIInv
\* The answers a client takes out, or waits for again.
LEMMA DBExecGet ==
    ASSUME NEW c \in Client,
           GetTimeout(c) \/ GetErr(c) \/ GetDataset(c) \/ GetAgain(c)
    PROVE  DBExecIInv => DBExecIInv'
<1> SUFFICES ASSUME DBExecIInv PROVE DBExecIInv'
  OBVIOUS
<1>0. TypeOK /\ Len(reqs) <= MaxRequests /\ IdsInv /\ OrderInv /\ SendInv /\ AnswersInv
  BY DEF DBExecIInv
<1>1. /\ UNCHANGED <<reqs, cur, fun, exit, epc, job, executed, called, crashed>>
      /\ \E v \in {"idle", "select", "dataset"} : cpc' = [cpc EXCEPT ![c] = v]
  BY DEF GetTimeout, GetErr, GetDataset, GetAgain, execVars
<1>2. /\ cpc' \in [Client -> {"idle", "send", "select", "dataset"}]
      /\ \A d \in Client : /\ d # c => cpc'[d] = cpc[d]
                           /\ cpc'[c] # "send"
  BY <1>0, <1>1 DEF TypeOK
<1>3. cur[c] \in 1..Len(reqs) /\ reqs[cur[c]].by = c /\ cur[c] \in Ids
  <2>1. cur[c] # 0
    BY <1>0 DEF IdsInv, GetTimeout, GetErr, GetDataset, GetAgain
  <2>2. cur[c] \in 1..Len(reqs) /\ reqs[cur[c]].by = c
    BY <1>0, <2>1 DEF IdsInv
  <2>3. cur[c] \in 0..MaxRequests
    BY <1>0 DEF TypeOK
  <2> QED BY <2>1, <2>2, <2>3, DBAssumption DEF Ids
<1>4. /\ err' \in [Ids -> {Empty, "nil", "sqlErr", "noDb", Full}]
      /\ sres' \in [Ids -> {Empty, "nil", "zero", "data"}]
      /\ got' \in [Ids -> {"none", "timeout", "nil", "sqlErr", "noDb", Full}]
      /\ \A q \in Ids : q # cur[c] => err'[q] = err[q] /\ got'[q] = got[q]
      /\ err'[cur[c]] \in {Empty, err[cur[c]]}
      /\ got'[cur[c]] \in {"none", "timeout", got[cur[c]], err[cur[c]]}
      /\ got'[cur[c]] = err[cur[c]] => err[cur[c]] # Empty \/ got'[cur[c]] = got[cur[c]]
  <2>0. /\ err \in [Ids -> {Empty, "nil", "sqlErr", "noDb", Full}]
        /\ sres \in [Ids -> {Empty, "nil", "zero", "data"}]
        /\ got \in [Ids -> {"none", "timeout", "nil", "sqlErr", "noDb", Full}]
    BY <1>0 DEF TypeOK
  <2>1. CASE GetTimeout(c)
    BY <1>3, <2>0, <2>1 DEF GetTimeout, Empty, Full
  <2>2. CASE GetErr(c)
    BY <1>3, <2>0, <2>2 DEF GetErr, Empty, Full
  <2>3. CASE GetAgain(c)
    BY <1>3, <2>0, <2>3 DEF GetAgain, Empty, Full
  <2>4. CASE GetDataset(c)
    <3>1. err[cur[c]] # Empty
      BY <1>0, <2>4 DEF GetDataset, AnswersInv
    <3>2. err[cur[c]] \in {"nil", "sqlErr", "noDb", Full}
      BY <1>3, <2>0, <3>1
    <3> QED BY <1>3, <2>0, <2>4, <3>1, <3>2 DEF GetDataset
  <2> QED BY <2>1, <2>2, <2>3, <2>4
<1>5. TypeOK'
  BY <1>0, <1>1, <1>2, <1>4 DEF TypeOK
<1>6. IdsInv'
  <2>1. \A d \in Client : /\ cpc'[d] # "idle" => cur[d] # 0
                          /\ cur[d] # 0 => cur[d] \in 1..Len(reqs) /\ reqs[cur[d]].by = d
    <3> TAKE d \in Client
    <3>1. CASE d = c
      BY <1>0, <1>3, <3>1, DBAssumption DEF IdsInv
    <3>2. CASE d # c
      BY <1>0, <1>2, <3>2 DEF IdsInv
    <3> QED BY <3>1, <3>2
  <2>2. \A q \in Ids : q > Len(reqs) => err'[q] = Empty /\ got'[q] = "none"
    <3>1. Len(reqs) \in Nat
      BY <1>0, LenProperties DEF TypeOK
    <3> QED BY <1>0, <1>3, <1>4, <3>1 DEF IdsInv
  <2> QED BY <1>0, <1>1, <2>1, <2>2 DEF IdsInv
<1>7. OrderInv'
  BY <1>0, <1>1 DEF OrderInv
<1>8. SendInv'
  BY <1>0, <1>1, <1>2 DEF SendInv
<1>9. AnswersInv'
  <2>1. \A q \in 1..Len(reqs) : q \in Ids
    BY <1>0, LenProperties, DBAssumption DEF TypeOK, Ids
  <2>2. ASSUME NEW q \in 1..Len(reqs)
        PROVE  /\ err'[q] \notin {Empty, Full} => On(executed, q) /\ err'[q] = ErrOf(q)
               /\ got'[q] \notin {"none", "timeout", Full} => On(executed, q) /\ got'[q] = ErrOf(q)
    <3>1. CASE q # cur[c]
      BY <1>0, <1>4, <2>1, <3>1 DEF AnswersInv
    <3>2. CASE q = cur[c]
      BY <1>0, <1>4, <2>1, <3>2 DEF AnswersInv
    <3> QED BY <3>1, <3>2
  <2>3. ASSUME NEW d \in Client, cpc'[d] = "dataset" PROVE err'[cur[d]] # Empty
    <3>1. CASE d # c
      <4>1. cpc[d] = "dataset" /\ cur[d] # 0
        BY <1>0, <1>2, <2>3, <3>1 DEF IdsInv
      <4>2. cur[d] \in 1..Len(reqs) /\ reqs[cur[d]].by = d
        BY <1>0, <4>1 DEF IdsInv
      <4>3. cur[d] # cur[c] /\ cur[d] \in Ids
        BY <1>3, <2>1, <3>1, <4>2
      <4> QED BY <1>0, <1>4, <4>1, <4>3 DEF AnswersInv
    <3>2. CASE d = c
      BY <1>0, <2>3, <3>2 DEF GetTimeout, GetErr, GetDataset, GetAgain, TypeOK
    <3> QED BY <3>1, <3>2
  <2> QED BY <1>1, <2>2, <2>3 DEF AnswersInv, ErrOf
<1> QED BY <1>0, <1>1, <1>5, <1>6, <1>7, <1>8, <1>9 DEF DBExecIInv
\* A request that is made: it comes after all others, and nobody has it yet.
LEMMA DBExecBegin ==
    ASSUME NEW c \in Client, NEW r \in Requests, NEW h \in Hashes, Begin(c, r, h)
    PROVE  DBExecIInv => DBExecIInv'
<1> SUFFICES ASSUME DBExecIInv PROVE DBExecIInv'
  OBVIOUS
<1>0. TypeOK /\ Len(reqs) <= MaxRequests /\ IdsInv /\ OrderInv /\ SendInv /\ AnswersInv
  BY DEF DBExecIInv
<1> DEFINE n == Len(reqs) + 1
<1>1. PICK i \in ChanIndex(h) :
        /\ reqs' = Append(reqs, [by |-> c, kind |-> r.kind, fate |-> r.fate, hash |-> h, chan |-> i])
        /\ cur' = [cur EXCEPT ![c] = n]
        /\ \/ cpc' = [cpc EXCEPT ![c] = "send"] /\ UNCHANGED <<err, sres>>
           \/ /\ cpc' = [cpc EXCEPT ![c] = IF r.kind \in Sync THEN "select" ELSE "idle"]
              /\ err' = IF r.kind \in Sync THEN [err EXCEPT ![n] = Full] ELSE err
              /\ sres' = IF r.kind = "query" THEN [sres EXCEPT ![n] = "zero"] ELSE sres
  BY DEF Begin
<1>2. /\ UNCHANGED <<got, fun, exit, epc, job, executed, called, crashed>>
      /\ cpc[c] = "idle" /\ Len(reqs) < MaxRequests
  BY DEF Begin, execVars
<1> DEFINE q0 == [by |-> c, kind |-> r.kind, fate |-> r.fate, hash |-> h, chan |-> i]
<1>3. i \in Executor /\ q0 \in Request /\ r.kind \in Kinds
  BY <1>1, Indexes, DBAssumption DEF Request
<1>4. /\ reqs \in Seq(Request) /\ Len(reqs) \in Nat /\ n \in Ids /\ n \in Nat
      /\ n \notin 1..Len(reqs) /\ \A q \in 1..n : q = n \/ q \in 1..Len(reqs)
      /\ \A q \in 1..Len(reqs) : q \in 1..n /\ q \in Ids /\ q < n
      /\ n \in 1..n /\ n \in 0..MaxRequests /\ n # 0 /\ n <= MaxRequests
  <2>1. reqs \in Seq(Request)
    BY <1>0 DEF TypeOK, Request
  <2>2. Len(reqs) \in Nat /\ MaxRequests \in Nat
    BY <2>1, DBAssumption, LenProperties
  <2> QED BY <1>2, <2>1, <2>2 DEF Ids
<1>5. /\ reqs' \in Seq(Request) /\ Len(reqs') = n /\ reqs'[n] = q0
      /\ \A q \in 1..Len(reqs) : reqs'[q] = reqs[q]
  <2>1. reqs' = Append(reqs, q0)
    BY <1>1
  <2> HIDE DEF q0
  <2> QED BY <1>3, <1>4, <2>1, SeqAppend
<1>6. q0.by = c /\ q0.hash = h /\ q0.chan = i
  OBVIOUS
<1> HIDE DEF n, q0
<1>7. /\ cpc' \in [Client -> {"idle", "send", "select", "dataset"}]
      /\ cur' \in [Client -> 0..MaxRequests] /\ cur'[c] = n
      /\ \A d \in Client : d # c => cpc'[d] = cpc[d] /\ cur'[d] = cur[d]
      /\ cpc'[c] # "dataset"
  BY <1>0, <1>1, <1>4 DEF TypeOK
<1>8. /\ err' \in [Ids -> {Empty, "nil", "sqlErr", "noDb", Full}]
      /\ sres' \in [Ids -> {Empty, "nil", "zero", "data"}]
      /\ \A q \in Ids : q # n => err'[q] = err[q]
      /\ err'[n] \in {err[n], Full}
  BY <1>0, <1>1, <1>4 DEF TypeOK
<1>9. err[n] = Empty /\ got[n] = "none"
  <2>1. n > Len(reqs)
    BY <1>4 DEF n
  <2> QED BY <1>0, <1>4, <2>1 DEF IdsInv
<1>10. TypeOK'
  BY <1>0, <1>2, <1>5, <1>7, <1>8 DEF TypeOK, Request
<1>11. IdsInv'
  <2>1. ASSUME NEW d \in Client
        PROVE  /\ cpc'[d] # "idle" => cur'[d] # 0
               /\ cur'[d] # 0 => cur'[d] \in 1..Len(reqs') /\ reqs'[cur'[d]].by = d
    <3>1. CASE d = c
      BY <1>4, <1>5, <1>6, <1>7, <3>1
    <3>2. CASE d # c
      BY <1>0, <1>4, <1>5, <1>7, <3>2 DEF IdsInv
    <3> QED BY <3>1, <3>2
  <2>2. ASSUME NEW e \in Executor, NEW q, On(fun[e], q)
        PROVE  q \in 1..Len(reqs') /\ reqs'[q].chan = e
    <3>1. q \in 1..Len(reqs) /\ reqs[q].chan = e
      BY <1>0, <2>2 DEF IdsInv
    <3> QED BY <1>4, <1>5, <3>1
  <2>3. \A e \in Executor :
           epc[e] \in {"run", "push"} => job[e] \in 1..Len(reqs') /\ reqs'[job[e]].chan = e
    BY <1>0, <1>4, <1>5 DEF IdsInv
  <2>4. \A q : On(executed, q) => q \in 1..Len(reqs')
    BY <1>0, <1>4, <1>5 DEF IdsInv
  <2>5. ASSUME NEW q \in Ids, q > Len(reqs') PROVE err'[q] = Empty /\ got'[q] = "none"
    <3>1. q # n /\ q > Len(reqs)
      BY <1>4, <1>5, <2>5 DEF n, Ids
    <3> QED BY <1>0, <1>2, <1>8, <3>1 DEF IdsInv
  <2>6. ASSUME NEW q \in 1..Len(reqs'), GoRem(reqs'[q].hash, ExecuteNum) >= 0
        PROVE  reqs'[q].chan = GoRem(reqs'[q].hash, ExecuteNum)
    <3>1. CASE q = n
      BY <1>1, <1>5, <1>6, <2>6, <3>1, Indexes
    <3>2. CASE q \in 1..Len(reqs)
      BY <1>0, <1>5, <2>6, <3>2 DEF IdsInv
    <3> QED BY <1>4, <1>5, <3>1, <3>2
  <2> QED BY <1>2, <2>1, <2>2, <2>3, <2>4, <2>5, <2>6 DEF IdsInv
<1>12. /\ \A q : On(executed, q) => q \in 1..Len(reqs) /\ reqs'[q] = reqs[q] /\ q < n
       /\ \A e \in Executor : \A q : On(fun[e], q) =>
              q \in 1..Len(reqs) /\ reqs'[q] = reqs[q] /\ q < n
       /\ \A e \in Executor : epc[e] = "run" =>
              job[e] \in 1..Len(reqs) /\ reqs'[job[e]] = reqs[job[e]] /\ job[e] < n
  BY <1>0, <1>4, <1>5 DEF IdsInv
<1>13. OrderInv'
  <2>1. ASSUME NEW e \in Executor PROVE InOrder(reqs', fun[e])
    <3>1. \A j \in 1..Len(fun[e]) : reqs'[fun[e][j]] = reqs[fun[e][j]]
      BY <1>12 DEF On
    <3>2. InOrder(reqs, fun[e])
      BY <1>0 DEF OrderInv
    <3> QED BY <3>1, <3>2 DEF InOrder
  <2>2. ASSUME NEW e \in Executor, epc[e] = "run"
        PROVE  /\ \A q : On(executed, q) /\ Mates(reqs', q, job[e], e) => q < job[e]
               /\ \A q : On(fun[e], q) /\ Mates(reqs', q, job[e], e) => job[e] < q
    BY <1>0, <1>12, <2>2 DEF OrderInv, Mates
  <2>3. \A e \in Executor : \A p, q :
          On(executed, p) /\ On(fun[e], q) /\ Mates(reqs', p, q, e) => p < q
    BY <1>0, <1>12 DEF OrderInv, Mates
  <2>4. ASSUME NEW k \in 1..Len(executed), NEW j \in 1..Len(executed), NEW e \in Executor,
               k < j, Mates(reqs', executed[k], executed[j], e)
        PROVE  executed[k] < executed[j]
    <3>1. reqs'[executed[k]] = reqs[executed[k]] /\ reqs'[executed[j]] = reqs[executed[j]]
      BY <1>12 DEF On
    <3> QED BY <1>0, <2>4, <3>1 DEF OrderInv, Mates
  <2> QED BY <1>2, <2>1, <2>2, <2>3, <2>4 DEF OrderInv
<1>14. SendInv'
  <2> SUFFICES ASSUME NEW d \in Client, cpc'[d] = "send"
               PROVE  /\ \A q : On(executed, q) /\ reqs'[q].by = d => q < cur'[d]
                      /\ \A e \in Executor : \A q : On(fun[e], q) /\ reqs'[q].by = d => q < cur'[d]
                      /\ \A e \in Executor : epc[e] = "run" /\ reqs'[job[e]].by = d
                             => job[e] < cur'[d]
    BY <1>2 DEF SendInv
  <2>1. CASE d = c
    BY <1>7, <1>12, <2>1
  <2>2. CASE d # c
    BY <1>0, <1>7, <1>12, <2>2 DEF SendInv
  <2> QED BY <2>1, <2>2
<1>15. AnswersInv'
  <2>1. ASSUME NEW q \in 1..Len(reqs')
        PROVE  /\ err'[q] \notin {Empty, Full} => On(executed, q) /\ err'[q] = ErrOf(q)'
               /\ got[q] \notin {"none", "timeout", Full} => On(executed, q) /\ got[q] = ErrOf(q)'
    <3>1. CASE q = n
      BY <1>8, <1>9, <3>1
    <3>2. CASE q \in 1..Len(reqs)
      <4>1. ErrOf(q)' = ErrOf(q) /\ err'[q] = err[q]
        BY <1>4, <1>5, <1>8, <3>2 DEF ErrOf
      <4> QED BY <1>0, <3>2, <4>1 DEF AnswersInv
    <3> QED BY <1>4, <1>5, <3>1, <3>2
  <2>2. ASSUME NEW d \in Client, cpc'[d] = "dataset" PROVE err'[cur'[d]] # Empty
    <3>1. d # c /\ cpc[d] = "dataset" /\ cur'[d] = cur[d] /\ cur[d] \in 1..Len(reqs)
      BY <1>0, <1>7, <2>2 DEF IdsInv
    <3> QED BY <1>0, <1>4, <1>8, <3>1 DEF AnswersInv
  <2> QED BY <1>2, <2>1, <2>2 DEF AnswersInv
<1> QED BY <1>4, <1>5, <1>10, <1>11, <1>13, <1>14, <1>15 DEF DBExecIInv

\* A request that is sent is the last of its client's.
LEMMA DBExecSend ==
    ASSUME NEW c \in Client, Send(c)
    PROVE  DBExecIInv => DBExecIInv'
<1> SUFFICES ASSUME DBExecIInv PROVE DBExecIInv'
  OBVIOUS
<1>0. TypeOK /\ Len(reqs) <= MaxRequests /\ IdsInv /\ OrderInv /\ SendInv /\ AnswersInv
  BY DEF DBExecIInv
<1> DEFINE n == cur[c]
           i == reqs[n].chan
<1>1. /\ UNCHANGED <<reqs, cur, got, exit, epc, job, err, sres, executed, called, crashed>>
      /\ cpc[c] = "send" /\ Len(fun[i]) < MAX_EXECUTE_FUN
      /\ fun' = [fun EXCEPT ![i] = Append(@, n)]
      /\ cpc' = [cpc EXCEPT ![c] = IF reqs[n].kind \in Sync THEN "select" ELSE "idle"]
  BY DEF Send
<1>2. /\ n \in 1..Len(reqs) /\ reqs[n].by = c /\ n \in Ids /\ i \in Executor
      /\ fun[i] \in Seq(Ids) /\ n \in Nat
  <2>1. n \in 1..Len(reqs) /\ reqs[n].by = c
    BY <1>0, <1>1 DEF IdsInv
  <2>2. Len(reqs) \in Nat /\ MaxRequests \in Nat
    BY <1>0, DBAssumption, LenProperties DEF TypeOK
  <2>3. i \in Executor
    <3>1. reqs \in Seq(Request)
      BY <1>0 DEF TypeOK, Request
    <3>2. reqs[n] \in Request
      BY <2>1, <3>1, ElementOfSeq
    <3> QED BY <3>2 DEF Request
  <2> QED BY <1>0, <2>1, <2>2, <2>3 DEF TypeOK, Ids
<1>3. /\ \A q : On(executed, q) /\ reqs[q].by = c => q < n
      /\ \A e \in Executor : \A q : On(fun[e], q) /\ reqs[q].by = c => q < n
      /\ \A e \in Executor : epc[e] = "run" /\ reqs[job[e]].by = c => job[e] < n
  BY <1>0, <1>1 DEF SendInv
<1> HIDE DEF n, i
<1>4. /\ Append(fun[i], n) \in Seq(Ids) /\ Len(Append(fun[i], n)) = Len(fun[i]) + 1
      /\ Len(fun[i]) \in Nat
  BY <1>2, SeqAppend
<1>5. /\ \A q : On(Append(fun[i], n), q) <=> On(fun[i], q) \/ q = n
      /\ InOrder(reqs, Append(fun[i], n))
  <2>1. InOrder(reqs, fun[i]) /\ \A q : On(fun[i], q) /\ reqs[q].by = reqs[n].by => q < n
    BY <1>0, <1>2, <1>3 DEF OrderInv
  <2> QED BY <1>2, <2>1, OnAppend
<1>6. /\ fun' \in [Executor -> Seq(Ids)] /\ fun'[i] = Append(fun[i], n)
      /\ \A e \in Executor : e # i => fun'[e] = fun[e]
  BY <1>0, <1>1, <1>2, <1>4 DEF TypeOK
<1>7. \A e \in Executor : Len(fun'[e]) <= MAX_EXECUTE_FUN
  <2>1. Len(fun'[i]) <= MAX_EXECUTE_FUN
    BY <1>1, <1>4, <1>6, DBAssumption
  <2> QED BY <1>0, <1>6, <2>1 DEF TypeOK
<1>8. /\ cpc' \in [Client -> {"idle", "send", "select", "dataset"}]
      /\ \A d \in Client : d # c => cpc'[d] = cpc[d]
      /\ cpc'[c] \in {"idle", "select"}
  BY <1>0, <1>1 DEF TypeOK
<1>9. TypeOK'
  BY <1>0, <1>1, <1>6, <1>7, <1>8 DEF TypeOK
<1>10. \A e \in Executor : \A q : On(fun'[e], q) <=> On(fun[e], q) \/ (e = i /\ q = n)
  BY <1>5, <1>6
<1>11. IdsInv'
  <2>1. ASSUME NEW d \in Client
        PROVE  /\ cpc'[d] # "idle" => cur[d] # 0
               /\ cur[d] # 0 => cur[d] \in 1..Len(reqs) /\ reqs[cur[d]].by = d
    <3>1. CASE d = c
      BY <1>2, <3>1 DEF n
    <3>2. CASE d # c
      BY <1>0, <1>8, <3>2 DEF IdsInv
    <3> QED BY <3>1, <3>2
  <2>2. \A e \in Executor : \A q : On(fun'[e], q) => q \in 1..Len(reqs) /\ reqs[q].chan = e
    BY <1>0, <1>2, <1>10 DEF IdsInv, i
  <2> QED BY <1>0, <1>1, <2>1, <2>2 DEF IdsInv
<1>12. OrderInv'
  <2>1. \A e \in Executor : InOrder(reqs, fun'[e])
    BY <1>0, <1>5, <1>6 DEF OrderInv
  <2>2. ASSUME NEW e \in Executor, epc[e] = "run"
        PROVE  \A q : On(fun'[e], q) /\ Mates(reqs, q, job[e], e) => job[e] < q
    BY <1>0, <1>2, <1>3, <1>10, <2>2 DEF OrderInv, Mates
  <2>3. \A e \in Executor : \A p, q :
          On(executed, p) /\ On(fun'[e], q) /\ Mates(reqs, p, q, e) => p < q
    BY <1>0, <1>2, <1>3, <1>10 DEF OrderInv, Mates
  <2> QED BY <1>0, <1>1, <2>1, <2>2, <2>3 DEF OrderInv
<1>13. SendInv'
  <2> SUFFICES ASSUME NEW d \in Client, cpc'[d] = "send"
               PROVE  \A e \in Executor : \A q : On(fun'[e], q) /\ reqs[q].by = d => q < cur[d]
    <3>1. ASSUME NEW d \in Client, cpc'[d] = "send"
          PROVE  /\ \A q : On(executed, q) /\ reqs[q].by = d => q < cur[d]
                 /\ \A e \in Executor : epc[e] = "run" /\ reqs[job[e]].by = d => job[e] < cur[d]
      BY <1>0, <1>8, <3>1 DEF SendInv
    <3> QED BY <1>1, <3>1 DEF SendInv
  <2>1. d # c /\ cpc[d] = "send"
    BY <1>8
  <2> QED BY <1>0, <1>2, <1>10, <2>1 DEF SendInv
<1>14. AnswersInv'
  BY <1>0, <1>1, <1>8 DEF AnswersInv, ErrOf
<1> QED BY <1>0, <1>1, <1>9, <1>11, <1>12, <1>13, <1>14 DEF DBExecIInv
\* An executor takes the oldest request of its channel.
LEMMA DBExecTake ==
    ASSUME NEW e \in Executor, Take(e)
    PROVE  DBExecIInv => DBExecIInv'
<1> SUFFICES ASSUME DBExecIInv PROVE DBExecIInv'
  OBVIOUS
<1>0. TypeOK /\ Len(reqs) <= MaxRequests /\ IdsInv /\ OrderInv /\ SendInv /\ AnswersInv
  BY DEF DBExecIInv
<1> DEFINE n == Head(fun[e])
<1>1. /\ UNCHANGED <<reqs, cpc, cur, got, exit, executed, called, crashed, err, sres>>
      /\ job' = [job EXCEPT ![e] = n] /\ fun' = [fun EXCEPT ![e] = Tail(@)]
      /\ epc' = [epc EXCEPT ![e] = "run"] /\ epc[e] = "idle" /\ fun[e] # <<>>
  BY DEF Take, clientVars
<1>2. /\ fun[e] \in Seq(Ids) /\ n \in Ids /\ Tail(fun[e]) \in Seq(Ids)
      /\ Len(Tail(fun[e])) <= Len(fun[e]) /\ Len(fun[e]) \in Nat /\ Len(Tail(fun[e])) \in Nat
  <2>1. fun[e] \in Seq(Ids)
    BY <1>0 DEF TypeOK
  <2> QED BY <1>1, <2>1, SeqTail, LenProperties
<1>3. /\ On(fun[e], n) /\ \A q : On(Tail(fun[e]), q) => On(fun[e], q)
      /\ InOrder(reqs, Tail(fun[e]))
      /\ \A q : On(Tail(fun[e]), q) /\ reqs[q].by = reqs[n].by => n < q
  <2>1. InOrder(reqs, fun[e])
    BY <1>0 DEF OrderInv
  <2> QED BY <1>1, <1>2, <2>1, OnTail
<1> HIDE DEF n
<1>4. /\ fun' \in [Executor -> Seq(Ids)] /\ fun'[e] = Tail(fun[e])
      /\ job' \in [Executor -> 0..MaxRequests] /\ job'[e] = n
      /\ epc' \in [Executor -> {"idle", "run", "push", "ended"}]
      /\ \A f \in Executor : f # e => fun'[f] = fun[f] /\ job'[f] = job[f] /\ epc'[f] = epc[f]
  <2>1. n \in 0..MaxRequests
    BY <1>2, DBAssumption DEF Ids
  <2> QED BY <1>0, <1>1, <1>2, <2>1 DEF TypeOK
<1>5. TypeOK'
  <2>1. \A f \in Executor : Len(fun'[f]) <= MAX_EXECUTE_FUN
    <3>1. Len(fun'[e]) <= MAX_EXECUTE_FUN
      <4>1. Len(fun[e]) <= MAX_EXECUTE_FUN
        BY <1>0 DEF TypeOK
      <4> QED BY <1>2, <1>4, <4>1, DBAssumption
    <3> QED BY <1>0, <1>4, <3>1 DEF TypeOK
  <2> QED BY <1>0, <1>1, <1>4, <2>1 DEF TypeOK
<1>6. \A f \in Executor : \A q : On(fun'[f], q) => On(fun[f], q)
  BY <1>3, <1>4
<1>7. IdsInv'
  <2>1. \A f \in Executor : \A q : On(fun'[f], q) => q \in 1..Len(reqs) /\ reqs[q].chan = f
    BY <1>0, <1>6 DEF IdsInv
  <2>2. \A f \in Executor :
           epc'[f] \in {"run", "push"} => job'[f] \in 1..Len(reqs) /\ reqs[job'[f]].chan = f
    BY <1>0, <1>3, <1>4 DEF IdsInv
  <2> QED BY <1>0, <1>1, <2>1, <2>2 DEF IdsInv
<1>8. OrderInv'
  <2>1. \A f \in Executor : InOrder(reqs, fun'[f])
    BY <1>0, <1>3, <1>4 DEF OrderInv
  <2>2. ASSUME NEW f \in Executor, epc'[f] = "run"
        PROVE  /\ \A q : On(executed, q) /\ Mates(reqs, q, job'[f], f) => q < job'[f]
               /\ \A q : On(fun'[f], q) /\ Mates(reqs, q, job'[f], f) => job'[f] < q
    <3>1. CASE f = e
      BY <1>0, <1>3, <1>4, <3>1 DEF OrderInv, Mates
    <3>2. CASE f # e
      BY <1>0, <1>4, <2>2, <3>2 DEF OrderInv
    <3> QED BY <3>1, <3>2
  <2>3. \A f \in Executor : \A p, q :
          On(executed, p) /\ On(fun'[f], q) /\ Mates(reqs, p, q, f) => p < q
    BY <1>0, <1>6 DEF OrderInv
  <2> QED BY <1>0, <1>1, <2>1, <2>2, <2>3 DEF OrderInv
<1>9. SendInv'
  <2> SUFFICES ASSUME NEW d \in Client, cpc[d] = "send"
               PROVE  /\ \A f \in Executor : \A q : On(fun'[f], q) /\ reqs[q].by = d => q < cur[d]
                      /\ \A f \in Executor : epc'[f] = "run" /\ reqs[job'[f]].by = d
                             => job'[f] < cur[d]
    BY <1>0, <1>1 DEF SendInv
  <2>1. \A f \in Executor : \A q : On(fun[f], q) /\ reqs[q].by = d => q < cur[d]
    BY <1>0 DEF SendInv
  <2>2. \A f \in Executor : epc[f] = "run" /\ reqs[job[f]].by = d => job[f] < cur[d]
    BY <1>0 DEF SendInv
  <2> QED BY <1>3, <1>4, <1>6, <2>1, <2>2
<1>10. AnswersInv'
  BY <1>0, <1>1 DEF AnswersInv, ErrOf
<1> QED BY <1>0, <1>1, <1>5, <1>7, <1>8, <1>9, <1>10 DEF DBExecIInv

\* An executor that ends, sends the result of a query, or is told to stop.
LEMMA DBExecQuiet ==
    ASSUME OnRelease \/ \E e \in Executor : Exit(e) \/ PushDataset(e)
    PROVE  DBExecIInv => DBExecIInv'
<1> SUFFICES ASSUME DBExecIInv PROVE DBExecIInv'
  OBVIOUS
<1>0. TypeOK /\ Len(reqs) <= MaxRequests /\ IdsInv /\ OrderInv /\ SendInv /\ AnswersInv
  BY DEF DBExecIInv
<1>1. /\ UNCHANGED <<reqs, cpc, cur, got, fun, job, executed, called, crashed, err>>
      /\ epc' = epc \/ \E e \in Executor, v \in {"idle", "ended"} : epc' = [epc EXCEPT ![e] = v]
  BY DEF OnRelease, Exit, PushDataset, clientVars
<1>2. exit' \in BOOLEAN
  <2>1. exit \in BOOLEAN
    BY <1>0 DEF TypeOK
  <2> QED BY <2>1 DEF OnRelease, Exit, PushDataset
<1>3. sres' \in [Ids -> {Empty, "nil", "zero", "data"}]
  <2>1. sres \in [Ids -> {Empty, "nil", "zero", "data"}]
    BY <1>0 DEF TypeOK
  <2>2. ASSUME NEW e \in Executor, PushDataset(e)
        PROVE  sres' \in [Ids -> {Empty, "nil", "zero", "data"}]
    BY <2>1, <2>2 DEF PushDataset, QueryEx
  <2> QED BY <2>1, <2>2 DEF OnRelease, Exit
<1>4. /\ epc' \in [Executor -> {"idle", "run", "push", "ended"}]
      /\ \A e \in Executor : epc'[e] \in {"run", "push"} => epc'[e] = epc[e]
  BY <1>0, <1>1 DEF TypeOK
<1>5. TypeOK'
  BY <1>0, <1>1, <1>2, <1>3, <1>4 DEF TypeOK
<1>6. IdsInv' /\ OrderInv'
  BY <1>0, <1>1, <1>4 DEF IdsInv, OrderInv
<1>7. SendInv' /\ AnswersInv'
  BY <1>0, <1>1, <1>4 DEF SendInv, AnswersInv, ErrOf
<1> QED BY <1>0, <1>1, <1>5, <1>6, <1>7 DEF DBExecIInv

\* A statement that has run: it follows what its client had run before by the
\* same executor, and the error that is answered is its own.
LEMMA DBExecRun ==
    ASSUME NEW e \in Executor, RunQuery(e) \/ RunExec(e) \/ RunAsyncQuery(e) \/ RunAsyncExec(e)
    PROVE  DBExecIInv => DBExecIInv'
<1> SUFFICES ASSUME DBExecIInv PROVE DBExecIInv'
  OBVIOUS
<1>0. TypeOK /\ Len(reqs) <= MaxRequests /\ IdsInv /\ OrderInv /\ SendInv /\ AnswersInv
  BY DEF DBExecIInv
<1> DEFINE n == job[e]
<1>1. /\ UNCHANGED <<reqs, cpc, cur, got, fun, exit, job>>
      /\ epc[e] = "run" /\ \E v \in {"idle", "push"} : epc' = [epc EXCEPT ![e] = v]
      /\ executed' = Append(executed, n)
  BY DEF RunQuery, RunExec, RunAsyncQuery, RunAsyncExec, Ran, clientVars
<1>2. /\ n \in 1..Len(reqs) /\ reqs[n].chan = e /\ n \in Ids /\ n \in Nat
      /\ reqs[n].fate \in Fates /\ Len(reqs) \in Nat
  <2>1. n \in 1..Len(reqs) /\ reqs[n].chan = e
    BY <1>0, <1>1 DEF IdsInv
  <2>2. reqs \in Seq(Request)
    BY <1>0 DEF TypeOK, Request
  <2>3. Len(reqs) \in Nat /\ reqs[n] \in Request /\ MaxRequests \in Nat
    BY <2>1, <2>2, DBAssumption, LenProperties, ElementOfSeq
  <2> QED BY <1>0, <2>1, <2>3 DEF Request, Ids
<1>3. /\ err' \in [Ids -> {Empty, "nil", "sqlErr", "noDb", Full}]
      /\ \A q \in Ids : q # n => err'[q] = err[q]
      /\ err'[n] \in {err[n], ErrOf(n)} /\ ErrOf(n) \in {"nil", "sqlErr", "noDb"}
  <2>1. ErrOf(n) \in {"nil", "sqlErr", "noDb"} /\ Exec(reqs[n].fate).err = ErrOf(n)
    BY <1>2, Errors DEF ErrOf
  <2>2. err' = err \/ err' = [err EXCEPT ![n] = ErrOf(n)]
    BY <2>1 DEF RunQuery, RunExec, RunAsyncQuery, RunAsyncExec, ErrOf
  <2> HIDE DEF n
  <2> QED BY <1>0, <1>2, <2>1, <2>2 DEF TypeOK
<1>4. sres' \in [Ids -> {Empty, "nil", "zero", "data"}]
  <2>1. Exec(reqs[n].fate).rsp \in {"zero", "data", "nil"}
    BY <1>2, Errors
  <2>2. sres' = sres \/ sres' = [sres EXCEPT ![n] = Exec(reqs[n].fate).rsp]
    BY DEF RunQuery, RunExec, RunAsyncQuery, RunAsyncExec
  <2> HIDE DEF n
  <2> QED BY <1>0, <1>2, <2>1, <2>2 DEF TypeOK
<1>5. crashed' \in BOOLEAN
  <2>1. crashed \in BOOLEAN
    BY <1>0 DEF TypeOK
  <2>2. (Exec(reqs[n].fate).rsp = "nil") \in BOOLEAN
    OBVIOUS
  <2> QED BY <2>1, <2>2 DEF RunQuery, RunExec, RunAsyncQuery, RunAsyncExec
<1>6. called' \subseteq Ids
  BY <1>0, <1>2 DEF TypeOK, RunQuery, RunExec, RunAsyncQuery, RunAsyncExec
<1> HIDE DEF n
<1>7. /\ executed \in Seq(Ids) /\ executed' \in Seq(Ids) /\ Len(executed) \in Nat
      /\ Len(executed') = Len(executed) + 1 /\ executed'[Len(executed) + 1] = n
      /\ \A k \in 1..Len(executed) : executed'[k] = executed[k]
  BY <1>0, <1>1, <1>2, SeqAppend DEF TypeOK
<1>8. \A q : On(executed', q) <=> On(executed, q) \/ q = n
  BY <1>1, <1>2, <1>7, OnAppend
<1>9. /\ epc' \in [Executor -> {"idle", "run", "push", "ended"}] /\ epc'[e] # "run"
      /\ \A f \in Executor : f # e => epc'[f] = epc[f]
  BY <1>0, <1>1 DEF TypeOK
<1>10. TypeOK'
  BY <1>0, <1>1, <1>3, <1>4, <1>5, <1>6, <1>7, <1>9 DEF TypeOK
<1>11. IdsInv'
  <2>1. \A f \in Executor :
           epc'[f] \in {"run", "push"} => job[f] \in 1..Len(reqs) /\ reqs[job[f]].chan = f
    BY <1>0, <1>2, <1>9 DEF IdsInv, n
  <2>2. \A q : On(executed', q) => q \in 1..Len(reqs)
    BY <1>0, <1>2, <1>8 DEF IdsInv
  <2>3. ASSUME NEW q \in Ids, q > Len(reqs) PROVE err'[q] = Empty /\ got[q] = "none"
    <3>1. q # n
      BY <1>2, <2>3
    <3> QED BY <1>0, <1>3, <2>3, <3>1 DEF IdsInv
  <2> QED BY <1>0, <1>1, <2>1, <2>2, <2>3 DEF IdsInv
<1>12. OrderInv'
  <2>1. ASSUME NEW f \in Executor, epc'[f] = "run"
        PROVE  /\ \A q : On(executed', q) /\ Mates(reqs, q, job[f], f) => q < job[f]
               /\ \A q : On(fun[f], q) /\ Mates(reqs, q, job[f], f) => job[f] < q
    <3>1. f # e /\ epc[f] = "run"
      BY <1>9, <2>1
    <3>2. \A q : ~Mates(reqs, n, q, f)
      BY <1>2, <3>1 DEF Mates
    <3> QED BY <1>0, <1>8, <3>1, <3>2 DEF OrderInv
  <2>2. ASSUME NEW f \in Executor, NEW p, NEW q,
               On(executed', p), On(fun[f], q), Mates(reqs, p, q, f)
        PROVE  p < q
    <3>1. CASE On(executed, p)
      BY <1>0, <2>2, <3>1 DEF OrderInv
    <3>2. CASE p = n
      <4>1. f = e
        BY <1>2, <2>2, <3>2 DEF Mates
      <4>2. Mates(reqs, q, n, e)
        BY <2>2, <3>2, <4>1 DEF Mates
      <4> QED BY <1>0, <1>1, <2>2, <3>2, <4>1, <4>2 DEF OrderInv, n
    <3> QED BY <1>8, <2>2, <3>1, <3>2
  <2>3. ASSUME NEW k \in 1..Len(executed'), NEW j \in 1..Len(executed'), NEW f \in Executor,
               k < j, Mates(reqs, executed'[k], executed'[j], f)
        PROVE  executed'[k] < executed'[j]
    <3>1. k \in 1..Len(executed) /\ executed'[k] = executed[k]
      BY <1>7, <2>3
    <3>2. CASE j = Len(executed) + 1
      <4>1. f = e /\ executed'[j] = n /\ On(executed, executed[k])
        BY <1>2, <1>7, <2>3, <3>1, <3>2 DEF Mates, On
      <4> QED BY <1>0, <1>1, <2>3, <3>1, <4>1 DEF OrderInv, n
    <3>3. CASE j \in 1..Len(executed)
      <4>1. executed'[j] = executed[j]
        BY <1>7, <3>3
      <4> QED BY <1>0, <2>3, <3>1, <3>3, <4>1 DEF OrderInv
    <3> QED BY <1>7, <3>2, <3>3
  <2>4. \A f \in Executor : InOrder(reqs, fun[f])
    BY <1>0 DEF OrderInv
  <2> QED BY <1>1, <2>1, <2>2, <2>3, <2>4 DEF OrderInv
<1>13. SendInv'
  <2> SUFFICES ASSUME NEW d \in Client, cpc[d] = "send"
               PROVE  /\ \A q : On(executed', q) /\ reqs[q].by = d => q < cur[d]
                      /\ \A f \in Executor : epc'[f] = "run" /\ reqs[job[f]].by = d
                             => job[f] < cur[d]
    BY <1>0, <1>1 DEF SendInv
  <2>1. reqs[n].by = d => n < cur[d]
    BY <1>0, <1>1 DEF SendInv, n
  <2> QED BY <1>0, <1>8, <1>9, <2>1 DEF SendInv
<1>14. AnswersInv'
  <2>1. \A q \in 1..Len(reqs) : q \in Ids
    BY <1>0, <1>2, DBAssumption DEF Ids
  <2>2. ASSUME NEW q \in 1..Len(reqs)
        PROVE  /\ err'[q] \notin {Empty, Full} => On(executed', q) /\ err'[q] = ErrOf(q)
               /\ got[q] \notin {"none", "timeout", Full} => On(executed', q) /\ got[q] = ErrOf(q)
    <3>1. CASE q = n
      BY <1>0, <1>3, <1>8, <3>1 DEF AnswersInv
    <3>2. CASE q # n
      BY <1>0, <1>3, <1>8, <2>1, <3>2 DEF AnswersInv
    <3> QED BY <3>1, <3>2
  <2>3. ASSUME NEW d \in Client, cpc[d] = "dataset" PROVE err'[cur[d]] # Empty
    <3>1. err[cur[d]] # Empty /\ cur[d] \in 1..Len(reqs) /\ ErrOf(n) # Empty
      BY <1>0, <1>3, <2>3 DEF AnswersInv, IdsInv, Empty
    <3> QED BY <1>3, <2>1, <3>1
  <2> QED BY <1>1, <2>2, <2>3 DEF AnswersInv, ErrOf
<1> QED BY <1>0, <1>1, <1>10, <1>11, <1>12, <1>13, <1>14 DEF DBExecIInv

\* A step of the executors or of their clients.
LEMMA DBExecStep == DBExecIInv /\ [Next]_vars => DBExecIInv'
<1> SUFFICES ASSUME DBExecIInv, [Next]_vars PROVE DBExecIInv'
  OBVIOUS
<1>1. ASSUME NEW c \in Client, NEW r \in Requests, NEW h \in Hashes, Begin(c, r, h)
      PROVE  DBExecIInv'
  BY <1>1, DBExecBegin
<1>2. ASSUME NEW c \in Client, Send(c) PROVE DBExecIInv'
  BY <1>2, DBExecSend
<1>3. ASSUME NEW c \in Client, GetTimeout(c) \/ GetErr(c) \/ GetDataset(c) \/ GetAgain(c)
      PROVE  DBExecIInv'
  BY <1>3, DBExecGet
<1>4. ASSUME NEW e \in Executor, Take(e) PROVE DBExecIInv'
  BY <1>4, DBExecTake
<1>5. ASSUME OnRelease \/ \E e \in Executor : Exit(e) \/ PushDataset(e) PROVE DBExecIInv'
  BY <1>5, DBExecQuiet
<1>6. ASSUME NEW e \in Executor,
             RunQuery(e) \/ RunExec(e) \/ RunAsyncQuery(e) \/ RunAsyncExec(e)
      PROVE  DBExecIInv'
  BY <1>6, DBExecRun
<1>7. CASE UNCHANGED vars
  BY <1>7 DEF vars, clientVars, execVars, DBExecIInv, TypeOK, IdsInv, OrderInv, SendInv,
              AnswersInv, ErrOf
<1> QED BY <1>1, <1>2, <1>3, <1>4, <1>5, <1>6, <1>7 DEF Next, Run

\* The statements a client issues with one hash run in the order it issued
\* them, a Get returns the outcome of its own statement, and the channels keep
\* their bounds (syncExecuteFun, RunExecuteDBCoroutine and Get of
\* sysmodule/DBModule.go), whatever the clients, hashes, executors, capacities
\* and statements.
THEOREM ResultSafe == Spec => []ResultInv
<1>1. Init => DBExecIInv
  BY DBExecInit
<1>2. DBExecIInv /\ [Next]_vars => DBExecIInv'
  BY DBExecStep
<1>3. DBExecIInv => ResultInv
  <2> SUFFICES ASSUME DBExecIInv PROVE ResultInv
    OBVIOUS
  <2>0. TypeOK /\ Len(reqs) <= MaxRequests /\ IdsInv /\ OrderInv /\ AnswersInv
    BY DEF DBExecIInv
  <2>1. HashOrder
    <3> SUFFICES ASSUME NEW i \in DOMAIN executed, NEW j \in DOMAIN executed, i < j,
                        reqs[executed[i]].by = reqs[executed[j]].by,
                        reqs[executed[i]].hash = reqs[executed[j]].hash,
                        GoRem(reqs[executed[i]].hash, ExecuteNum) >= 0
                 PROVE  executed[i] < executed[j]
      BY DEF HashOrder
    <3>1. i \in 1..Len(executed) /\ j \in 1..Len(executed)
      BY <2>0, LenProperties DEF TypeOK
    <3>2. executed[i] \in 1..Len(reqs) /\ executed[j] \in 1..Len(reqs)
      BY <2>0, <3>1 DEF IdsInv, On
    <3> DEFINE e == reqs[executed[i]].chan
    <3>3. reqs[executed[j]].chan = e
      BY <2>0, <3>2 DEF IdsInv
    <3>4. e \in Executor
      <4>1. reqs \in Seq(Request)
        BY <2>0 DEF TypeOK, Request
      <4>2. reqs[executed[i]] \in Request
        BY <3>2, <4>1, ElementOfSeq
      <4> QED BY <4>2 DEF Request
    <3>5. Mates(reqs, executed[i], executed[j], e)
      BY <3>3 DEF Mates
    <3> HIDE DEF e
    <3> QED BY <2>0, <3>1, <3>4, <3>5 DEF OrderInv
  <2>2. GetIsOwn
    <3> SUFFICES ASSUME NEW q \in DOMAIN reqs, got[q] \notin {"none", "timeout", Full}
                 PROVE  /\ \E i \in DOMAIN executed : executed[i] = q
                        /\ got[q] = QueryEx(reqs[q].fate).err
      BY DEF GetIsOwn
    <3>1. q \in 1..Len(reqs) /\ DOMAIN executed = 1..Len(executed)
      BY <2>0, LenProperties DEF TypeOK
    <3>2. On(executed, q) /\ got[q] = ErrOf(q)
      BY <2>0, <3>1 DEF AnswersInv
    <3> QED BY <3>1, <3>2 DEF On, ErrOf
  <2> QED BY <2>0, <2>1, <2>2 DEF ResultInv
<1> QED BY <1>1, <1>2, <1>3, PTL DEF Spec

-----------------------------------------------------------------------------
(***************************************************************************)
(* The connections.  A goroutine that asks for a second transaction has    *)
(* ended the first, and the same for rows: no count loses a connection by  *)
(* overwriting the handle that stands for it.                              *)
(***************************************************************************)
HasStatement == {g \in Session : sess[g].at = "run"}
HasTx == {g \in Session : sess[g].tx = "open"}
HasRows == {g \in Session : sess[g].rows = "db"}

SessionRec == [at : {"idle", "wait", "run", "txrun"}, op : Direct \cup {"none"},
               tx : {"none", "nil", "open", "done"}, rows : {"none", "db", "tx"}]

HandleInv ==
    \A g \in Session :
        /\ sess[g].at \in {"wait", "run"} /\ sess[g].op = "Begin" => sess[g].tx # "open"
        /\ sess[g].at # "idle" /\ sess[g].op = "Query" => sess[g].rows = "none"

Pings == IF pinger = "ping" THEN 1 ELSE 0

DBIInv ==
    /\ DBTypeOK /\ HandleInv /\ PanicsAreNil
    /\ inUse = Cardinality(HasStatement) + Cardinality(HasTx) + Cardinality(HasRows) + Pings

\* The counts when one goroutine takes a step: s is what it becomes.
LEMMA SessionCounts ==
    ASSUME DBTypeOK, NEW g \in Session, NEW s \in SessionRec, sess' = [sess EXCEPT ![g] = s]
    PROVE  /\ sess' \in [Session -> SessionRec] /\ sess'[g] = s
           /\ \A h \in Session : h # g => sess'[h] = sess[h]
           /\ Cardinality(HasStatement) \in Nat /\ Cardinality(HasStatement') \in Nat
           /\ Cardinality(HasTx) \in Nat /\ Cardinality(HasTx') \in Nat
           /\ Cardinality(HasRows) \in Nat /\ Cardinality(HasRows') \in Nat
           /\ Cardinality(HasStatement') + (IF sess[g].at = "run" THEN 1 ELSE 0) =
                  Cardinality(HasStatement) + (IF s.at = "run" THEN 1 ELSE 0)
           /\ Cardinality(HasTx') + (IF sess[g].tx = "open" THEN 1 ELSE 0) =
                  Cardinality(HasTx) + (IF s.tx = "open" THEN 1 ELSE 0)
           /\ Cardinality(HasRows') + (IF sess[g].rows = "db" THEN 1 ELSE 0) =
                  Cardinality(HasRows) + (IF s.rows = "db" THEN 1 ELSE 0)
<1>1. /\ sess' \in [Session -> SessionRec] /\ sess'[g] = s
      /\ \A h \in Session : h # g => sess'[h] = sess[h]
  BY DEF DBTypeOK, SessionRec
<1>2. /\ HasStatement \in SUBSET Session /\ HasStatement' \in SUBSET Session
      /\ HasTx \in SUBSET Session /\ HasTx' \in SUBSET Session
      /\ HasRows \in SUBSET Session /\ HasRows' \in SUBSET Session
  BY DEF HasStatement, HasTx, HasRows
<1>3. /\ HasStatement \ {g} = HasStatement' \ {g} /\ HasTx \ {g} = HasTx' \ {g}
      /\ HasRows \ {g} = HasRows' \ {g}
  BY <1>1 DEF HasStatement, HasTx, HasRows
<1>4. /\ In(g, HasStatement) = (IF sess[g].at = "run" THEN 1 ELSE 0)
      /\ In(g, HasStatement') = (IF s.at = "run" THEN 1 ELSE 0)
      /\ In(g, HasTx) = (IF sess[g].tx = "open" THEN 1 ELSE 0)
      /\ In(g, HasTx') = (IF s.tx = "open" THEN 1 ELSE 0)
      /\ In(g, HasRows) = (IF sess[g].rows = "db" THEN 1 ELSE 0)
      /\ In(g, HasRows') = (IF s.rows = "db" THEN 1 ELSE 0)
  BY <1>1 DEF In, HasStatement, HasTx, HasRows
<1>5. /\ Cardinality(HasStatement) \in Nat /\ Cardinality(HasStatement') \in Nat
      /\ Cardinality(HasStatement') + In(g, HasStatement) =
             Cardinality(HasStatement) + In(g, HasStatement')
  BY <1>2, <1>3, TxAssumption, Recount
<1>6. /\ Cardinality(HasTx) \in Nat /\ Cardinality(HasTx') \in Nat
      /\ Cardinality(HasTx') + In(g, HasTx) = Cardinality(HasTx) + In(g, HasTx')
  BY <1>2, <1>3, TxAssumption, Recount
<1>7. /\ Cardinality(HasRows) \in Nat /\ Cardinality(HasRows') \in Nat
      /\ Cardinality(HasRows') + In(g, HasRows) = Cardinality(HasRows) + In(g, HasRows')
  BY <1>2, <1>3, TxAssumption, Recount
<1> QED BY <1>1, <1>4, <1>5, <1>6, <1>7

\* Initially no connection is handed out.
LEMMA DBInitInv == DBInit => DBIInv
<1> SUFFICES ASSUME DBInit PROVE DBIInv
  OBVIOUS
<1>1. dbPanic \in BOOLEAN
  BY DEF DBInit
<1>2. DBTypeOK
  BY <1>1, TxAssumption DEF DBInit, DBTypeOK, SessIdle, Direct
<1>3. HasStatement = {} /\ HasTx = {} /\ HasRows = {} /\ Pings = 0
  BY DEF DBInit, HasStatement, HasTx, HasRows, Pings, SessIdle
<1>4. Cardinality({}) = 0
  BY FS_EmptySet
<1>5. HandleInv /\ PanicsAreNil
  BY DEF DBInit, HandleInv, PanicsAreNil, SessIdle
<1> QED BY <1>2, <1>3, <1>4, <1>5 DEF DBInit, DBIInv

\* The connections that a goroutine has more as s than it had as r.
Gain(r, s) ==
    ((IF s.at = "run" THEN 1 ELSE 0) - (IF r.at = "run" THEN 1 ELSE 0))
        + ((IF s.tx = "open" THEN 1 ELSE 0) - (IF r.tx = "open" THEN 1 ELSE 0))
        + ((IF s.rows = "db" THEN 1 ELSE 0) - (IF r.rows = "db" THEN 1 ELSE 0))

\* What a step that changes one goroutine has to show.
LEMMA SessionStep ==
    ASSUME DBIInv, NEW g \in Session, NEW s \in SessionRec, ~dbPanic,
           sess' = [sess EXCEPT ![g] = s], UNCHANGED <<db, pinger, dbPanic>>,
           inUse' \in Nat, inUse' <= MaxConn,
           inUse' = inUse + Gain(sess[g], s),
           s.at \in {"wait", "run"} /\ s.op = "Begin" => s.tx # "open",
           s.at # "idle" /\ s.op = "Query" => s.rows = "none"
    PROVE  DBIInv'
<1>0. DBTypeOK /\ Pings \in Nat /\ Pings' = Pings
  BY DEF DBIInv, Pings
<1>1. inUse' = Cardinality(HasStatement') + Cardinality(HasTx') + Cardinality(HasRows') + Pings'
  <2> DEFINE a == IF s.at = "run" THEN 1 ELSE 0
             b == IF sess[g].at = "run" THEN 1 ELSE 0
             c == IF s.tx = "open" THEN 1 ELSE 0
             d == IF sess[g].tx = "open" THEN 1 ELSE 0
             e == IF s.rows = "db" THEN 1 ELSE 0
             f == IF sess[g].rows = "db" THEN 1 ELSE 0
  <2>1. a \in Nat /\ b \in Nat /\ c \in Nat /\ d \in Nat /\ e \in Nat /\ f \in Nat
    OBVIOUS
  <2>2. /\ Cardinality(HasStatement) \in Nat /\ Cardinality(HasStatement') \in Nat
        /\ Cardinality(HasTx) \in Nat /\ Cardinality(HasTx') \in Nat
        /\ Cardinality(HasRows) \in Nat /\ Cardinality(HasRows') \in Nat
        /\ Cardinality(HasStatement') + b = Cardinality(HasStatement) + a
        /\ Cardinality(HasTx') + d = Cardinality(HasTx) + c
        /\ Cardinality(HasRows') + f = Cardinality(HasRows) + e
    BY <1>0, SessionCounts
  <2>3. inUse = Cardinality(HasStatement) + Cardinality(HasTx) + Cardinality(HasRows) + Pings
    BY DEF DBIInv
  <2>4. inUse' = inUse + ((a - b) + (c - d) + (e - f))
    BY DEF Gain
  <2> HIDE DEF a, b, c, d, e, f
  <2> QED BY <1>0, <2>1, <2>2, <2>3, <2>4
<1>2. /\ sess' \in [Session -> SessionRec] /\ sess'[g] = s
      /\ \A h \in Session : h # g => sess'[h] = sess[h]
  BY <1>0, SessionCounts
<1>3. DBTypeOK'
  <2>1. dbPanic' \in BOOLEAN
    BY DEF DBIInv, DBTypeOK
  <2> QED BY <1>2, <2>1, TxAssumption DEF DBIInv, DBTypeOK, SessionRec
<1>4. HandleInv'
  BY <1>2 DEF DBIInv, HandleInv
<1>5. PanicsAreNil'
  BY DEF PanicsAreNil
<1> QED BY <1>1, <1>3, <1>4, <1>5 DEF DBIInv

\* A connection that somebody has is counted.
LEMMA SomeInUse ==
    ASSUME DBIInv
    PROVE  /\ inUse \in Nat /\ inUse <= MaxConn /\ MaxConn \in Nat
           /\ pinger = "ping" => inUse >= 1
           /\ \A g \in Session :
                  sess[g].at = "run" \/ sess[g].tx = "open" \/ sess[g].rows = "db" => inUse >= 1
<1>1. inUse \in Nat /\ inUse <= MaxConn /\ MaxConn \in Nat
  BY TxAssumption DEF DBIInv, DBTypeOK
<1>2. /\ HasStatement \in SUBSET Session /\ HasTx \in SUBSET Session /\ HasRows \in SUBSET Session
  BY DEF HasStatement, HasTx, HasRows
<1>3. /\ Cardinality(HasStatement) \in Nat /\ Cardinality(HasTx) \in Nat
      /\ Cardinality(HasRows) \in Nat /\ Pings \in Nat
  BY <1>2, TxAssumption, FS_Subset, FS_CardinalityType DEF Pings
<1>4. inUse = Cardinality(HasStatement) + Cardinality(HasTx) + Cardinality(HasRows) + Pings
  BY DEF DBIInv
<1>5. ASSUME NEW g \in Session, sess[g].at = "run" \/ sess[g].tx = "open" \/ sess[g].rows = "db"
      PROVE  inUse >= 1
  <2>1. CASE sess[g].at = "run"
    <3>1. g \in HasStatement
      BY <2>1 DEF HasStatement
    <3>2. Cardinality(HasStatement) \in Nat \ {0}
      BY <1>2, <3>1, TxAssumption, CountDown
    <3> QED BY <1>3, <1>4, <3>2
  <2>2. CASE sess[g].tx = "open"
    <3>1. g \in HasTx
      BY <2>2 DEF HasTx
    <3>2. Cardinality(HasTx) \in Nat \ {0}
      BY <1>2, <3>1, TxAssumption, CountDown
    <3> QED BY <1>3, <1>4, <3>2
  <2>3. CASE sess[g].rows = "db"
    <3>1. g \in HasRows
      BY <2>3 DEF HasRows
    <3>2. Cardinality(HasRows) \in Nat \ {0}
      BY <1>2, <3>1, TxAssumption, CountDown
    <3> QED BY <1>3, <1>4, <3>2
  <2> QED BY <1>5, <2>1, <2>2, <2>3
<1>6. pinger = "ping" => inUse >= 1
  BY <1>3, <1>4 DEF Pings
<1> QED BY <1>1, <1>5, <1>6

\* Every step accounts for the connection it takes or gives back.
LEMMA DBStep == DBIInv /\ [DBNext]_dbVars => DBIInv'
<1> SUFFICES ASSUME DBIInv, [DBNext]_dbVars PROVE DBIInv'
  OBVIOUS
<1>0. /\ DBTypeOK /\ HandleInv /\ PanicsAreNil /\ inUse \in Nat /\ inUse <= MaxConn /\ MaxConn \in Nat
  BY SomeInUse DEF DBIInv
<1>a. \A g \in Session : sess[g] \in SessionRec
  BY <1>0 DEF DBTypeOK, SessionRec
<1>b. dbPanic \in BOOLEAN /\ db \in {"none", "up", "nil"} /\ pinger \in {"idle", "wait", "ping"}
  BY <1>0 DEF DBTypeOK
<1>1. ASSUME UNCHANGED <<sess, inUse>>, db' \in {"none", "up", "nil"},
             pinger' \in {"idle", "wait", "ping"}, Pings' = Pings,
             dbPanic' \in BOOLEAN, PanicsAreNil'
      PROVE  DBIInv'
  <2>1. HasStatement' = HasStatement /\ HasTx' = HasTx /\ HasRows' = HasRows
    BY <1>1 DEF HasStatement, HasTx, HasRows
  <2>2. inUse' = Cardinality(HasStatement') + Cardinality(HasTx') + Cardinality(HasRows') + Pings'
    BY <1>1, <2>1 DEF DBIInv
  <2>3. DBTypeOK'
    BY <1>0, <1>1 DEF DBTypeOK
  <2>4. HandleInv'
    BY <1>0, <1>1 DEF HandleInv
  <2> QED BY <1>1, <2>2, <2>3, <2>4 DEF DBIInv
<1>2. CASE UNCHANGED dbVars
  <2>1. PanicsAreNil' /\ Pings' = Pings
    BY <1>0, <1>2 DEF dbVars, PanicsAreNil, Pings
  <2> QED BY <1>1, <1>2, <1>b, <2>1 DEF dbVars
<1>3. CASE Connect
  <2>1. PanicsAreNil' /\ Pings' = Pings
    BY <1>0, <1>3 DEF Connect, PanicsAreNil, Pings
  <2> QED BY <1>1, <1>3, <1>b, <2>1 DEF Connect
<1>4. CASE PingTick
  <2>1. PanicsAreNil' /\ Pings' = Pings
    BY <1>0, <1>4 DEF PingTick, PanicsAreNil, Pings
  <2> QED BY <1>1, <1>4, <1>b, <2>1 DEF PingTick
<1>5. ASSUME UNCHANGED <<db, sess, dbPanic>>, pinger' \in {"idle", "wait", "ping"},
             inUse' = inUse + (Pings' - Pings), inUse' \in Nat, inUse' <= MaxConn
      PROVE  DBIInv'
  <2>1. HasStatement' = HasStatement /\ HasTx' = HasTx /\ HasRows' = HasRows
    BY <1>5 DEF HasStatement, HasTx, HasRows
  <2>2. /\ Cardinality(HasStatement) \in Nat /\ Cardinality(HasTx) \in Nat
        /\ Cardinality(HasRows) \in Nat /\ Pings \in Nat /\ Pings' \in Nat
    <3>1. /\ HasStatement \in SUBSET Session /\ HasTx \in SUBSET Session /\ HasRows \in SUBSET Session
      BY DEF HasStatement, HasTx, HasRows
    <3> QED BY <3>1, TxAssumption, FS_Subset, FS_CardinalityType DEF Pings
  <2>3. inUse = Cardinality(HasStatement) + Cardinality(HasTx) + Cardinality(HasRows) + Pings
    BY DEF DBIInv
  <2>4. inUse' = Cardinality(HasStatement') + Cardinality(HasTx') + Cardinality(HasRows') + Pings'
    BY <1>5, <2>1, <2>2, <2>3
  <2>5. DBTypeOK'
    <3>1. dbPanic' \in BOOLEAN
      BY <1>5, <1>b
    <3> QED BY <1>0, <1>5, <3>1 DEF DBTypeOK
  <2>6. HandleInv' /\ PanicsAreNil'
    BY <1>0, <1>5 DEF HandleInv, PanicsAreNil
  <2> QED BY <2>4, <2>5, <2>6 DEF DBIInv
<1>6. CASE PingGets
  <2>1. Pings = 0 /\ Pings' = 1 /\ inUse < MaxConn /\ inUse' = inUse + 1
    BY <1>6 DEF PingGets, Pings
  <2> QED BY <1>0, <1>5, <1>6, <2>1 DEF PingGets
<1>7. CASE PingReturns
  <2>1. Pings = 1 /\ Pings' = 0 /\ inUse >= 1 /\ inUse' = inUse - 1
    BY <1>7, SomeInUse DEF PingReturns, Pings
  <2> QED BY <1>0, <1>5, <1>7, <2>1 DEF PingReturns
<1>8. ASSUME NEW g \in Session, NEW op \in Direct, CallDirect(g, op) PROVE DBIInv'
  <2>1. CASE db = "up"
    <3> DEFINE s == [sess[g] EXCEPT !.at = "wait", !.op = op]
    <3>1. /\ sess[g].at = "idle" /\ (op = "Begin" => sess[g].tx # "open")
          /\ (op = "Query" => sess[g].rows = "none") /\ ~dbPanic
          /\ sess' = [sess EXCEPT ![g] = s] /\ UNCHANGED <<db, inUse, pinger, dbPanic>>
      BY <1>8, <2>1 DEF CallDirect, Becomes
    <3>2. /\ s \in SessionRec /\ s.at = "wait" /\ s.op = op /\ s.tx = sess[g].tx
          /\ s.rows = sess[g].rows
      BY <1>a DEF SessionRec
    <3> HIDE DEF s
    <3>8. inUse' = inUse + Gain(sess[g], s) /\ inUse' \in Nat /\ inUse' <= MaxConn
      BY <1>0, <3>1, <3>2 DEF Gain
    <3> QED BY <1>0, <3>1, <3>2, <3>8, SessionStep
  <2>2. CASE db = "nil"
    <3>1. /\ UNCHANGED <<sess, db, inUse, pinger>> /\ dbPanic' \in BOOLEAN
      BY <1>8, <1>b, <2>2 DEF CallDirect, Becomes
    <3>2. PanicsAreNil' /\ Pings' = Pings
      BY <2>2, <3>1 DEF PanicsAreNil, Pings
    <3> QED BY <1>1, <1>b, <3>1, <3>2
  <2> QED BY <1>8, <2>1, <2>2 DEF CallDirect
<1>9. ASSUME NEW g \in Session, NEW op \in Direct, TxCall(g, op) PROVE DBIInv'
  <2>1. CASE sess[g].tx = "open"
    <3> DEFINE s == [sess[g] EXCEPT !.at = "txrun", !.op = op]
    <3>1. /\ sess[g].at = "idle" /\ (op = "Query" => sess[g].rows = "none") /\ ~dbPanic
          /\ sess' = [sess EXCEPT ![g] = s] /\ UNCHANGED <<db, inUse, pinger, dbPanic>>
      BY <1>9, <2>1 DEF TxCall, Becomes
    <3>2. /\ s \in SessionRec /\ s.at = "txrun" /\ s.op = op /\ s.tx = sess[g].tx
          /\ s.rows = sess[g].rows
      BY <1>a DEF SessionRec
    <3> HIDE DEF s
    <3>8. inUse' = inUse + Gain(sess[g], s) /\ inUse' \in Nat /\ inUse' <= MaxConn
      BY <1>0, <3>1, <3>2 DEF Gain
    <3> QED BY <1>0, <3>1, <3>2, <3>8, SessionStep
  <2>2. CASE sess[g].tx # "open"
    <3>1. UNCHANGED <<sess, db, inUse, pinger, dbPanic>>
      BY <1>9, <2>2 DEF TxCall
    <3> QED BY <1>2, <3>1 DEF dbVars
  <2> QED BY <2>1, <2>2
<1>10. ASSUME NEW g \in Session, GetConnection(g) PROVE DBIInv'
  <2> DEFINE s == [sess[g] EXCEPT !.at = "run"]
  <2>1. /\ sess[g].at = "wait" /\ inUse < MaxConn /\ inUse' = inUse + 1 /\ ~dbPanic
        /\ sess' = [sess EXCEPT ![g] = s] /\ UNCHANGED <<db, pinger, dbPanic>>
    BY <1>10 DEF GetConnection, Becomes
  <2>2. /\ s \in SessionRec /\ s.at = "run" /\ s.op = sess[g].op /\ s.tx = sess[g].tx
        /\ s.rows = sess[g].rows
    BY <1>a DEF SessionRec
  <2>3. /\ s.op = "Begin" => s.tx # "open"
        /\ s.op = "Query" => s.rows = "none"
    BY <1>0, <2>1, <2>2 DEF HandleInv
  <2> HIDE DEF s
  <2>8. inUse' = inUse + Gain(sess[g], s) /\ inUse' \in Nat /\ inUse' <= MaxConn
    BY <1>0, <2>1, <2>2, <2>3 DEF Gain
  <2> QED BY <1>0, <2>1, <2>2, <2>3, <2>8, SessionStep
<1>11. ASSUME NEW g \in Session, StatementErr(g) PROVE DBIInv'
  <2> DEFINE s == Returns([sess[g] EXCEPT !.tx = IF sess[g].op = "Begin" THEN "nil" ELSE @])
  <2>1. /\ sess[g].at = "run" /\ inUse' = inUse - 1 /\ ~dbPanic
        /\ sess' = [sess EXCEPT ![g] = s] /\ UNCHANGED <<db, pinger, dbPanic>>
    BY <1>11 DEF StatementErr, Becomes
  <2>2. /\ s \in SessionRec /\ s.at = "idle" /\ s.op = "none"
        /\ s.tx = (IF sess[g].op = "Begin" THEN "nil" ELSE sess[g].tx) /\ s.rows = sess[g].rows
    BY <1>a DEF SessionRec, Returns
  <2>3. s.tx = "open" <=> sess[g].tx = "open"
    BY <1>0, <2>1, <2>2 DEF HandleInv
  <2>4. inUse >= 1
    BY <2>1, SomeInUse
  <2> HIDE DEF s
  <2>8. inUse' = inUse + Gain(sess[g], s) /\ inUse' \in Nat /\ inUse' <= MaxConn
    BY <1>0, <2>1, <2>2, <2>3, <2>4 DEF Gain
  <2> QED BY <1>0, <2>1, <2>2, <2>3, <2>4, <2>8, SessionStep
<1>12. ASSUME NEW g \in Session, StatementOk(g) PROVE DBIInv'
  <2>0. sess[g].at = "run" /\ UNCHANGED <<db, pinger, dbPanic>> /\ inUse >= 1
    BY <1>12, SomeInUse DEF StatementOk
  <2>1. CASE sess[g].op = "Begin"
    <3> DEFINE s == Returns([sess[g] EXCEPT !.tx = "open"])
    <3>1. ~dbPanic /\ sess' = [sess EXCEPT ![g] = s] /\ UNCHANGED inUse
      BY <1>12, <2>1 DEF StatementOk, Becomes
    <3>2. s \in SessionRec /\ s.at = "idle" /\ s.op = "none" /\ s.tx = "open" /\ s.rows = sess[g].rows
      BY <1>a DEF SessionRec, Returns
    <3>3. sess[g].tx # "open"
      BY <1>0, <2>0, <2>1 DEF HandleInv
    <3> HIDE DEF s
    <3>8. inUse' = inUse + Gain(sess[g], s) /\ inUse' \in Nat /\ inUse' <= MaxConn
      BY <1>0, <2>0, <3>1, <3>2, <3>3 DEF Gain
    <3> QED BY <1>0, <2>0, <3>1, <3>2, <3>3, <3>8, SessionStep
  <2>2. CASE sess[g].op = "Query"
    <3> DEFINE s == Returns([sess[g] EXCEPT !.rows = "db"])
    <3>1. ~dbPanic /\ sess' = [sess EXCEPT ![g] = s] /\ UNCHANGED inUse
      BY <1>12, <2>2 DEF StatementOk, Becomes
    <3>2. s \in SessionRec /\ s.at = "idle" /\ s.op = "none" /\ s.rows = "db" /\ s.tx = sess[g].tx
      BY <1>a DEF SessionRec, Returns
    <3>3. sess[g].rows # "db"
      BY <1>0, <2>0, <2>2 DEF HandleInv
    <3> HIDE DEF s
    <3>8. inUse' = inUse + Gain(sess[g], s) /\ inUse' \in Nat /\ inUse' <= MaxConn
      BY <1>0, <2>0, <3>1, <3>2, <3>3 DEF Gain
    <3> QED BY <1>0, <2>0, <3>1, <3>2, <3>3, <3>8, SessionStep
  <2>3. CASE sess[g].op \in {"QueryEx", "Exec"}
    <3> DEFINE s == Returns(sess[g])
    <3>1. ~dbPanic /\ sess' = [sess EXCEPT ![g] = s] /\ inUse' = inUse - 1
      BY <1>12, <2>3 DEF StatementOk, Becomes
    <3>2. /\ s \in SessionRec /\ s.at = "idle" /\ s.op = "none" /\ s.rows = sess[g].rows
          /\ s.tx = sess[g].tx
      BY <1>a DEF SessionRec, Returns
    <3> HIDE DEF s
    <3>8. inUse' = inUse + Gain(sess[g], s) /\ inUse' \in Nat /\ inUse' <= MaxConn
      BY <1>0, <2>0, <3>1, <3>2 DEF Gain
    <3> QED BY <1>0, <2>0, <3>1, <3>2, <3>8, SessionStep
  <2> QED BY <1>12, <2>1, <2>2, <2>3 DEF StatementOk
<1>13. ASSUME NEW g \in Session, CloseRows(g) PROVE DBIInv'
  <2> DEFINE s == [sess[g] EXCEPT !.rows = "none"]
  <2>1. /\ sess[g].at = "idle" /\ ~dbPanic /\ sess' = [sess EXCEPT ![g] = s]
        /\ inUse' = IF sess[g].rows = "db" THEN inUse - 1 ELSE inUse
        /\ UNCHANGED <<db, pinger, dbPanic>>
    BY <1>13 DEF CloseRows, Becomes
  <2>2. s \in SessionRec /\ s.at = "idle" /\ s.rows = "none" /\ s.tx = sess[g].tx
    BY <1>a, <2>1 DEF SessionRec
  <2>3. sess[g].rows = "db" => inUse >= 1
    BY SomeInUse
  <2> HIDE DEF s
  <2>8. inUse' = inUse + Gain(sess[g], s) /\ inUse' \in Nat /\ inUse' <= MaxConn
    BY <1>0, <2>1, <2>2, <2>3 DEF Gain
  <2> QED BY <1>0, <2>1, <2>2, <2>3, <2>8, SessionStep
<1>14. ASSUME NEW g \in Session, TxReturns(g) PROVE DBIInv'
  <2>1. PICK r \in {sess[g].rows} \cup (IF sess[g].op = "Query" THEN {"tx"} ELSE {}) :
            Becomes(g, Returns([sess[g] EXCEPT !.rows = r]))
    BY <1>14 DEF TxReturns
  <2> DEFINE s == Returns([sess[g] EXCEPT !.rows = r])
  <2>2. /\ sess[g].at = "txrun" /\ ~dbPanic /\ sess' = [sess EXCEPT ![g] = s]
        /\ UNCHANGED <<db, inUse, pinger, dbPanic>>
    BY <1>14, <2>1 DEF TxReturns, Becomes
  <2>3. s \in SessionRec /\ s.at = "idle" /\ s.op = "none" /\ s.rows = r /\ s.tx = sess[g].tx
    BY <1>a, <2>1 DEF SessionRec, Returns
  <2>4. r = "db" <=> sess[g].rows = "db"
    <3>1. sess[g].op = "Query" => sess[g].rows = "none"
      BY <1>0, <2>2 DEF HandleInv
    <3> QED BY <2>1, <3>1
  <2> HIDE DEF s
  <2>8. inUse' = inUse + Gain(sess[g], s) /\ inUse' \in Nat /\ inUse' <= MaxConn
    BY <1>0, <2>2, <2>3, <2>4 DEF Gain
  <2> QED BY <1>0, <2>2, <2>3, <2>4, <2>8, SessionStep
<1>15. ASSUME NEW g \in Session, EndTx(g) PROVE DBIInv'
  <2>1. CASE sess[g].tx = "open"
    <3> DEFINE s == [sess[g] EXCEPT !.tx = "done",
                                    !.rows = IF sess[g].rows = "tx" THEN "none" ELSE sess[g].rows]
    <3>1. /\ sess[g].at = "idle" /\ inUse' = inUse - 1 /\ ~dbPanic
          /\ sess' = [sess EXCEPT ![g] = s] /\ UNCHANGED <<db, pinger, dbPanic>>
      BY <1>15, <2>1 DEF EndTx, Becomes
    <3>2. /\ s \in SessionRec /\ s.at = "idle" /\ s.tx = "done"
          /\ s.rows = "db" <=> sess[g].rows = "db"
      BY <1>a, <3>1 DEF SessionRec
    <3>3. inUse >= 1
      BY <2>1, SomeInUse
    <3> HIDE DEF s
    <3>8. inUse' = inUse + Gain(sess[g], s) /\ inUse' \in Nat /\ inUse' <= MaxConn
      BY <1>0, <2>1, <3>1, <3>2, <3>3 DEF Gain
    <3> QED BY <1>0, <2>1, <3>1, <3>2, <3>3, <3>8, SessionStep
  <2>2. CASE sess[g].tx = "nil"
    <3>1. UNCHANGED <<sess, db, inUse, pinger>> /\ dbPanic' \in BOOLEAN
      BY <1>15, <2>2 DEF EndTx
    <3>2. PanicsAreNil' /\ Pings' = Pings
      BY <2>2, <3>1 DEF PanicsAreNil, Pings
    <3> QED BY <1>1, <1>b, <3>1, <3>2
  <2> QED BY <1>15, <2>1, <2>2 DEF EndTx
<1> QED BY <1>2, <1>3, <1>4, <1>6, <1>7, <1>8, <1>9, <1>10, <1>11, <1>12, <1>13, <1>14, <1>15
        DEF DBNext

\* For any goroutines, any maxconn and any failures: the connections handed out
\* are those of running statements, open transactions, open rows and the ping,
\* and the process dies of a nil database or transaction only.
THEOREM TxSafe == DBSpec => []TxInv
<1>1. DBIInv => TxInv
  BY DEF DBIInv, TxInv, ConnectionsAccounted, HasStatement, HasTx, HasRows, Pings
<1> QED BY DBInitInv, DBStep, <1>1, PTL DEF DBSpec

-----------------------------------------------------------------------------
(***************************************************************************)
(* The rows.  While QueryEx reads, RowInfo holds, of each name that one    *)
(* column has, the values of the rows read so far, and the list holds the  *)
(* sets before; while UnMarshal runs for the first time, the list's index  *)
(* is the number of the arguments done.  Scan leaves a string as it was    *)
(* at and after a NULL, so a string holds nothing or what an earlier row   *)
(* put there.                                                              *)
(***************************************************************************)
Vals == Text \cup {Null}

\* A sequence of whatever.
Listed(s) == \E S : s \in Seq(S)

\* What Append does to it.
LEMMA ListedAppend ==
    ASSUME NEW s, Listed(s), NEW x
    PROVE  /\ Listed(Append(s, x)) /\ Len(s) \in Nat /\ Len(Append(s, x)) = Len(s) + 1
           /\ DOMAIN s = 1..Len(s) /\ DOMAIN Append(s, x) = 1..(Len(s) + 1)
           /\ Append(s, x)[Len(s) + 1] = x /\ \A i \in 1..Len(s) : Append(s, x)[i] = s[i]
<1>1. PICK S : s \in Seq(S)
  BY DEF Listed
<1> DEFINE T == S \cup {x}
<1>2. s \in Seq(T) /\ x \in T
  BY <1>1
<1>3. Append(s, x) \in Seq(T) /\ Len(s) \in Nat /\ DOMAIN s = 1..Len(s)
  BY <1>2
<1>4. /\ Len(Append(s, x)) = Len(s) + 1
      /\ Append(s, x)[Len(s) + 1] = x /\ \A i \in 1..Len(s) : Append(s, x)[i] = s[i]
  BY <1>2
<1>5. DOMAIN Append(s, x) = 1..(Len(s) + 1)
  BY <1>3, <1>4
<1> QED BY <1>3, <1>4, <1>5 DEF Listed

\* The empty one.
LEMMA ListedEmpty == Listed(<<>>) /\ Len(<<>>) = 0
<1>1. <<>> \in Seq({})
  OBVIOUS
<1> QED BY <1>1 DEF Listed

\* Its indexes.
LEMMA ListedLen ==
    ASSUME NEW s, Listed(s)
    PROVE  Len(s) \in Nat /\ DOMAIN s = 1..Len(s) /\ (Len(s) = 0 => s = <<>>)
BY DEF Listed

\* The columns of a set, the values of a name in a row, whether names are distinct.
ColsIn(r, s) == r[s].cols
RowIn(r, s, i) == r[s].rows[i]
NameIn(r, s, c) == Lower[r[s].cols[c]]
SentIn(r, s, i, n) == {RowIn(r, s, i)[c] : c \in {c \in DOMAIN ColsIn(r, s) : NameIn(r, s, c) = n}}
DistinctIn(r, s) ==
    \A c, d \in DOMAIN ColsIn(r, s) : NameIn(r, s, c) = NameIn(r, s, d) => c = d

\* These are the operators of RowsInv, with the statement's answer as a parameter.
LEMMA SameNames ==
    /\ \A s, i, n : Sent(s, i, n) = SentIn(result, s, i, n)
    /\ \A s : Distinct(s) <=> DistinctIn(result, s)
BY DEF Sent, SentIn, RowIn, ColsIn, NameIn, Distinct, DistinctIn

\* What the code may rely on of an answer.
LEMMA AnswerTypes ==
    ASSUME NEW r \in Results
    PROVE  /\ Len(r) \in Nat \ {0}
           /\ \A s \in 1..Len(r) :
                  /\ ColsIn(r, s) \in Seq(Column) /\ r[s].rows \in Seq(Seq(Vals))
                  /\ Len(ColsIn(r, s)) \in Nat /\ DOMAIN ColsIn(r, s) = 1..Len(ColsIn(r, s))
                  /\ Len(r[s].rows) \in Nat
                  /\ \A c \in DOMAIN ColsIn(r, s) : NameIn(r, s, c) \in Names
                  /\ \A i \in 1..Len(r[s].rows) :
                         /\ RowIn(r, s, i) \in Seq(Vals)
                         /\ Len(RowIn(r, s, i)) = Len(ColsIn(r, s))
<1> DEFINE R == [cols : Seq(Column), rows : Seq(Seq(Vals))]
<1>1. r \in Seq(R) /\ r # <<>>
  BY RowsAssumption DEF Vals
<1>2. \A s \in DOMAIN r : \A i \in DOMAIN r[s].rows : Len(r[s].rows[i]) = Len(r[s].cols)
  BY RowsAssumption
<1>3. Len(r) \in Nat \ {0} /\ DOMAIN r = 1..Len(r)
  BY <1>1
<1>4. ASSUME NEW s \in 1..Len(r)
      PROVE  /\ ColsIn(r, s) \in Seq(Column) /\ r[s].rows \in Seq(Seq(Vals))
             /\ Len(ColsIn(r, s)) \in Nat /\ DOMAIN ColsIn(r, s) = 1..Len(ColsIn(r, s))
             /\ Len(r[s].rows) \in Nat
             /\ \A c \in DOMAIN ColsIn(r, s) : NameIn(r, s, c) \in Names
             /\ \A i \in 1..Len(r[s].rows) :
                    RowIn(r, s, i) \in Seq(Vals) /\ Len(RowIn(r, s, i)) = Len(ColsIn(r, s))
  <2>1. r[s] \in R
    <3> HIDE DEF R
    <3> QED BY <1>1, <1>3
  <2>2. r[s].cols \in Seq(Column) /\ r[s].rows \in Seq(Seq(Vals))
    BY <2>1
  <2>3. /\ Len(r[s].cols) \in Nat /\ DOMAIN r[s].cols = 1..Len(r[s].cols)
        /\ \A c \in DOMAIN r[s].cols : r[s].cols[c] \in Column
    BY <2>2
  <2>4. \A c \in DOMAIN r[s].cols : Lower[r[s].cols[c]] \in Names
    BY <2>3 DEF Names
  <2>5. /\ Len(r[s].rows) \in Nat /\ DOMAIN r[s].rows = 1..Len(r[s].rows)
        /\ \A i \in 1..Len(r[s].rows) : r[s].rows[i] \in Seq(Vals)
    BY <2>2
  <2>6. \A i \in 1..Len(r[s].rows) : Len(r[s].rows[i]) = Len(r[s].cols)
    BY <1>2, <1>3, <2>5
  <2> QED BY <2>2, <2>3, <2>4, <2>5, <2>6 DEF ColsIn, RowIn, NameIn
<1> QED BY <1>3, <1>4

\* The values of n in the first p columns, as ValuesOf collects them.
Collects(f, r, s, row1, n, m) ==
    f = [p \in 0..m |-> IF p = 0 THEN <<>>
                        ELSE IF NameIn(r, s, p) = n THEN Append(f[p - 1], row1[p]) ELSE f[p - 1]]

\* There is such a function, whatever the row: column by column.
LEMMA CollectsExists ==
    ASSUME NEW r, NEW s, NEW v, NEW n, NEW m \in Nat
    PROVE  \E f : Collects(f, r, s, v, n, m)
<1> DEFINE S == {k \in Nat : \E f : Collects(f, r, s, v, n, k)}
<1>1. 0 \in S
  <2> DEFINE g == [p \in 0..0 |-> <<>>]
  <2>1. Collects(g, r, s, v, n, 0)
    BY DEF Collects
  <2> QED BY <2>1
<1>2. ASSUME NEW k \in Nat, k \in S PROVE k + 1 \in S
  <2>1. PICK f : Collects(f, r, s, v, n, k)
    BY <1>2
  <2> DEFINE E(h, p) == IF p = 0 THEN <<>>
                        ELSE IF NameIn(r, s, p) = n THEN Append(h[p - 1], v[p]) ELSE h[p - 1]
             g == [p \in 0..(k + 1) |-> IF p = k + 1 THEN E(f, p) ELSE f[p]]
  <2>2. \A p \in 0..k : f[p] = E(f, p)
    BY <2>1 DEF Collects
  <2>3. \A p \in 0..k : g[p] = f[p]
    OBVIOUS
  <2>4. g[k + 1] = E(f, k + 1)
    OBVIOUS
  <2>5. g = [p \in 0..(k + 1) |-> g[p]]
    OBVIOUS
  <2> HIDE DEF g
  <2>6. \A p \in 0..(k + 1) : g[p] = E(g, p)
    <3> SUFFICES ASSUME NEW p \in 0..(k + 1) PROVE g[p] = E(g, p)
      OBVIOUS
    <3>1. p = 0 \/ p - 1 \in 0..k
      OBVIOUS
    <3>2. p = k + 1 \/ p \in 0..k
      OBVIOUS
    <3>3. E(g, p) = E(f, p)
      BY <2>3, <3>1
    <3> HIDE DEF E
    <3> QED BY <2>2, <2>3, <2>4, <3>2, <3>3
  <2>7. Collects(g, r, s, v, n, k + 1)
    BY <2>5, <2>6 DEF Collects
  <2> QED BY <2>7
<1> HIDE DEF S
<1>3. m \in S
  BY <1>1, <1>2, InductionSet
<1> QED BY <1>3 DEF S

\* What ValuesOf returns.
LEMMA ValuesOfRow ==
    ASSUME NEW r, r = result, r \in Results, NEW s, s = set, s \in 1..Len(r),
           NEW i \in 1..Len(r[s].rows), NEW n \in Names
    PROVE  /\ ValuesOf(RowIn(r, s, i), n) \in Seq(Vals)
           /\ DistinctIn(r, s) =>
                  /\ (\A c \in DOMAIN ColsIn(r, s) : NameIn(r, s, c) # n)
                         => ValuesOf(RowIn(r, s, i), n) = <<>>
                  /\ \A c \in DOMAIN ColsIn(r, s) :
                         NameIn(r, s, c) = n => ValuesOf(RowIn(r, s, i), n) = <<RowIn(r, s, i)[c]>>
<1> DEFINE v == RowIn(r, s, i)
           m == Len(ColsIn(r, s))
           f == CHOOSE g : Collects(g, r, s, v, n, m)
<1>1. /\ m \in Nat /\ DOMAIN ColsIn(r, s) = 1..m /\ v \in Seq(Vals) /\ Len(v) = m
  BY AnswerTypes
<1>2. Collects(f, r, s, v, n, m)
  BY <1>1, CollectsExists
<1>3. ValuesOf(v, n) = f[m]
  BY DEF ValuesOf, Cols, Collects, NameIn, ColsIn
<1> HIDE DEF f
<1>4. \A p \in 0..m : f[p] = IF p = 0 THEN <<>>
                             ELSE IF NameIn(r, s, p) = n THEN Append(f[p - 1], v[p]) ELSE f[p - 1]
  BY <1>2 DEF Collects
<1> HIDE DEF m, v
<1>5. \A p \in 1..m : v[p] \in Vals
  BY <1>1
<1>6. /\ f[0] = <<>>
      /\ \A p \in Nat : p + 1 \in 1..m =>
             f[p + 1] = IF NameIn(r, s, p + 1) = n THEN Append(f[p], v[p + 1]) ELSE f[p]
  <2>1. f[0] = <<>>
    <3>1. 0 \in 0..m
      BY <1>1
    <3> QED BY <1>4, <3>1, Zenon
  <2>2. ASSUME NEW p \in Nat, p + 1 \in 1..m
        PROVE  f[p + 1] = IF NameIn(r, s, p + 1) = n THEN Append(f[p], v[p + 1]) ELSE f[p]
    <3> DEFINE q == p + 1
    <3>1. q \in 0..m /\ q # 0 /\ q - 1 = p
      BY <1>1, <2>2
    <3> HIDE DEF q
    <3>2. f[q] = IF NameIn(r, s, q) = n THEN Append(f[q - 1], v[q]) ELSE f[q - 1]
      BY <1>4, <3>1
    <3>3. f[q] = IF NameIn(r, s, q) = n THEN Append(f[p], v[q]) ELSE f[p]
      BY <3>1, <3>2
    <3> QED BY <3>3 DEF q
  <2> QED BY <2>1, <2>2
<1> DEFINE U == {p \in Nat : p \in 0..m => f[p] \in Seq(Vals)}
<1>7. f[m] \in Seq(Vals)
  <2>1. 0 \in U
    <3>1. <<>> \in Seq(Vals)
      OBVIOUS
    <3> QED BY <1>6, <3>1
  <2>2. ASSUME NEW p \in Nat, p \in U PROVE p + 1 \in U
    <3> SUFFICES ASSUME p + 1 \in 0..m PROVE f[p + 1] \in Seq(Vals)
      OBVIOUS
    <3>1. p \in 0..m /\ p + 1 \in 1..m
      BY <1>1
    <3>2. f[p] \in Seq(Vals)
      BY <2>2, <3>1
    <3>3. f[p + 1] = Append(f[p], v[p + 1]) \/ f[p + 1] = f[p]
      BY <1>6, <3>1
    <3>4. v[p + 1] \in Vals
      BY <1>5, <3>1
    <3>5. Append(f[p], v[p + 1]) \in Seq(Vals)
      BY <3>2, <3>4, SeqAppend
    <3> QED BY <3>2, <3>3, <3>5
  <2> HIDE DEF U
  <2>3. m \in U
    BY <1>1, <2>1, <2>2, InductionSet
  <2> QED BY <1>1, <2>3 DEF U
<1>8. ASSUME \A c \in 1..m : NameIn(r, s, c) # n
      PROVE  f[m] = <<>>
  <2> DEFINE W == {p \in Nat : p \in 0..m => f[p] = <<>>}
  <2>1. 0 \in W
    BY <1>6
  <2>2. ASSUME NEW p \in Nat, p \in W PROVE p + 1 \in W
    <3> SUFFICES ASSUME p + 1 \in 0..m PROVE f[p + 1] = <<>>
      OBVIOUS
    <3>1. p \in 0..m /\ p + 1 \in 1..m
      BY <1>1
    <3> QED BY <1>6, <1>8, <2>2, <3>1
  <2> HIDE DEF W
  <2>3. m \in W
    BY <1>1, <2>1, <2>2, InductionSet
  <2> QED BY <1>1, <2>3 DEF W
<1>9. ASSUME NEW c \in 1..m, NameIn(r, s, c) = n, DistinctIn(r, s)
      PROVE  f[m] = <<v[c]>>
  <2>1. \A d \in 1..m : NameIn(r, s, d) = n => d = c
    BY <1>1, <1>9 DEF DistinctIn
  <2> DEFINE W == {p \in Nat : p \in 0..m => f[p] = IF p < c THEN <<>> ELSE <<v[c]>>}
  <2>2. 0 \in W
    BY <1>6
  <2>3. ASSUME NEW p \in Nat, p \in W PROVE p + 1 \in W
    <3> SUFFICES ASSUME p + 1 \in 0..m PROVE f[p + 1] = IF p + 1 < c THEN <<>> ELSE <<v[c]>>
      OBVIOUS
    <3>1. p \in 0..m /\ p + 1 \in 1..m
      BY <1>1
    <3>2. f[p] = IF p < c THEN <<>> ELSE <<v[c]>>
      BY <2>3, <3>1
    <3>3. CASE p + 1 = c
      <4>0. p < c
        BY <3>3
      <4>1. f[p] = <<>> /\ f[p + 1] = Append(f[p], v[c])
        <5>1. NameIn(r, s, p + 1) = n /\ v[p + 1] = v[c]
          BY <1>9, <3>3
        <5>2. f[p + 1] = Append(f[p], v[p + 1])
          BY <1>6, <3>1, <5>1
        <5> QED BY <3>2, <4>0, <5>1, <5>2
      <4>2. Append(<<>>, v[c]) = <<v[c]>>
        OBVIOUS
      <4> QED BY <3>3, <4>1, <4>2
    <3>4. CASE p + 1 # c
      <4>1. f[p + 1] = f[p]
        BY <1>6, <2>1, <3>1, <3>4
      <4>2. p < c <=> p + 1 < c
        BY <3>4
      <4> QED BY <3>2, <4>1, <4>2
    <3> QED BY <3>3, <3>4
  <2> HIDE DEF W
  <2>4. m \in W
    BY <1>1, <2>2, <2>3, InductionSet
  <2>5. ~(m < c)
    BY <1>1
  <2> QED BY <1>1, <2>4, <2>5 DEF W
<1> QED BY <1>1, <1>3, <1>7, <1>8, <1>9 DEF v

\* What is known of the entries of RowInfo after k rows of set s.
InfoOf(r, info, s, k) ==
    /\ DOMAIN info = Names /\ \A n \in Names : info[n] \in Seq(Vals)
    /\ DistinctIn(r, s) => \A n \in Names :
           /\ (\A c \in DOMAIN ColsIn(r, s) : NameIn(r, s, c) # n) => info[n] = <<>>
           /\ \A c \in DOMAIN ColsIn(r, s) : NameIn(r, s, c) = n =>
                  Len(info[n]) = k /\ \A i \in 1..k : info[n][i] = RowIn(r, s, i)[c]

\* Of the sets in the list.
SetsOf(r, list, brk) ==
    /\ Listed(list) /\ Len(list) <= Len(r)
    /\ \A s \in 1..Len(list) :
           /\ list[s].rowNum \in 0..Len(r[s].rows) /\ (~brk => list[s].rowNum = Len(r[s].rows))
           /\ InfoOf(r, list[s].RowInfo, s, list[s].rowNum)

\* Of the k-th argument that was filled from ds.
OwnVals(r, ds, k, i, f) == IF i <= ds.rowNum THEN SentIn(r, k, i, f) \ {Null} ELSE {}
ArgOwn(r, ds, k, o) ==
    /\ o.from = k
    /\ DistinctIn(r, k) => \A i \in DOMAIN o.rows : \A f \in DOMAIN o.rows[i] :
           IF OwnVals(r, ds, k, i, f) = {} THEN o.rows[i][f] = Zero
           ELSE o.rows[i][f] \in OwnVals(r, ds, k, i, f)
FilledOwn ==
    /\ Listed(out) /\ Len(out) <= Len(dataSetList)
    /\ \A k \in 1..Len(out) : ArgOwn(result, dataSetList[k], k, out[k])

\* Of the strings Scan writes to after k rows, and of what was made of row i.
ValuesOwn(r, s, k, vs) ==
    \A c \in DOMAIN ColsIn(r, s) : vs[c] = Zero \/ \E j \in 1..k : vs[c] = RowIn(r, s, j)[c]
RowOwn(r, s, i, f, v) ==
    \/ v = Zero \/ v \in SentIn(r, s, i, f)
    \/ /\ \E c \in DOMAIN ColsIn(r, s) : RowIn(r, s, i)[c] = Null
       /\ \E j \in 1..(i - 1) : v \in SentIn(r, s, j, f)
TableOwn(r, s, t) == \A i \in DOMAIN t : \A f \in DOMAIN t[i] : RowOwn(r, s, i, f, t[i][f])

StartInv ==
    rowsAt = "none" =>
        /\ set = 1 /\ row = 0 /\ ~closed /\ ~broken /\ rowInfo = NoInfo /\ dataSetList = <<>>
        /\ currentDataSetIdx = 0 /\ verdict = "none" /\ unMarshals = 0
CursorInv ==
    rowsAt # "none" => result \in Results /\ set \in 1..Len(result) /\ row \in 0..Len(Rows)

\* QueryEx and DataSetList.
ListInv ==
    /\ rowsAt \in {"read", "list", "unmarshal", "panic"} => SetsOf(result, dataSetList, broken)
    /\ rowsAt = "read" =>
           /\ ~closed /\ Len(dataSetList) = set - 1 /\ InfoOf(result, rowInfo, set, row)
           /\ currentDataSetIdx = 0 /\ unMarshals = 0 /\ verdict = "none"
    /\ rowsAt \in {"list", "unmarshal", "panic"} /\ ~broken => Len(dataSetList) = Len(result)
    /\ rowsAt = "list" /\ unMarshals = 0 => currentDataSetIdx = 0 /\ verdict = "none"
    /\ rowsAt = "unmarshal" =>
           /\ unMarshals # 0 /\ args \in ArgLists /\ Len(args) = Len(dataSetList)
           /\ Listed(out) /\ Len(out) <= Len(args)
           /\ unMarshals = 1 => currentDataSetIdx = Len(out) /\ FilledOwn
    /\ rowsAt = "list" /\ verdict = "ok" /\ unMarshals = 1 => FilledOwn
    /\ PanicsOnReuse

\* Query and DBResult.
ScanInv ==
    /\ rowsAt = "result" =>
           /\ row = 0 \/ ~HasNext
           /\ verdict = "ok" /\ out # <<>> => TableOwn(result, out[1].from, out[1].rows)
    /\ rowsAt = "scan" =>
           /\ ~closed /\ Listed(tableData)
           /\ Len(tableData) = row \/ (tableData = <<>> /\ ~HasNext)
           /\ ValuesOwn(result, set, row, values) /\ TableOwn(result, set, tableData)

RowsIInv == RowsTypeOK /\ StartInv /\ CursorInv /\ ListInv /\ ScanInv

\* A set begins with no entries, and each row gives the entries their values.
LEMMA InfoStart == ASSUME NEW r, NEW s PROVE InfoOf(r, NoInfo, s, 0)
<1>1. DOMAIN NoInfo = Names /\ \A n \in Names : NoInfo[n] = <<>>
  BY DEF NoInfo
<1>2. <<>> \in Seq(Vals) /\ Len(<<>>) = 0 /\ \A i \in 1..0 : FALSE
  OBVIOUS
<1> QED BY <1>1, <1>2 DEF InfoOf

\* The row after the k-th.
LEMMA InfoRow ==
    ASSUME NEW r \in Results, r = result, NEW s \in 1..Len(r), s = set, NEW info, NEW k \in Nat,
           k < Len(r[s].rows), InfoOf(r, info, s, k),
           NEW info2, info2 = [n \in Names |-> info[n] \o ValuesOf(RowIn(r, s, k + 1), n)]
    PROVE  InfoOf(r, info2, s, k + 1)
<1> DEFINE v == RowIn(r, s, k + 1)
           more(n) == ValuesOf(v, n)
<1>1. k + 1 \in 1..Len(r[s].rows)
  BY AnswerTypes
<1>2. \A n \in Names :
          /\ more(n) \in Seq(Vals)
          /\ DistinctIn(r, s) =>
                 /\ (\A c \in DOMAIN ColsIn(r, s) : NameIn(r, s, c) # n) => more(n) = <<>>
                 /\ \A c \in DOMAIN ColsIn(r, s) : NameIn(r, s, c) = n => more(n) = <<v[c]>>
  BY <1>1, ValuesOfRow
<1> HIDE DEF more
<1>3. DOMAIN info2 = Names /\ \A n \in Names : info2[n] = info[n] \o more(n)
  BY DEF more
<1>4. ASSUME NEW n \in Names PROVE info2[n] \in Seq(Vals) /\ info[n] \in Seq(Vals)
  <2>1. info[n] \in Seq(Vals) /\ more(n) \in Seq(Vals)
    BY <1>2 DEF InfoOf
  <2> QED BY <1>3, <2>1, ConcatProperties
<1>5. ASSUME DistinctIn(r, s), NEW n \in Names, \A c \in DOMAIN ColsIn(r, s) : NameIn(r, s, c) # n
      PROVE  info2[n] = <<>>
  <2>1. info[n] = <<>> /\ more(n) = <<>>
    BY <1>2, <1>5 DEF InfoOf
  <2>2. <<>> \o <<>> = <<>>
    OBVIOUS
  <2> QED BY <1>3, <2>1, <2>2
<1>6. ASSUME DistinctIn(r, s), NEW n \in Names, NEW c \in DOMAIN ColsIn(r, s), NameIn(r, s, c) = n
      PROVE  Len(info2[n]) = k + 1 /\ \A i \in 1..(k + 1) : info2[n][i] = RowIn(r, s, i)[c]
  <2>1. more(n) = <<v[c]>>
    BY <1>2, <1>6
  <2>2. Len(info[n]) = k /\ \A i \in 1..k : info[n][i] = RowIn(r, s, i)[c]
    BY <1>6 DEF InfoOf
  <2> DEFINE a == info[n]
             x == v[c]
  <2>3. a \in Seq(Vals) /\ more(n) \in Seq(Vals)
    BY <1>2, <1>4
  <2>4. x \in Vals
    <3>1. <<x>> \in Seq(Vals)
      BY <2>1, <2>3
    <3> QED BY <3>1
  <2> HIDE DEF a, x
  <2>5. info2[n] = a \o <<x>>
    BY <1>3, <2>1 DEF a, x
  <2>6. a \o <<x>> = Append(a, x)
    BY <2>3, <2>4
  <2>7. /\ Len(Append(a, x)) = Len(a) + 1 /\ Append(a, x)[Len(a) + 1] = x
        /\ \A i \in 1..Len(a) : Append(a, x)[i] = a[i]
    BY <2>3, <2>4, SeqAppend
  <2>8. \A i \in 1..(k + 1) : i \in 1..k \/ i = k + 1
    OBVIOUS
  <2>9. Len(a) = k /\ \A i \in 1..k : a[i] = RowIn(r, s, i)[c]
    BY <2>2 DEF a
  <2>10. Len(info2[n]) = k + 1
    BY <2>5, <2>6, <2>7, <2>9
  <2>11. info2[n][k + 1] = RowIn(r, s, k + 1)[c]
    BY <2>5, <2>6, <2>7, <2>9 DEF x, v
  <2>12. \A i \in 1..k : info2[n][i] = RowIn(r, s, i)[c]
    BY <2>5, <2>6, <2>7, <2>9
  <2> QED BY <2>8, <2>10, <2>11, <2>12
<1> QED BY <1>3, <1>4, <1>5, <1>6 DEF InfoOf

\* UnMarshal fills an argument from the values of its set.
LEMMA ArgFilled ==
    ASSUME NEW r \in Results, NEW k \in 1..Len(r), NEW ds, ds.rowNum \in 0..Len(r[k].rows),
           InfoOf(r, ds.RowInfo, k, ds.rowNum), NEW I \in SUBSET (Nat \ {0}),
           NEW t, DOMAIN t \subseteq Names,
           \A i \in I, f \in DOMAIN t : ~FieldErr(ds, i, f, t[f]),
           NEW o, o = [from |-> k, rows |-> [i \in I |-> [f \in DOMAIN t |-> FieldValue(ds, i, f)]]]
    PROVE  ArgOwn(r, ds, k, o)
<1>1. /\ o.from = k /\ DOMAIN o.rows = I
      /\ \A i \in I : DOMAIN o.rows[i] = DOMAIN t
                      /\ \A f \in DOMAIN t : o.rows[i][f] = FieldValue(ds, i, f)
  OBVIOUS
<1>2. ASSUME DistinctIn(r, k), NEW i \in I, NEW f \in DOMAIN t
      PROVE  IF OwnVals(r, ds, k, i, f) = {} THEN FieldValue(ds, i, f) = Zero
             ELSE FieldValue(ds, i, f) \in OwnVals(r, ds, k, i, f)
  <2> DEFINE c == ds.RowInfo[f]
             n == ds.rowNum
             v == OwnVals(r, ds, k, i, f)
  <2>0. v = IF i <= n THEN SentIn(r, k, i, f) \ {Null} ELSE {}
    BY DEF OwnVals
  <2>1. f \in Names /\ c \in Seq(Vals) /\ n \in Nat
    BY <1>2 DEF InfoOf
  <2>2. c = <<>> \/ Len(c) >= i
    <3>1. ~FieldErr(ds, i, f, t[f])
      OBVIOUS
    <3>2. c = <<>> \/ ~(Len(c) < i)
      BY <3>1 DEF FieldErr
    <3>3. Len(c) \in Nat /\ i \in Nat
      BY <2>1
    <3> QED BY <3>2, <3>3
  <2>3. FieldValue(ds, i, f) = IF c = <<>> \/ c[i] = Null THEN Zero ELSE c[i]
    BY DEF FieldValue
  <2> HIDE DEF c, n, v
  <2>4. CASE \A d \in DOMAIN ColsIn(r, k) : NameIn(r, k, d) # f
    <3>1. c = <<>>
      BY <1>2, <2>1, <2>4 DEF InfoOf, c
    <3>2. SentIn(r, k, i, f) = {}
      BY <2>4 DEF SentIn
    <3>3. v = {}
      BY <2>0, <3>2
    <3>4. FieldValue(ds, i, f) = Zero
      BY <2>3, <3>1
    <3> QED BY <3>3, <3>4 DEF v
  <2>5. ASSUME NEW d \in DOMAIN ColsIn(r, k), NameIn(r, k, d) = f
        PROVE  IF v = {} THEN FieldValue(ds, i, f) = Zero ELSE FieldValue(ds, i, f) \in v
    <3>1. Len(c) = n /\ \A j \in 1..n : c[j] = RowIn(r, k, j)[d]
      BY <1>2, <2>1, <2>5 DEF InfoOf, c, n
    <3>2. SentIn(r, k, i, f) = {RowIn(r, k, i)[d]}
      BY <1>2, <2>5 DEF SentIn, DistinctIn
    <3>3. CASE c = <<>>
      <4>1. n = 0 /\ ~(i <= n)
        <5>1. Len(<<>>) = 0 /\ i \in Nat \ {0}
          OBVIOUS
        <5>2. n = 0
          BY <3>1, <3>3, <5>1
        <5> QED BY <5>1, <5>2
      <4> QED BY <2>0, <2>3, <3>3, <4>1
    <3>4. CASE c # <<>>
      <4>1. i \in 1..n /\ i <= n
        BY <2>1, <2>2, <3>1, <3>4
      <4>2. c[i] = RowIn(r, k, i)[d]
        BY <3>1, <4>1
      <4>3. v = {c[i]} \ {Null}
        BY <2>0, <3>2, <4>1, <4>2
      <4>4. CASE c[i] = Null
        BY <2>3, <4>3, <4>4
      <4>5. CASE c[i] # Null
        BY <2>3, <3>4, <4>3, <4>5
      <4> QED BY <4>4, <4>5
    <3> QED BY <3>3, <3>4
  <2> QED BY <2>4, <2>5 DEF v
<1>3. ASSUME DistinctIn(r, k), NEW i \in DOMAIN o.rows, NEW f \in DOMAIN o.rows[i]
      PROVE  IF OwnVals(r, ds, k, i, f) = {} THEN o.rows[i][f] = Zero
             ELSE o.rows[i][f] \in OwnVals(r, ds, k, i, f)
  <2>1. i \in I /\ f \in DOMAIN t /\ o.rows[i][f] = FieldValue(ds, i, f)
    BY <1>1, <1>3
  <2> QED BY <1>2, <1>3, <2>1
<1> QED BY <1>1, <1>3 DEF ArgOwn

\* Scan, and what dbResult2Map makes of a row.
LEMMA Scanned ==
    ASSUME NEW r \in Results, NEW s \in 1..Len(r), NEW k \in Nat, k < Len(r[s].rows),
           NEW vs, ValuesOwn(r, s, k, vs), NEW v, NEW w, w = RowIn(r, s, k + 1),
           v = [c \in DOMAIN ColsIn(r, s) |-> IF \A d \in 1..c : w[d] # Null THEN w[c] ELSE vs[c]]
    PROVE  /\ ValuesOwn(r, s, k + 1, v)
           /\ \A c \in DOMAIN ColsIn(r, s) : RowOwn(r, s, k + 1, NameIn(r, s, c), v[c])
<1>1. /\ DOMAIN ColsIn(r, s) = 1..Len(ColsIn(r, s)) /\ Len(ColsIn(r, s)) \in Nat
  BY AnswerTypes
<1>2. \A c \in DOMAIN ColsIn(r, s) : v[c] = IF \A d \in 1..c : w[d] # Null THEN w[c] ELSE vs[c]
  OBVIOUS
<1>3. ASSUME NEW c \in DOMAIN ColsIn(r, s)
      PROVE  /\ v[c] = Zero \/ \E j \in 1..(k + 1) : v[c] = RowIn(r, s, j)[c]
             /\ RowOwn(r, s, k + 1, NameIn(r, s, c), v[c])
  <2> DEFINE n == NameIn(r, s, c)
  <2>1. \A j : RowIn(r, s, j)[c] \in SentIn(r, s, j, n)
    BY DEF SentIn
  <2>2. CASE \A d \in 1..c : w[d] # Null
    <3>1. v[c] = RowIn(r, s, k + 1)[c]
      BY <1>2, <2>2
    <3>2. k + 1 \in 1..(k + 1)
      OBVIOUS
    <3> QED BY <2>1, <3>1, <3>2 DEF RowOwn
  <2>3. CASE ~\A d \in 1..c : w[d] # Null
    <3>1. v[c] = vs[c]
      BY <1>2, <2>3
    <3>2. PICK d \in 1..c : w[d] = Null
      BY <2>3
    <3>3. d \in DOMAIN ColsIn(r, s)
      BY <1>1
    <3>4. vs[c] = Zero \/ \E j \in 1..k : vs[c] = RowIn(r, s, j)[c]
      BY DEF ValuesOwn
    <3>5. CASE vs[c] = Zero
      BY <3>1, <3>5 DEF RowOwn
    <3>6. ASSUME NEW j \in 1..k, vs[c] = RowIn(r, s, j)[c]
          PROVE  /\ v[c] = Zero \/ \E jj \in 1..(k + 1) : v[c] = RowIn(r, s, jj)[c]
                 /\ RowOwn(r, s, k + 1, NameIn(r, s, c), v[c])
      <4>1. j \in 1..(k + 1) /\ j \in 1..((k + 1) - 1)
        OBVIOUS
      <4>2. v[c] = RowIn(r, s, j)[c] /\ v[c] \in SentIn(r, s, j, n)
        BY <2>1, <3>1, <3>6
      <4>3. RowIn(r, s, k + 1)[d] = Null
        BY <3>2
      <4> QED BY <3>3, <4>1, <4>2, <4>3 DEF RowOwn
    <3> QED BY <3>4, <3>5, <3>6
  <2> QED BY <2>2, <2>3
<1> QED BY <1>3 DEF ValuesOwn

\* The parts of the invariant that a step leaves alone when it leaves their
\* state alone.
LEMMA RowsTypes ==
    ASSUME RowsIInv
    PROVE  /\ RowsTypeOK /\ StartInv /\ CursorInv /\ ListInv /\ ScanInv
           /\ MaxCalls \in Nat /\ unMarshals \in Nat /\ currentDataSetIdx \in Nat
           /\ rowsAt # "none" => /\ result \in Results /\ set \in 1..Len(result)
                                 /\ row \in 0..Len(Rows) /\ Len(Rows) \in Nat
                                 /\ Len(result) \in Nat \ {0} /\ Rows = result[set].rows
                                 /\ Cols = ColsIn(result, set)
<1>1. RowsTypeOK /\ StartInv /\ CursorInv /\ ListInv /\ ScanInv
  BY DEF RowsIInv
<1>2. unMarshals \in Nat /\ currentDataSetIdx \in Nat /\ MaxCalls \in Nat
  BY <1>1, RowsAssumption DEF RowsTypeOK
<1>3. rowsAt # "none" => /\ result \in Results /\ set \in 1..Len(result)
                         /\ row \in 0..Len(Rows) /\ Len(Rows) \in Nat
                         /\ Len(result) \in Nat \ {0} /\ Rows = result[set].rows
                         /\ Cols = ColsIn(result, set)
  BY <1>1, AnswerTypes DEF CursorInv, Rows, Cols, ColsIn
<1> QED BY <1>1, <1>2, <1>3

\* Nothing has been asked.
LEMMA RowsInitInv == RowsInit => RowsIInv
<1> SUFFICES ASSUME RowsInit PROVE RowsIInv
  OBVIOUS
<1>1. /\ rowsAt = "none" /\ result = <<>> /\ set = 1 /\ row = 0 /\ broken = FALSE
      /\ closed = FALSE /\ rowInfo = NoInfo /\ dataSetList = <<>> /\ currentDataSetIdx = 0
      /\ values = <<>> /\ tableData = <<>> /\ args = <<>> /\ out = <<>> /\ verdict = "none"
      /\ unMarshals = 0
  BY DEF RowsInit
<1>2. DOMAIN NoInfo = Names /\ \A n \in Names : NoInfo[n] \in Seq(Vals)
  BY InfoStart DEF InfoOf
<1>3. RowsTypeOK
  <2>1. 0 \in 0..MaxCalls
    BY RowsAssumption
  <2> QED BY <1>1, <1>2, <2>1 DEF RowsTypeOK, Vals
<1>4. StartInv /\ CursorInv
  BY <1>1 DEF StartInv, CursorInv
<1>5. ListInv
  BY <1>1 DEF ListInv, PanicsOnReuse
<1>6. ScanInv
  BY <1>1 DEF ScanInv
<1> QED BY <1>3, <1>4, <1>5, <1>6 DEF RowsIInv

\* The statement is answered: no row has been read.
LEMMA OpenRowsStep ==
    ASSUME RowsIInv, NEW r \in Results, NEW at \in {"read", "result"}, OpenRows(r, at)
    PROVE  RowsIInv'
<1>1. /\ rowsAt = "none" /\ rowsAt' = at /\ result' = r
      /\ UNCHANGED <<set, row, broken, closed, rowInfo, dataSetList, currentDataSetIdx, values,
                     tableData, args, out, verdict, unMarshals>>
  BY DEF OpenRows, listVars, tableVars, decodeVars
<1>2. /\ set = 1 /\ row = 0 /\ ~closed /\ ~broken /\ rowInfo = NoInfo /\ dataSetList = <<>>
      /\ currentDataSetIdx = 0 /\ verdict = "none" /\ unMarshals = 0 /\ RowsTypeOK
  BY <1>1, RowsTypes DEF StartInv
<1>3. Len(r) \in Nat \ {0} /\ 1 \in 1..Len(r) /\ Len(r[1].rows) \in Nat
  <2>1. Len(r) \in Nat \ {0}
    BY AnswerTypes
  <2>2. 1 \in 1..Len(r)
    BY <2>1
  <2> QED BY <2>1, <2>2, AnswerTypes
<1>4. RowsTypeOK'
  BY <1>1, <1>2 DEF RowsTypeOK
<1>5. StartInv' /\ CursorInv'
  BY <1>1, <1>2, <1>3 DEF StartInv, CursorInv, Rows
<1>6. ListInv'
  <2>1. SetsOf(r, <<>>, FALSE)
    BY <1>3, ListedEmpty DEF SetsOf
  <2>2. InfoOf(r, NoInfo, 1, 0)
    BY InfoStart
  <2>3. Len(<<>>) = 1 - 1 /\ broken = FALSE
    BY <1>2 DEF RowsTypeOK
  <2> QED BY <1>1, <1>2, <2>1, <2>2, <2>3 DEF ListInv, PanicsOnReuse
<1>7. ScanInv'
  BY <1>1, <1>2 DEF ScanInv
<1> QED BY <1>4, <1>5, <1>6, <1>7 DEF RowsIInv

\* The connection breaks: what was read stays, and there is no next row.
LEMMA RowsBreakStep ==
    ASSUME RowsIInv, RowsBreak
    PROVE  RowsIInv'
<1>1. /\ rowsAt \in {"read", "result", "scan"} /\ broken' = TRUE
      /\ UNCHANGED <<rowsAt, result, set, row, closed, rowInfo, dataSetList, currentDataSetIdx,
                     values, tableData, args, out, verdict, unMarshals>>
  BY DEF RowsBreak, listVars, tableVars, decodeVars
<1>2. RowsTypeOK /\ StartInv /\ CursorInv /\ ListInv /\ ScanInv
  BY RowsTypes
<1>3. RowsTypeOK' /\ StartInv' /\ CursorInv'
  BY <1>1, <1>2 DEF RowsTypeOK, StartInv, CursorInv, Rows
<1>4. ListInv'
  <2>1. SetsOf(result, dataSetList, broken) => SetsOf(result, dataSetList, TRUE)
    BY DEF SetsOf
  <2> QED BY <1>1, <1>2, <2>1 DEF ListInv, PanicsOnReuse
<1>5. ScanInv'
  BY <1>1, <1>2 DEF ScanInv, HasNext
<1> QED BY <1>3, <1>4, <1>5 DEF RowsIInv

\* QueryEx reads a row: each entry gets the value of its column.
LEMMA QueryExRowStep ==
    ASSUME RowsIInv, QueryExRow
    PROVE  RowsIInv'
<1>1. /\ rowsAt = "read" /\ HasNext /\ row' = row + 1
      /\ rowInfo' = [n \in Names |-> rowInfo[n] \o ValuesOf(Rows[row + 1], n)]
      /\ UNCHANGED <<rowsAt, result, set, broken, closed, dataSetList, currentDataSetIdx,
                     values, tableData, args, out, verdict, unMarshals>>
  BY DEF QueryExRow, tableVars, decodeVars
<1>2. RowsTypeOK /\ StartInv /\ CursorInv /\ ListInv /\ ScanInv
  BY RowsTypes
<1>3. /\ result \in Results /\ set \in 1..Len(result) /\ row \in Nat /\ Len(Rows) \in Nat
      /\ Rows = result[set].rows /\ row < Len(Rows)
  BY <1>1, RowsTypes DEF HasNext
<1>4. InfoOf(result, rowInfo', set, row + 1)
  <2> PICK r, s, k, info, info2 :
        r = result /\ s = set /\ k = row /\ info = rowInfo /\ info2 = rowInfo'
    OBVIOUS
  <2>1. /\ r \in Results /\ s \in 1..Len(r) /\ k \in Nat /\ k < Len(r[s].rows)
        /\ InfoOf(r, info, s, k)
    BY <1>1, <1>2, <1>3 DEF ListInv
  <2>2. info2 = [n \in Names |-> info[n] \o ValuesOf(RowIn(r, s, k + 1), n)]
    BY <1>1, <1>3 DEF RowIn
  <2>3. InfoOf(r, info2, s, k + 1)
    BY <2>1, <2>2, InfoRow
  <2> QED BY <2>3
<1>5. RowsTypeOK'
  <2>1. DOMAIN rowInfo' = Names /\ \A n \in Names : rowInfo'[n] \in Seq(Vals)
    BY <1>4 DEF InfoOf
  <2> QED BY <1>1, <1>2, <2>1 DEF RowsTypeOK, Vals
<1>6. StartInv' /\ CursorInv'
  <2>1. row + 1 \in 0..Len(Rows)
    BY <1>3
  <2> QED BY <1>1, <1>2, <2>1 DEF StartInv, CursorInv, Rows
<1>7. ListInv'
  BY <1>1, <1>2, <1>4 DEF ListInv, PanicsOnReuse
<1>8. ScanInv'
  BY <1>1 DEF ScanInv
<1> QED BY <1>5, <1>6, <1>7, <1>8 DEF RowsIInv

\* QueryEx ends a set, which has all its rows unless the connection broke.
LEMMA QueryExSetStep ==
    ASSUME RowsIInv, QueryExSet
    PROVE  RowsIInv'
<1> DEFINE e == [rowNum |-> row, RowInfo |-> rowInfo]
<1>1. /\ rowsAt = "read" /\ ~HasNext /\ rowInfo' = NoInfo /\ NextSet
      /\ dataSetList' = Append(dataSetList, e) /\ rowsAt' = IF closed' THEN "list" ELSE "read"
      /\ UNCHANGED <<result, broken, currentDataSetIdx, values, tableData, args, out, verdict,
                     unMarshals>>
  BY DEF QueryExSet, tableVars, decodeVars
<1>2. RowsTypeOK /\ StartInv /\ CursorInv /\ ListInv /\ ScanInv
  BY RowsTypes
<1>3. /\ result \in Results /\ set \in 1..Len(result) /\ row \in 0..Len(Rows) /\ Len(Rows) \in Nat
      /\ Rows = result[set].rows /\ Len(result) \in Nat \ {0}
  BY <1>1, RowsTypes
<1>4. /\ ~closed /\ Len(dataSetList) = set - 1 /\ InfoOf(result, rowInfo, set, row)
      /\ currentDataSetIdx = 0 /\ unMarshals = 0 /\ verdict = "none"
      /\ SetsOf(result, dataSetList, broken)
  BY <1>1, <1>2 DEF ListInv
<1>5. ~broken => row = Len(Rows)
  <2>1. ~broken => ~(row < Len(Rows))
    BY <1>1, <1>4 DEF HasNext
  <2> QED BY <1>3, <2>1
<1>6. SetsOf(result, dataSetList', broken) /\ Len(dataSetList') = set
  <2>1. Listed(dataSetList)
    BY <1>4 DEF SetsOf
  <2> PICK list, list2, r : list = dataSetList /\ list2 = dataSetList' /\ r = result
    OBVIOUS
  <2>2. /\ Listed(list2) /\ Len(list) \in Nat /\ Len(list2) = Len(list) + 1
        /\ list2[Len(list) + 1] = e /\ \A i \in 1..Len(list) : list2[i] = list[i]
    <3>1. Listed(list) /\ list2 = Append(list, e)
      BY <1>1, <2>1
    <3> HIDE DEF e
    <3> QED BY <3>1, ListedAppend
  <2>3. Len(list) = set - 1 /\ Len(list2) = set /\ set \in Nat
    BY <1>3, <1>4, <2>2
  <2>4. \A s \in 1..set : s \in 1..Len(list) \/ s = set
    BY <2>3
  <2>5. /\ list2[set] = e /\ e.rowNum = row /\ e.RowInfo = rowInfo
    BY <2>2, <2>3
  <2>6. \A s \in 1..Len(list) :
            /\ list2[s].rowNum \in 0..Len(r[s].rows)
            /\ (~broken => list2[s].rowNum = Len(r[s].rows))
            /\ InfoOf(r, list2[s].RowInfo, s, list2[s].rowNum)
    BY <1>4, <2>2 DEF SetsOf
  <2>7. /\ list2[set].rowNum \in 0..Len(r[set].rows)
        /\ ~broken => list2[set].rowNum = Len(r[set].rows)
        /\ InfoOf(r, list2[set].RowInfo, set, list2[set].rowNum)
    BY <1>3, <1>4, <1>5, <2>5
  <2>8. Len(list2) <= Len(r)
    BY <1>3, <2>3
  <2> HIDE DEF e
  <2> QED BY <2>2, <2>3, <2>4, <2>6, <2>7, <2>8 DEF SetsOf
<1>7. \/ ~broken /\ set < Len(result) /\ set' = set + 1 /\ row' = 0 /\ closed' = closed
      \/ (broken \/ set = Len(result)) /\ closed' = TRUE /\ set' = set /\ row' = row
  BY <1>1 DEF NextSet
<1>8. RowsTypeOK'
  <2>1. DOMAIN NoInfo = Names /\ \A n \in Names : NoInfo[n] \in Seq(Vals)
    BY InfoStart DEF InfoOf
  <2>2. closed' \in BOOLEAN /\ rowsAt' \in {"list", "read"}
    BY <1>1, <1>2, <1>7 DEF RowsTypeOK
  <2> QED BY <1>1, <1>2, <2>1, <2>2 DEF RowsTypeOK, Vals
<1>9. CursorInv'
  <2>1. CASE ~broken /\ set < Len(result) /\ set' = set + 1 /\ row' = 0
    <3>1. set + 1 \in 1..Len(result)
      BY <1>3, <2>1
    <3>2. Len(result[set + 1].rows) \in Nat
      BY <1>3, <3>1, AnswerTypes
    <3>3. 0 \in 0..Len(result[set + 1].rows)
      BY <3>2
    <3> QED BY <1>1, <1>3, <2>1, <3>1, <3>3 DEF CursorInv, Rows
  <2>2. CASE set' = set /\ row' = row
    BY <1>1, <1>3, <2>2 DEF CursorInv, Rows
  <2> QED BY <1>7, <2>1, <2>2
<1>10. ListInv'
  <2>1. CASE ~broken /\ set < Len(result) /\ set' = set + 1 /\ row' = 0 /\ closed' = closed
    <3>1. rowsAt' = "read" /\ ~closed'
      BY <1>1, <1>4, <2>1
    <3>2. Len(dataSetList') = set' - 1
      BY <1>3, <1>6, <2>1
    <3>3. InfoOf(result', rowInfo', set', row')
      BY <1>1, <2>1, InfoStart
    <3> QED BY <1>1, <1>4, <1>6, <3>1, <3>2, <3>3 DEF ListInv, PanicsOnReuse
  <2>2. CASE (broken \/ set = Len(result)) /\ closed' = TRUE
    <3>1. rowsAt' = "list"
      BY <1>1, <2>2
    <3> QED BY <1>1, <1>4, <1>6, <2>2, <3>1 DEF ListInv, PanicsOnReuse
  <2> QED BY <1>7, <2>1, <2>2
<1>11. StartInv' /\ ScanInv'
  BY <1>1 DEF StartInv, ScanInv
<1> QED BY <1>8, <1>9, <1>10, <1>11 DEF RowsIInv

\* The caller asks for as many structs as there are sets, or for others.
LEMMA CallUnMarshalStep ==
    ASSUME RowsIInv, NEW as \in ArgLists, CallUnMarshal(as)
    PROVE  RowsIInv'
<1>1. /\ rowsAt = "list" /\ unMarshals < MaxCalls /\ unMarshals' = unMarshals + 1
      /\ out' = <<>> /\ args' = as
      /\ \/ Len(as) = Len(dataSetList) /\ rowsAt' = "unmarshal" /\ verdict' = "none"
         \/ rowsAt' = "list" /\ verdict' = "err"
      /\ UNCHANGED <<result, set, row, broken, closed, rowInfo, dataSetList, currentDataSetIdx,
                     values, tableData>>
  BY DEF CallUnMarshal, cursorVars, listVars, tableVars
<1>2. /\ RowsTypeOK /\ StartInv /\ CursorInv /\ ListInv /\ ScanInv
      /\ MaxCalls \in Nat /\ unMarshals \in Nat
  BY RowsTypes
<1>3. RowsTypeOK'
  <2>1. unMarshals' \in 0..MaxCalls
    BY <1>1, <1>2
  <2> QED BY <1>1, <1>2, <2>1 DEF RowsTypeOK
<1>4. StartInv' /\ CursorInv' /\ ScanInv'
  BY <1>1, <1>2 DEF StartInv, CursorInv, Rows, ScanInv
<1>5. /\ SetsOf(result, dataSetList, broken) /\ (~broken => Len(dataSetList) = Len(result))
      /\ unMarshals = 0 => currentDataSetIdx = 0
  BY <1>1, <1>2 DEF ListInv
<1>6. /\ unMarshals' # 0 /\ (unMarshals' = 1 => unMarshals = 0)
  BY <1>1, <1>2
<1>7. Listed(dataSetList) /\ Len(dataSetList) \in Nat
  BY <1>5, ListedLen DEF SetsOf
<1>8. ListInv'
  <2>1. CASE Len(as) = Len(dataSetList) /\ rowsAt' = "unmarshal" /\ verdict' = "none"
    <3>1. Listed(out') /\ Len(out') = 0 /\ 0 <= Len(args') /\ 0 <= Len(dataSetList)
      BY <1>1, <1>7, <2>1, ListedEmpty
    <3>2. FilledOwn'
      <4>1. \A k \in 1..0 : FALSE
        OBVIOUS
      <4> QED BY <1>1, <3>1, <4>1 DEF FilledOwn
    <3>3. unMarshals' = 1 => currentDataSetIdx' = Len(out')
      BY <1>1, <1>5, <1>6, <3>1
    <3> QED BY <1>1, <1>5, <1>6, <2>1, <3>1, <3>2, <3>3 DEF ListInv, PanicsOnReuse
  <2>2. CASE rowsAt' = "list" /\ verdict' = "err"
    BY <1>1, <1>5, <1>6, <2>2 DEF ListInv, PanicsOnReuse
  <2> QED BY <1>1, <2>1, <2>2
<1> QED BY <1>3, <1>4, <1>8 DEF RowsIInv

\* One argument is filled, passed over or refused, or the index is off the list.
LEMMA UnMarshalArgStep ==
    ASSUME RowsIInv, UnMarshalArg
    PROVE  RowsIInv'
<1> DEFINE a == args[Len(out) + 1]
           d == currentDataSetIdx + 1
           ds == dataSetList[d]
           fails == \E i \in RowsFor(a, ds), f \in DOMAIN a.type : FieldErr(ds, i, f, a.type[f])
           other == [from |-> d, rows |-> <<>>]
           filled == [from |-> d, rows |->
                         [i \in RowsFor(a, ds) |-> [f \in DOMAIN a.type |-> FieldValue(ds, i, f)]]]
<1>1. /\ rowsAt = "unmarshal" /\ Len(out) < Len(args)
      /\ UNCHANGED <<result, set, row, broken, closed, rowInfo, dataSetList, values, tableData,
                     args, unMarshals>>
      /\ \/ /\ currentDataSetIdx' = d /\ out' = Append(out, other)
            /\ rowsAt' = rowsAt /\ verdict' = verdict
         \/ /\ d > Len(dataSetList) /\ rowsAt' = "panic" /\ verdict' = "panic"
            /\ currentDataSetIdx' = currentDataSetIdx /\ out' = out
         \/ /\ rowsAt' = "list" /\ verdict' = "err"
            /\ currentDataSetIdx' = currentDataSetIdx /\ out' = out
         \/ /\ d <= Len(dataSetList) /\ ~fails /\ currentDataSetIdx' = d
            /\ out' = Append(out, filled) /\ rowsAt' = rowsAt /\ verdict' = verdict
  BY DEF UnMarshalArg, cursorVars, tableVars
<1>2. /\ RowsTypeOK /\ StartInv /\ CursorInv /\ ListInv /\ ScanInv
      /\ unMarshals \in Nat /\ currentDataSetIdx \in Nat
      /\ result \in Results /\ Len(result) \in Nat
  BY <1>1, RowsTypes
<1>3. /\ SetsOf(result, dataSetList, broken) /\ (~broken => Len(dataSetList) = Len(result))
      /\ unMarshals # 0 /\ args \in ArgLists /\ Len(args) = Len(dataSetList)
      /\ Listed(out) /\ Len(out) <= Len(args)
      /\ unMarshals = 1 => currentDataSetIdx = Len(out) /\ FilledOwn
  BY <1>1, <1>2 DEF ListInv
<1>4. /\ Listed(dataSetList) /\ Len(dataSetList) \in Nat /\ Len(out) \in Nat
  BY <1>3, ListedLen DEF SetsOf
<1>5. Len(out) + 1 \in 1..Len(args) /\ Len(out) + 1 <= Len(dataSetList)
  BY <1>1, <1>3, <1>4
<1>6. DOMAIN a.type \subseteq Names
  BY <1>3, <1>5, RowsAssumption
<1>7. StartInv' /\ CursorInv' /\ ScanInv'
  BY <1>1, <1>2 DEF StartInv, CursorInv, Rows, ScanInv
<1>8. RowsTypeOK'
  <2>1. /\ currentDataSetIdx' \in Nat /\ rowsAt' \in {"unmarshal", "panic", "list"}
        /\ verdict' \in {"panic", "err", verdict}
    BY <1>1, <1>2
  <2> QED BY <1>1, <1>2, <2>1 DEF RowsTypeOK
<1>9. ASSUME unMarshals = 1, d <= Len(dataSetList), ~fails
      PROVE  ArgOwn(result, dataSetList[d], d, filled)
  <2> PICK r, e, k, I, t, o : /\ r = result /\ e = ds /\ k = d /\ I = RowsFor(a, ds) /\ t = a.type
                              /\ o = filled
    OBVIOUS
  <2>1. k \in 1..Len(dataSetList) /\ k \in 1..Len(r) /\ r \in Results
    <3>1. Len(dataSetList) <= Len(result)
      BY <1>3 DEF SetsOf
    <3> QED BY <1>2, <1>4, <1>9, <3>1
  <2>2. e.rowNum \in 0..Len(r[k].rows) /\ InfoOf(r, e.RowInfo, k, e.rowNum)
    BY <1>3, <2>1 DEF SetsOf
  <2>3. I \in SUBSET (Nat \ {0})
    <3>1. I = 1..1 \/ I = 1..e.rowNum
      BY DEF RowsFor
    <3>2. e.rowNum \in Nat
      <4>1. Len(r[k].rows) \in Nat
        BY <2>1, AnswerTypes
      <4> QED BY <2>2, <4>1
    <3> QED BY <3>1, <3>2
  <2>4. DOMAIN t \subseteq Names
    BY <1>6
  <2>5. \A i \in I, f \in DOMAIN t : ~FieldErr(e, i, f, t[f])
    BY <1>9
  <2>6. o = [from |-> k, rows |-> [i \in I |-> [f \in DOMAIN t |-> FieldValue(e, i, f)]]]
    OBVIOUS
  <2>7. ArgOwn(r, e, k, o)
    BY <2>1, <2>2, <2>3, <2>4, <2>5, <2>6, ArgFilled
  <2> QED BY <2>7
<1>10. ArgOwn(result, dataSetList[d], d, other)
  <2>1. other.from = d /\ other.rows = <<>> /\ DOMAIN other.rows = {}
    OBVIOUS
  <2> HIDE DEF other, d
  <2> QED BY <2>1 DEF ArgOwn
<1> HIDE DEF a, ds, fails, other, filled
\* The argument after the ones that are filled.
<1>11. ASSUME NEW x, out' = Append(out, x), currentDataSetIdx' = d, rowsAt' = rowsAt,
              unMarshals = 1 => ArgOwn(result, dataSetList[d], d, x)
       PROVE  ListInv'
  <2>1. /\ Listed(out') /\ Len(out') = Len(out) + 1 /\ out'[Len(out) + 1] = x
        /\ \A i \in 1..Len(out) : out'[i] = out[i]
    BY <1>3, <1>11, ListedAppend
  <2>2. Len(out') <= Len(args) /\ Len(out') <= Len(dataSetList)
    BY <1>3, <1>4, <1>5, <2>1
  <2>3. unMarshals = 1 => currentDataSetIdx' = Len(out')
    BY <1>3, <1>11, <2>1
  <2>4. ASSUME unMarshals = 1 PROVE FilledOwn'
    <3>1. d = Len(out) + 1 /\ FilledOwn
      BY <1>3, <2>4
    <3>2. \A k \in 1..Len(out') : k \in 1..Len(out) \/ k = Len(out) + 1
      BY <1>4, <2>1
    <3>3. \A k \in 1..Len(out') : ArgOwn(result, dataSetList[k], k, out'[k])
      <4> SUFFICES ASSUME NEW k \in 1..Len(out') PROVE ArgOwn(result, dataSetList[k], k, out'[k])
        OBVIOUS
      <4>1. CASE k \in 1..Len(out)
        BY <2>1, <3>1, <4>1 DEF FilledOwn
      <4>2. CASE k = Len(out) + 1
        BY <1>11, <2>1, <2>4, <3>1, <4>2
      <4> QED BY <3>2, <4>1, <4>2
    <3> QED BY <1>1, <2>1, <2>2, <3>3 DEF FilledOwn
  <2> QED BY <1>1, <1>3, <1>11, <2>1, <2>2, <2>3, <2>4 DEF ListInv, PanicsOnReuse
<1>12. ListInv'
  <2>1. CASE /\ currentDataSetIdx' = d /\ out' = Append(out, other)
             /\ rowsAt' = rowsAt /\ verdict' = verdict
    BY <1>10, <1>11, <2>1
  <2>2. CASE /\ d > Len(dataSetList) /\ rowsAt' = "panic" /\ verdict' = "panic"
             /\ currentDataSetIdx' = currentDataSetIdx /\ out' = out
    <3>1. unMarshals > 1
      <4>1. unMarshals # 1
        BY <1>3, <1>5, <2>2
      <4> QED BY <1>2, <1>3, <4>1
    <3>2. currentDataSetIdx >= Len(dataSetList)
      BY <1>2, <1>4, <2>2
    <3> QED BY <1>1, <1>3, <2>2, <3>1, <3>2 DEF ListInv, PanicsOnReuse
  <2>3. CASE rowsAt' = "list" /\ verdict' = "err"
    BY <1>1, <1>3, <2>3 DEF ListInv, PanicsOnReuse
  <2>4. CASE /\ d <= Len(dataSetList) /\ ~fails /\ currentDataSetIdx' = d
             /\ out' = Append(out, filled) /\ rowsAt' = rowsAt /\ verdict' = verdict
    BY <1>9, <1>11, <2>4
  <2> QED BY <1>1, <2>1, <2>2, <2>3, <2>4
<1> QED BY <1>7, <1>8, <1>12 DEF RowsIInv

\* Every argument is filled or passed over.
LEMMA UnMarshalReturnsStep ==
    ASSUME RowsIInv, UnMarshalReturns
    PROVE  RowsIInv'
<1>1. /\ rowsAt = "unmarshal" /\ rowsAt' = "list" /\ verdict' = "ok"
      /\ UNCHANGED <<result, set, row, broken, closed, rowInfo, dataSetList, currentDataSetIdx,
                     values, tableData, args, out, unMarshals>>
  BY DEF UnMarshalReturns, cursorVars, listVars, tableVars
<1>2. RowsTypeOK /\ StartInv /\ CursorInv /\ ListInv /\ ScanInv
  BY RowsTypes
<1>3. RowsTypeOK' /\ StartInv' /\ CursorInv' /\ ScanInv'
  BY <1>1, <1>2 DEF RowsTypeOK, StartInv, CursorInv, Rows, ScanInv
<1>4. ListInv'
  <2>1. unMarshals = 1 => FilledOwn
    BY <1>1, <1>2 DEF ListInv
  <2>2. FilledOwn => FilledOwn'
    BY <1>1 DEF FilledOwn
  <2> QED BY <1>1, <1>2, <2>1, <2>2 DEF ListInv, PanicsOnReuse
<1> QED BY <1>3, <1>4 DEF RowsIInv

\* The caller asks for the rows of a result.
LEMMA CallResultUnMarshalStep ==
    ASSUME RowsIInv, NEW a, CallResultUnMarshal(a)
    PROVE  RowsIInv'
<1>1. /\ rowsAt = "result" /\ unMarshals < MaxCalls /\ unMarshals' = unMarshals + 1
      /\ out' = <<>>
      /\ \/ verdict' = "err" /\ UNCHANGED <<rowsAt, values, tableData>>
         \/ /\ ~closed /\ rowsAt' = "scan" /\ verdict' = "none"
            /\ values' = [c \in DOMAIN Cols |-> Zero] /\ tableData' = <<>>
      /\ UNCHANGED <<result, set, row, broken, closed, rowInfo, dataSetList, currentDataSetIdx>>
  BY DEF CallResultUnMarshal, cursorVars, listVars, tableVars
<1>2. /\ RowsTypeOK /\ StartInv /\ CursorInv /\ ListInv /\ ScanInv
      /\ MaxCalls \in Nat /\ unMarshals \in Nat /\ Cols = ColsIn(result, set)
  BY <1>1, RowsTypes
<1>3. RowsTypeOK'
  <2>1. unMarshals' \in 0..MaxCalls
    BY <1>1, <1>2
  <2> QED BY <1>1, <1>2, <2>1 DEF RowsTypeOK
<1>4. StartInv' /\ CursorInv' /\ ListInv'
  BY <1>1, <1>2 DEF StartInv, CursorInv, Rows, ListInv, PanicsOnReuse
<1>5. row = 0 \/ ~HasNext
  BY <1>1, <1>2 DEF ScanInv
<1>6. ScanInv'
  <2>1. CASE verdict' = "err" /\ UNCHANGED <<rowsAt, values, tableData>>
    BY <1>1, <1>5, <2>1 DEF ScanInv, HasNext, Rows
  <2>2. CASE /\ ~closed /\ rowsAt' = "scan" /\ verdict' = "none"
             /\ values' = [c \in DOMAIN Cols |-> Zero] /\ tableData' = <<>>
    <3>1. HasNext' <=> HasNext
      BY <1>1 DEF HasNext, Rows
    <3>2. Listed(<<>>) /\ Len(<<>>) = 0 /\ DOMAIN <<>> = {}
      BY ListedEmpty
    <3>3. ValuesOwn(result, set, row, values')
      BY <1>2, <2>2 DEF ValuesOwn
    <3>4. TableOwn(result, set, <<>>)
      BY <3>2 DEF TableOwn
    <3>5. Listed(tableData') /\ TableOwn(result', set', tableData')
      BY <1>1, <2>2, <3>2, <3>4
    <3>6. Len(tableData') = row' \/ (tableData' = <<>> /\ ~HasNext')
      BY <1>1, <1>5, <2>2, <3>1, <3>2
    <3> QED BY <1>1, <2>2, <3>3, <3>5, <3>6 DEF ScanInv
  <2> QED BY <1>1, <2>1, <2>2
<1> QED BY <1>3, <1>4, <1>6 DEF RowsIInv

\* One row is scanned and put in the table under the names of its columns.
LEMMA ScanRowStep ==
    ASSUME RowsIInv, ScanRow
    PROVE  RowsIInv'
<1> DEFINE w == Rows[row + 1]
           v == [c \in DOMAIN Cols |-> IF \A d \in 1..c : w[d] # Null THEN w[c] ELSE values[c]]
           Last(n) == CHOOSE c \in DOMAIN Cols :
                          /\ Lower[Cols[c]] = n
                          /\ \A d \in DOMAIN Cols : Lower[Cols[d]] = n => d <= c
           t == [n \in {Lower[Cols[c]] : c \in DOMAIN Cols} |-> v[Last(n)]]
<1>1. /\ rowsAt = "scan" /\ HasNext /\ row' = row + 1 /\ values' = v
      /\ tableData' = Append(tableData, t)
      /\ UNCHANGED <<rowsAt, result, set, broken, closed, rowInfo, dataSetList, currentDataSetIdx,
                     args, out, verdict, unMarshals>>
  BY DEF ScanRow, listVars, decodeVars
<1>2. /\ RowsTypeOK /\ StartInv /\ CursorInv /\ ListInv /\ ScanInv
      /\ result \in Results /\ set \in 1..Len(result) /\ row \in Nat /\ Len(Rows) \in Nat
      /\ Rows = result[set].rows /\ Cols = ColsIn(result, set)
  BY <1>1, RowsTypes
<1>3. row < Len(Rows)
  BY <1>1 DEF HasNext
<1>4. /\ ~closed /\ Listed(tableData) /\ Len(tableData) = row
      /\ ValuesOwn(result, set, row, values) /\ TableOwn(result, set, tableData)
  BY <1>1, <1>2 DEF ScanInv
<1>5. /\ ValuesOwn(result, set, row + 1, v)
      /\ \A c \in DOMAIN ColsIn(result, set) :
             RowOwn(result, set, row + 1, NameIn(result, set, c), v[c])
  <2> PICK r, s, k, vs, ww, v2 :
        r = result /\ s = set /\ k = row /\ vs = values /\ ww = w /\ v2 = v
    OBVIOUS
  <2>1. /\ r \in Results /\ s \in 1..Len(r) /\ k \in Nat /\ k < Len(r[s].rows)
        /\ ValuesOwn(r, s, k, vs)
    BY <1>2, <1>3, <1>4
  <2>2. ww = RowIn(r, s, k + 1)
    BY <1>2 DEF RowIn
  <2>3. v2 = [c \in DOMAIN ColsIn(r, s) |-> IF \A d \in 1..c : ww[d] # Null THEN ww[c] ELSE vs[c]]
    BY <1>2
  <2> HIDE DEF v, w
  <2>4. /\ ValuesOwn(r, s, k + 1, v2)
        /\ \A c \in DOMAIN ColsIn(r, s) : RowOwn(r, s, k + 1, NameIn(r, s, c), v2[c])
    BY <2>1, <2>2, <2>3, Scanned
  <2> QED BY <2>4
<1>6. /\ Len(Cols) \in Nat /\ DOMAIN Cols = 1..Len(Cols)
  BY <1>2, AnswerTypes
<1>7. ASSUME NEW n \in {Lower[Cols[c]] : c \in DOMAIN Cols}
      PROVE  Last(n) \in DOMAIN Cols /\ NameIn(result, set, Last(n)) = n
  <2> DEFINE C == {c \in DOMAIN Cols : Lower[Cols[c]] = n}
  <2>1. C \in SUBSET (1..Len(Cols)) /\ C # {}
    BY <1>6
  <2>2. \E c \in C : \A d \in C : d <= c
    <3> HIDE DEF C
    <3> QED BY <1>6, <2>1, HasGreatest
  <2>3. \E c \in DOMAIN Cols : /\ Lower[Cols[c]] = n
                               /\ \A d \in DOMAIN Cols : Lower[Cols[d]] = n => d <= c
    BY <2>2
  <2>4. Last(n) \in DOMAIN Cols /\ Lower[Cols[Last(n)]] = n
    BY <2>3
  <2> QED BY <2>4, <1>2 DEF NameIn, ColsIn
<1>8. \A f \in DOMAIN t : RowOwn(result, set, row + 1, f, t[f])
  <2> SUFFICES ASSUME NEW f \in DOMAIN t PROVE RowOwn(result, set, row + 1, f, t[f])
    OBVIOUS
  <2>1. f \in {Lower[Cols[c]] : c \in DOMAIN Cols} /\ t[f] = v[Last(f)]
    OBVIOUS
  <2>2. Last(f) \in DOMAIN Cols /\ NameIn(result, set, Last(f)) = f
    BY <1>7, <2>1
  <2> HIDE DEF v, t, Last
  <2> QED BY <1>2, <1>5, <2>1, <2>2
<1> HIDE DEF v, t, w, Last
<1>9. /\ Listed(tableData') /\ Len(tableData') = row + 1 /\ tableData'[row + 1] = t
      /\ DOMAIN tableData' = 1..(row + 1) /\ \A i \in 1..row : tableData'[i] = tableData[i]
  BY <1>1, <1>4, ListedAppend
<1>10. TableOwn(result, set, tableData')
  <2>1. DOMAIN tableData = 1..row
    BY <1>4, ListedLen
  <2>2. \A i \in 1..(row + 1) : i \in 1..row \/ i = row + 1
    BY <1>2
  <2>3. \A i \in 1..row : \A f \in DOMAIN tableData'[i] :
            RowOwn(result, set, i, f, tableData'[i][f])
    BY <1>4, <1>9, <2>1 DEF TableOwn
  <2>4. \A f \in DOMAIN tableData'[row + 1] :
            RowOwn(result, set, row + 1, f, tableData'[row + 1][f])
    BY <1>8, <1>9
  <2> QED BY <1>9, <2>2, <2>3, <2>4 DEF TableOwn
<1>11. RowsTypeOK'
  BY <1>1, <1>2 DEF RowsTypeOK
<1>12. StartInv' /\ CursorInv' /\ ListInv'
  <2>1. row + 1 \in 0..Len(Rows)
    BY <1>2, <1>3
  <2> QED BY <1>1, <1>2, <2>1 DEF StartInv, CursorInv, Rows, ListInv, PanicsOnReuse
<1>13. ScanInv'
  BY <1>1, <1>4, <1>5, <1>9, <1>10 DEF ScanInv
<1> QED BY <1>11, <1>12, <1>13 DEF RowsIInv

\* The table becomes the caller's struct or slice.
LEMMA ScanEndStep ==
    ASSUME RowsIInv, ScanEnd
    PROVE  RowsIInv'
<1> DEFINE a == args[1]
           o == [from |-> set, rows |-> [i \in DOMAIN tableData |->
                    [f \in DOMAIN a.type |->
                        IF f \in DOMAIN tableData[i] THEN tableData[i][f] ELSE Zero]]]
<1>1. /\ rowsAt = "scan" /\ ~HasNext /\ rowsAt' = "result"
      /\ closed' = (closed \/ broken \/ set = Len(result))
      /\ \/ verdict' = "err" /\ UNCHANGED out
         \/ verdict' = "ok" /\ out' = <<o>>
      /\ UNCHANGED <<result, set, row, broken, rowInfo, dataSetList, currentDataSetIdx, values,
                     tableData, args, unMarshals>>
  BY DEF ScanEnd, listVars, tableVars
<1>2. RowsTypeOK /\ StartInv /\ CursorInv /\ ListInv /\ ScanInv
  BY RowsTypes
<1>3. TableOwn(result, set, tableData)
  BY <1>1, <1>2 DEF ScanInv
<1>4. o.from = set /\ TableOwn(result, set, o.rows)
  <2>1. /\ DOMAIN o.rows = DOMAIN tableData
        /\ \A i \in DOMAIN tableData :
               /\ DOMAIN o.rows[i] = DOMAIN a.type
               /\ \A f \in DOMAIN a.type :
                      o.rows[i][f] = IF f \in DOMAIN tableData[i] THEN tableData[i][f] ELSE Zero
    OBVIOUS
  <2>2. o.from = set
    OBVIOUS
  <2> HIDE DEF o, a
  <2>3. ASSUME NEW i \in DOMAIN o.rows, NEW f \in DOMAIN o.rows[i]
        PROVE  RowOwn(result, set, i, f, o.rows[i][f])
    <3>1. i \in DOMAIN tableData /\ f \in DOMAIN a.type
      BY <2>1
    <3>2. CASE f \in DOMAIN tableData[i]
      <4>1. o.rows[i][f] = tableData[i][f]
        BY <2>1, <3>1, <3>2
      <4> QED BY <1>3, <3>1, <3>2, <4>1 DEF TableOwn
    <3>3. CASE f \notin DOMAIN tableData[i]
      <4>1. o.rows[i][f] = Zero
        BY <2>1, <3>1, <3>3
      <4> QED BY <4>1 DEF RowOwn
    <3> QED BY <3>2, <3>3
  <2> QED BY <2>2, <2>3 DEF TableOwn
<1> HIDE DEF o, a
<1>5. RowsTypeOK'
  <2>1. closed' \in BOOLEAN
    BY <1>1
  <2> QED BY <1>1, <1>2, <2>1 DEF RowsTypeOK
<1>6. StartInv' /\ CursorInv' /\ ListInv'
  BY <1>1, <1>2 DEF StartInv, CursorInv, Rows, ListInv, PanicsOnReuse
<1>7. ~HasNext'
  BY <1>1 DEF HasNext, Rows
<1>8. verdict' = "ok" => TableOwn(result', out'[1].from, out'[1].rows)
  <2>1. verdict' = "ok" => out' = <<o>>
    BY <1>1
  <2>2. <<o>>[1] = o
    OBVIOUS
  <2> QED BY <1>1, <1>4, <2>1, <2>2
<1>9. ScanInv'
  BY <1>1, <1>7, <1>8 DEF ScanInv
<1> QED BY <1>5, <1>6, <1>9 DEF RowsIInv

\* The cursor moves to the next set.
LEMMA NextResultStep ==
    ASSUME RowsIInv, NextResult
    PROVE  RowsIInv'
<1>1. /\ rowsAt = "result" /\ NextSet /\ out' = <<>>
      /\ UNCHANGED <<rowsAt, result, broken, rowInfo, dataSetList, currentDataSetIdx, values,
                     tableData, args, verdict, unMarshals>>
  BY DEF NextResult, listVars, tableVars
<1>2. /\ RowsTypeOK /\ StartInv /\ CursorInv /\ ListInv /\ ScanInv
      /\ result \in Results /\ set \in 1..Len(result) /\ Len(result) \in Nat
  BY <1>1, RowsTypes
<1>3. \/ ~broken /\ set < Len(result) /\ set' = set + 1 /\ row' = 0 /\ closed' = closed
      \/ (broken \/ set = Len(result)) /\ closed' = TRUE /\ set' = set /\ row' = row
  BY <1>1 DEF NextSet
<1>4. RowsTypeOK'
  <2>1. closed' \in BOOLEAN
    BY <1>2, <1>3 DEF RowsTypeOK
  <2> QED BY <1>1, <1>2, <2>1 DEF RowsTypeOK
<1>5. CursorInv'
  <2>1. CASE set < Len(result) /\ set' = set + 1 /\ row' = 0
    <3>1. set + 1 \in 1..Len(result)
      BY <1>2, <2>1
    <3>2. Len(result[set + 1].rows) \in Nat
      BY <1>2, <3>1, AnswerTypes
    <3>3. 0 \in 0..Len(result[set + 1].rows)
      BY <3>2
    <3> QED BY <1>1, <1>2, <2>1, <3>1, <3>3 DEF CursorInv, Rows
  <2>2. CASE set' = set /\ row' = row
    BY <1>1, <1>2, <2>2 DEF CursorInv, Rows
  <2> QED BY <1>3, <2>1, <2>2
<1>6. StartInv' /\ ListInv'
  BY <1>1, <1>2 DEF StartInv, ListInv, PanicsOnReuse
<1>7. row' = 0 \/ ~HasNext'
  BY <1>3 DEF HasNext
<1>8. ScanInv'
  BY <1>1, <1>7 DEF ScanInv
<1> QED BY <1>4, <1>5, <1>6, <1>8 DEF RowsIInv

\* The rows are closed.
LEMMA CloseResultStep ==
    ASSUME RowsIInv, CloseResult
    PROVE  RowsIInv'
<1>1. /\ rowsAt = "result" /\ closed' = TRUE
      /\ UNCHANGED <<rowsAt, result, set, row, broken, rowInfo, dataSetList, currentDataSetIdx,
                     values, tableData, args, out, verdict, unMarshals>>
  BY DEF CloseResult, listVars, tableVars, decodeVars
<1>2. RowsTypeOK /\ StartInv /\ CursorInv /\ ListInv /\ ScanInv
  BY RowsTypes
<1>3. RowsTypeOK' /\ StartInv' /\ CursorInv' /\ ListInv'
  BY <1>1, <1>2 DEF RowsTypeOK, StartInv, CursorInv, Rows, ListInv, PanicsOnReuse
<1>4. ScanInv'
  BY <1>1, <1>2 DEF ScanInv, HasNext
<1> QED BY <1>3, <1>4 DEF RowsIInv

\* Every step keeps the invariant.
LEMMA RowsNextInv == RowsIInv /\ [RowsNext]_rowsVars => RowsIInv'
<1> SUFFICES ASSUME RowsIInv, [RowsNext]_rowsVars PROVE RowsIInv'
  OBVIOUS
<1>1. ASSUME NEW r \in Results, NEW at \in {"read", "result"}, OpenRows(r, at)
      PROVE  RowsIInv'
  BY <1>1, OpenRowsStep
<1>2. CASE RowsBreak
  BY <1>2, RowsBreakStep
<1>3. CASE QueryExRow
  BY <1>3, QueryExRowStep
<1>4. CASE QueryExSet
  BY <1>4, QueryExSetStep
<1>5. ASSUME NEW as \in ArgLists, CallUnMarshal(as)
      PROVE  RowsIInv'
  BY <1>5, CallUnMarshalStep
<1>6. ASSUME NEW as \in ArgLists, CallResultUnMarshal(as[1])
      PROVE  RowsIInv'
  BY <1>6, CallResultUnMarshalStep
<1>7. CASE UnMarshalArg
  BY <1>7, UnMarshalArgStep
<1>8. CASE UnMarshalReturns
  BY <1>8, UnMarshalReturnsStep
<1>9. CASE ScanRow
  BY <1>9, ScanRowStep
<1>10. CASE ScanEnd
  BY <1>10, ScanEndStep
<1>11. CASE NextResult
  BY <1>11, NextResultStep
<1>12. CASE CloseResult
  BY <1>12, CloseResultStep
<1>13. CASE UNCHANGED rowsVars
  <2>1. UNCHANGED <<rowsAt, result, set, row, broken, closed, rowInfo, dataSetList,
                    currentDataSetIdx, values, tableData, args, out, verdict, unMarshals>>
    BY <1>13 DEF rowsVars, cursorVars, listVars, tableVars, decodeVars
  <2>2. RowsTypeOK /\ StartInv /\ CursorInv /\ ListInv /\ ScanInv
    BY RowsTypes
  <2>3. RowsTypeOK' /\ StartInv' /\ CursorInv'
    BY <2>1, <2>2 DEF RowsTypeOK, StartInv, CursorInv, Rows
  <2>4. FilledOwn => FilledOwn'
    BY <2>1 DEF FilledOwn
  <2>5. ListInv'
    BY <2>1, <2>2, <2>4 DEF ListInv, PanicsOnReuse
  <2>6. ScanInv'
    BY <2>1, <2>2 DEF ScanInv, HasNext, Rows
  <2> QED BY <2>3, <2>5, <2>6 DEF RowsIInv
<1> QED BY <1>1, <1>2, <1>3, <1>4, <1>5, <1>6, <1>7, <1>8, <1>9, <1>10, <1>11, <1>12, <1>13
        DEF RowsNext

\* The invariant says what RowsInv says.
LEMMA RowsHold == RowsIInv => RowsInv
<1> SUFFICES ASSUME RowsIInv PROVE RowsInv
  OBVIOUS
<1>1. /\ RowsTypeOK /\ StartInv /\ CursorInv /\ ListInv /\ ScanInv
      /\ rowsAt # "none" => result \in Results
  BY RowsTypes
<1>2. ListIsBeginning
  <2> SUFFICES ASSUME rowsAt \in {"list", "unmarshal"} PROVE ListIsBeginning
    BY DEF ListIsBeginning
  <2>1. SetsOf(result, dataSetList, broken) /\ (~broken => Len(dataSetList) = Len(result))
    BY <1>1 DEF ListInv
  <2>2. DOMAIN dataSetList = 1..Len(dataSetList)
    BY <2>1, ListedLen DEF SetsOf
  <2>3. ASSUME NEW s \in DOMAIN dataSetList
        PROVE  /\ dataSetList[s].rowNum <= Len(result[s].rows)
               /\ ~broken => dataSetList[s].rowNum = Len(result[s].rows)
    BY <2>1, <2>2 DEF SetsOf
  <2>4. Len(dataSetList) <= Len(result)
    BY <2>1 DEF SetsOf
  <2> QED BY <2>1, <2>3, <2>4 DEF ListIsBeginning
<1>3. ListRowsAreOwn
  <2> SUFFICES ASSUME rowsAt = "list", verdict = "ok", unMarshals = 1 PROVE ListRowsAreOwn
    BY DEF ListRowsAreOwn
  <2>1. FilledOwn
    BY <1>1 DEF ListInv
  <2>2. DOMAIN out = 1..Len(out)
    BY <2>1, ListedLen DEF FilledOwn
  <2>3. \A k \in DOMAIN out : ArgOwn(result, dataSetList[k], k, out[k])
    BY <2>1, <2>2 DEF FilledOwn
  <2>4. \A k \in DOMAIN out :
            /\ out[k].from = k
            /\ Distinct(k) => \A i \in DOMAIN out[k].rows : \A f \in DOMAIN out[k].rows[i] :
                   LET v == IF i <= dataSetList[k].rowNum THEN Sent(k, i, f) \ {Null} ELSE {}
                   IN  IF v = {} THEN out[k].rows[i][f] = Zero ELSE out[k].rows[i][f] \in v
    BY <2>3, SameNames DEF ArgOwn, OwnVals
  <2> QED BY <2>4 DEF ListRowsAreOwn
<1>4. ResultRowsAreOwn
  <2> SUFFICES ASSUME rowsAt = "result", verdict = "ok", out # <<>> PROVE ResultRowsAreOwn
    BY DEF ResultRowsAreOwn
  <2>1. TableOwn(result, out[1].from, out[1].rows)
    BY <1>1 DEF ScanInv
  <2> DEFINE s == out[1].from
  <2>2. ASSUME NEW i \in DOMAIN out[1].rows, NEW f \in DOMAIN out[1].rows[i],
               NEW v, v = out[1].rows[i][f]
        PROVE  \/ v = Zero
               \/ v \in Sent(s, i, f)
               \/ /\ \E c \in DOMAIN result[s].cols : result[s].rows[i][c] = Null
                  /\ \E j \in 1..i - 1 : v \in Sent(s, j, f)
    <3>1. RowOwn(result, s, i, f, v)
      BY <2>1, <2>2 DEF TableOwn
    <3> HIDE DEF s
    <3> QED BY <3>1, SameNames DEF RowOwn, ColsIn, RowIn
  <2> QED BY <2>2 DEF ResultRowsAreOwn
<1>5. PanicsOnReuse
  BY <1>1 DEF ListInv
<1> QED BY <1>1, <1>2, <1>3, <1>4, <1>5 DEF RowsInv

-----------------------------------------------------------------------------
(***************************************************************************)
(* The structs hold what the statement returned (QueryEx, Query and the    *)
(* two UnMarshal): a list's sets are the answer's first, each with the     *)
(* rows read of it; without a break and used once, each argument gets the  *)
(* values of its own set and row; a value of a DBResult is its row's, or   *)
(* an earlier row's under a NULL; and the only panic is that of a list     *)
(* used twice.                                                             *)
(***************************************************************************)
THEOREM RowsSafe == RowsSpec => []RowsInv
BY RowsInitInv, RowsNextInv, RowsHold, PTL DEF RowsSpec

=============================================================================
