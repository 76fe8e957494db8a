--------------------------- MODULE ServiceRpcProofs ---------------------------
(***************************************************************************)
(* Safety of the calls between the services of one node, for any services, *)
(* numbers of goroutines, channel capacities and call graphs.              *)
(***************************************************************************)
EXTENDS ServiceRpc, ProofLemmas

(***************************************************************************)
(* The inductive invariant, in layers.  First the types, and what a        *)
(* goroutine can be about.                                                 *)
(***************************************************************************)
CallRec == [by : Worker, from : Service, to : Service, kind : Kinds, fate : Fates,
            muti : BOOLEAN]
WorkRec == [at : {"select", "handle", "run", "push", "wait", "stopped", "none"},
            req : Seqs \cup {None}, call : Seqs \cup {None}]

VarsInv ==
    /\ calls \in Seq(CallRec) /\ Len(calls) <= MaxAsync
    /\ w \in [Worker -> WorkRec]
    /\ callRequest \in [Service -> Seq(Seqs)] /\ callRespone \in [Service -> Seq(Seqs)]
    /\ \A s \in Service : Len(callRequest[s]) <= QueueLen /\ Len(callRespone[s]) <= QueueLen
    /\ done \in [Seqs -> {0, 1}] /\ nilReply \subseteq Seqs
    /\ ran \in [Seqs -> Nat] /\ cbRan \in [Seqs -> Nat]
    /\ handled \subseteq Seqs /\ returned \subseteq Seqs
    /\ gorouterNum \in [Service -> Nat] /\ released \subseteq Service

BoolInv == closeSig \in BOOLEAN /\ crashed \in BOOLEAN

\* What goroutine g can be when its record is r and n calls were made.
WorkOK(g, r, n) ==
    /\ r.req \in 0..n /\ r.call \in 0..n
    /\ r.at \in {"select", "stopped", "none"} => r.req = None
    /\ r.at = "handle" => r.req # None
    /\ r.at \in {"push", "wait"} => r.call # None
    /\ g \in Loop => r.at # "none"
    /\ g \notin Loop => r.at \notin {"select", "stopped"} /\ (r.at # "none" => r.req = g[2])

\* The request it handles is one to its service, or the one it was started for.
ReqOK(g, q) ==
    /\ g \in Loop => calls[q].to = g[1] /\ ~calls[q].muti
    /\ g \notin Loop => calls[q].muti

WorkInv ==
    /\ \A g \in Worker : WorkOK(g, w[g], Len(calls))
    /\ \A g \in Worker, q \in Seqs : w[g].req = q => ReqOK(g, q)

\* A mutiCoroutine request has a goroutine to handle it.
MutiInv == \A q \in 1..Len(calls) : calls[q].muti => q <= MaxCalls

\* What lies in the channels of s belongs there.
ChanInv ==
    \A s \in Service, q \in Seqs :
        /\ On(callRequest[s], q) => q \in 1..Len(calls) /\ calls[q].to = s /\ ~calls[q].muti
        /\ On(callRespone[s], q) => q \in 1..Len(calls) /\ calls[q].from = s

BaseInv == VarsInv /\ BoolInv /\ WorkInv /\ MutiInv /\ ChanInv

(***************************************************************************)
(* A request is at one place at a time: with the goroutine that pushes it, *)
(* once in a channel, with the goroutine that handles it.                  *)
(***************************************************************************)
PushInv ==
    \A g \in Worker : w[g].at = "push" =>
        /\ \A h \in Worker : w[h].req # w[g].call
        /\ \A h \in Worker : w[h].at = "push" /\ w[h].call = w[g].call => h = g
        /\ \A s \in Service : ~On(callRequest[s], w[g].call)

QueuedInv ==
    \A s \in Service :
        /\ Once(callRequest[s])
        /\ \A h \in Worker : w[h].req # None => ~On(callRequest[s], w[h].req)

HeldInv == \A g, h \in Worker : w[g].req # None /\ w[g].req = w[h].req => g = h

PlaceInv == PushInv /\ QueuedInv /\ HeldInv

(***************************************************************************)
(* So its method runs once, on top of the run that a service's call to     *)
(* itself starts with, and it is answered once, or twice if it has no      *)
(* arguments; an answer lies in the response channel or has been given to  *)
(* the callback.                                                           *)
(***************************************************************************)
SelfRun(q) == IF calls[q].from = calls[q].to /\ calls[q].fate # "nilArg" THEN 1 ELSE 0
Twice(q) == IF calls[q].fate = "nilArg" THEN 1 ELSE 0
Answers(q) == Occ(callRespone[calls[q].from], q) + cbRan[q]

Fresh(q) == ran[q] <= SelfRun(q) /\ Answers(q) <= SelfRun(q)

FreshInv ==
    /\ \A g \in Worker, q \in Seqs :
           (w[g].at = "push" /\ w[g].call = q) \/ (w[g].at = "handle" /\ w[g].req = q) => Fresh(q)
    /\ \A s \in Service, q \in Seqs : On(callRequest[s], q) => Fresh(q)

OnceInv ==
    /\ \A q \in 1..Len(calls) :
           ran[q] <= SelfRun(q) + 1 /\ Answers(q) <= SelfRun(q) + 1 + Twice(q)
    /\ \A g \in Worker, q \in Seqs :
           w[g].req = q /\ w[g].at # "handle" => Answers(q) <= SelfRun(q) + Twice(q)

\* Nothing has happened to a call that was not made.
LaterInv ==
    \A q \in Seqs : q > Len(calls) =>
        ran[q] = 0 /\ cbRan[q] = 0 /\ done[q] = 0 /\ q \notin handled /\ q \notin returned

(***************************************************************************)
(* gorouterNum counts the goroutines left in the loop of a service.        *)
(***************************************************************************)
Left(s) == {i \in 1..GoRouterNum[s] : w[<<s, i>>].at # "stopped"}

StopInv ==
    \A s \in Service :
        gorouterNum[s] = Cardinality(Left(s)) /\ (s \in released => gorouterNum[s] = 0)

(***************************************************************************)
(* The requests of one goroutine to a service with one goroutine: in the   *)
(* channel in the order they were made, and handled in that order.         *)
(***************************************************************************)
Server(q) == <<calls[q].to, 1>>
Taken(q) == w[Server(q)].req = q \/ q \in handled

LastInv ==
    \A g \in Worker : w[g].at = "push" =>
        calls[w[g].call].by = g /\ \A q \in 1..Len(calls) : calls[q].by = g => q <= w[g].call

PlacedInv ==
    \A q \in 1..Len(calls) : InTurn(q) =>
        \/ w[calls[q].by].at = "push" /\ w[calls[q].by].call = q
        \/ On(callRequest[calls[q].to], q)
        \/ Taken(q)

TurnInv ==
    \A p, q \in 1..Len(calls) :
        /\ p < q /\ calls[p].by = calls[q].by /\ calls[p].to = calls[q].to
        /\ InTurn(p) /\ InTurn(q) /\ Taken(q)
        => p \in handled

ReturnInv ==
    \A q \in 1..Len(calls) : InTurn(q) /\ (q \in returned \/ done[q] = 1) => Taken(q)

OrderInv ==
    /\ LastInv /\ PlacedInv /\ TurnInv /\ ReturnInv
    /\ \A s \in Service : InOrder(calls, callRequest[s])

IInv == BaseInv /\ PlaceInv /\ FreshInv /\ OnceInv /\ LaterInv /\ StopInv /\ OrderInv

-----------------------------------------------------------------------------
\* The goroutines of the loops and those of mutiCoroutine requests.
LEMMA WorkerFacts ==
    /\ \A s \in Service : \A i \in 1..GoRouterNum[s] : <<s, i>> \in Loop
    /\ \A s \in Service : <<s, 1>> \in Loop
    /\ \A g \in Loop : /\ g \in Worker /\ g[1] \in Service
                       /\ g[2] \in 1..GoRouterNum[g[1]] /\ g = <<g[1], g[2]>>
    /\ \A q \in 1..MaxCalls : <<"muti", q>> \in Worker /\ <<"muti", q>> \notin Loop
    /\ \A g \in Worker : g \notin Loop => g[2] \in 1..MaxCalls /\ g = <<"muti", g[2]>>
    /\ Seqs \subseteq Nat \ {0} /\ MaxAsync \in Nat /\ MaxCalls \in Nat /\ MaxCalls <= MaxAsync
<1> USE ServiceAssumption
<1>1. \A s \in Service : GoRouterNum[s] \in Nat \ {0}
  OBVIOUS
<1>2. \A s \in Service : \A i \in 1..GoRouterNum[s] : <<s, i>> \in Loop
  BY DEF Loop
<1>3. \A s \in Service : 1 \in 1..GoRouterNum[s]
  BY <1>1
<1>4. \A g \in Loop : /\ g[1] \in Service /\ g[2] \in 1..GoRouterNum[g[1]] /\ g = <<g[1], g[2]>>
  BY DEF Loop
<1>5. \A q \in 1..MaxCalls : <<"muti", q>> \in Muti
  BY DEF Muti
<1>6. \A q \in 1..MaxCalls : <<"muti", q>> \notin Loop
  BY <1>4
<1>7. \A g \in Muti : g[2] \in 1..MaxCalls /\ g = <<"muti", g[2]>>
  BY DEF Muti
<1>8. Seqs \subseteq Nat \ {0}
  BY DEF Seqs
<1> QED BY <1>2, <1>3, <1>4, <1>5, <1>6, <1>7, <1>8 DEF Worker

\* One goroutine changes its record.
LEMMA GoStep ==
    ASSUME VarsInv, NEW g \in Worker, NEW r \in WorkRec, w' = [w EXCEPT ![g] = r]
    PROVE  /\ w' \in [Worker -> WorkRec] /\ w'[g] = r
           /\ \A h \in Worker : h # g => w'[h] = w[h]
BY DEF VarsInv

\* Nobody enters or leaves a loop.
LEMMA StopFrame ==
    ASSUME StopInv, gorouterNum' = gorouterNum, released' = released,
           \A g \in Loop : w'[g].at = "stopped" <=> w[g].at = "stopped"
    PROVE  StopInv'
<1>1. ASSUME NEW s \in Service PROVE Left(s)' = Left(s)
  <2>1. \A i \in 1..GoRouterNum[s] : <<s, i>> \in Loop
    BY WorkerFacts
  <2> QED BY <2>1 DEF Left
<1> QED BY <1>1 DEF StopInv

\* A call that is made: its record, and the bound on the calls.
LEMMA NewCallFacts ==
    ASSUME BaseInv, NEW g \in Worker, NEW t \in Service, NEW k \in Kinds, NEW f \in Fates,
           NEW m \in BOOLEAN, NewCall(g, t, k, f, m)
    PROVE  LET c == [by |-> g, from |-> Home(g), to |-> t, kind |-> k, fate |-> f, muti |-> m]
               n == Len(calls)
           IN  /\ c \in CallRec /\ calls' = Append(calls, c) /\ n \in Nat /\ n + 1 \in Seqs
               /\ Home(g) \in Service /\ calls' \in Seq(CallRec) /\ Len(calls') = n + 1
               /\ calls'[n + 1] = c /\ \A q \in 1..n : calls'[q] = calls[q]
               /\ m => n + 1 <= MaxCalls
<1> DEFINE c == [by |-> g, from |-> Home(g), to |-> t, kind |-> k, fate |-> f, muti |-> m]
           n == Len(calls)
<1>1. /\ calls \in Seq(CallRec) /\ n \in Nat /\ n <= MaxAsync /\ MaxCalls \in Nat /\ MaxAsync \in Nat
      /\ MaxCalls <= MaxAsync
  BY ServiceAssumption DEF BaseInv, VarsInv
<1>2. Home(g) \in Service
  <2>1. CASE g \in Loop
    BY <2>1, WorkerFacts DEF Home
  <2>2. CASE g \notin Loop
    <3>1. w[g].at # "none"
      BY <2>2 DEF NewCall, Is
    <3>2. g[2] \in 0..n /\ g[2] \in 1..MaxCalls
      BY <2>2, <3>1, WorkerFacts DEF BaseInv, WorkInv, WorkOK
    <3>3. g[2] \in 1..n
      BY <1>1, <3>2
    <3>4. calls[g[2]] \in CallRec
      BY <1>1, <3>3, ElementOfSeq
    <3> QED BY <2>2, <3>4 DEF Home, CallRec
  <2> QED BY <2>1, <2>2
<1>3. c \in CallRec
  BY <1>2 DEF CallRec
<1>4. calls' = Append(calls, c)
  BY DEF NewCall
<1>5. n < MaxAsync /\ (m => n < MaxCalls)
  <2> DEFINE d == [kind |-> k, fate |-> f, muti |-> m, from |-> Home(g), to |-> t]
             D == {calls[j] : j \in DOMAIN calls} \cup {d}
             P == \A x \in D : x.kind = "async" /\ x.fate = "ok" /\ ~x.muti /\ x.from # x.to
  <2>1. n < IF P THEN MaxAsync ELSE MaxCalls
    BY DEF NewCall
  <2>2. d \in D /\ d.muti = m
    OBVIOUS
  <2>3. m => ~P
    BY <2>2
  <2> HIDE DEF P, D, d, n
  <2> QED BY <1>1, <2>1, <2>3
<1>6. /\ calls' \in Seq(CallRec) /\ Len(calls') = n + 1
      /\ calls'[n + 1] = c /\ \A q \in 1..n : calls'[q] = calls[q]
  <2> HIDE DEF c
  <2> QED BY <1>1, <1>3, <1>4, SeqAppend
<1>7. n + 1 \in Seqs /\ (m => n + 1 <= MaxCalls)
  <2> HIDE DEF n
  <2> QED BY <1>1, <1>5 DEF Seqs
<1> QED BY <1>1, <1>2, <1>3, <1>4, <1>6, <1>7

\* Call n + 1, with record c, is made by goroutine g, whose record becomes r: it
\* goes on, or to the push of the request.  b is how often the method, and how
\* often the callback, may have run at once.
Making(g, c, r, n, b) ==
    /\ n = Len(calls) /\ n + 1 \in Seqs /\ calls' \in Seq(CallRec) /\ Len(calls') = n + 1
    /\ calls'[n + 1] = c /\ \A q \in 1..n : calls'[q] = calls[q]
    /\ c.by = g /\ (c.muti => n + 1 <= MaxCalls)
    /\ b = (IF c.from = c.to /\ c.fate # "nilArg" THEN 1 ELSE 0)
    /\ w' = [w EXCEPT ![g] = r] /\ w[g].at \in {"run", "select"} /\ r.req = w[g].req
    /\ \/ r.at = "run" /\ r.call = w[g].call /\ (c.from = c.to \/ c.fate = "noService")
       \/ r.at = "push" /\ r.call = n + 1
    /\ callRequest' = callRequest /\ callRespone' = callRespone /\ nilReply' = nilReply
    /\ done' = done /\ handled' = handled /\ gorouterNum' = gorouterNum /\ released' = released
    /\ ran' \in [Seqs -> Nat] /\ \A q \in Seqs : q # n + 1 => ran'[q] = ran[q]
    /\ cbRan' \in [Seqs -> Nat] /\ \A q \in Seqs : q # n + 1 => cbRan'[q] = cbRan[q]
    /\ ran'[n + 1] <= b /\ cbRan'[n + 1] <= b
    /\ returned' \in SUBSET Seqs
    /\ \A q \in Seqs : q # n + 1 => (q \in returned' <=> q \in returned)
    /\ n + 1 \in returned' => c.from = c.to \/ c.fate = "noService"

\* A goroutine makes a call.
LEMMA CallMade ==
    ASSUME IInv, NEW g \in Worker, NEW c \in CallRec, NEW r \in WorkRec, NEW n, NEW b \in {0, 1},
           Making(g, c, r, n, b), BoolInv'
    PROVE  IInv'
<1> USE DEF Making
<1>0. /\ BaseInv /\ VarsInv /\ BoolInv /\ WorkInv /\ MutiInv /\ ChanInv /\ PlaceInv /\ FreshInv
      /\ OnceInv /\ LaterInv /\ StopInv /\ OrderInv
  BY DEF IInv, BaseInv
<1>1. /\ n \in Nat /\ n + 1 <= MaxAsync /\ 1..n \subseteq Seqs /\ 1..(n + 1) \subseteq Seqs
      /\ \A q \in 1..(n + 1) : q = n + 1 \/ q \in 1..n
      /\ \A q \in 1..n : q \in 1..(n + 1) /\ q # n + 1
      /\ n + 1 \in 1..(n + 1) /\ n + 1 \notin 1..n /\ n + 1 # None
  BY <1>0, WorkerFacts DEF VarsInv, Seqs, None
<1>2. /\ w' \in [Worker -> WorkRec] /\ w'[g] = r /\ \A h \in Worker : h # g => w'[h] = w[h]
  BY <1>0, GoStep
<1>3. VarsInv'
  BY <1>0, <1>1, <1>2 DEF VarsInv
<1>5. \A h \in Worker : w'[h].req = w[h].req /\ w[h].req \in 0..n /\ w[h].call \in 0..n
  BY <1>0, <1>2 DEF WorkInv, WorkOK
<1>6. WorkInv'
  <2>1. ASSUME NEW h \in Worker PROVE WorkOK(h, w'[h], n + 1)
    <3>1. WorkOK(h, w[h], n)
      BY <1>0 DEF WorkInv
    <3>2. CASE h = g
      <4>1. r.req \in 0..(n + 1) /\ r.call \in 0..(n + 1)
        BY <1>1, <1>2, <1>5, <3>2
      <4>2. g \notin Loop => w[g].at = "run"
        BY <3>1, <3>2 DEF WorkOK
      <4> QED BY <1>1, <1>2, <3>1, <3>2, <4>1, <4>2 DEF WorkOK
    <3>3. CASE h # g
      <4>1. w'[h] = w[h] /\ w[h].req \in 0..(n + 1) /\ w[h].call \in 0..(n + 1)
        BY <1>1, <1>2, <1>5, <3>3
      <4> QED BY <3>1, <4>1 DEF WorkOK
    <3> QED BY <3>2, <3>3
  <2>2. ASSUME NEW h \in Worker, NEW q \in Seqs, w'[h].req = q PROVE ReqOK(h, q)'
    <3>1. w[h].req = q /\ q \in 1..n
      BY <1>1, <1>5, <2>2, WorkerFacts
    <3>2. ReqOK(h, q)
      BY <1>0, <3>1 DEF WorkInv
    <3> QED BY <3>1, <3>2 DEF ReqOK
  <2> QED BY <2>1, <2>2 DEF WorkInv
<1>7. MutiInv'
  BY <1>0, <1>1 DEF MutiInv
<1>8. ChanInv'
  BY <1>0, <1>1 DEF ChanInv
<1>9. /\ \A s \in Service : ~On(callRequest[s], n + 1) /\ ~On(callRespone[s], n + 1)
      /\ \A s \in Service : \A q \in Seqs : On(callRequest[s], q) => q \in 1..n
      /\ \A h \in Worker : w[h].req # n + 1 /\ w[h].call # n + 1
  BY <1>0, <1>1, <1>5 DEF ChanInv
<1>10. PlaceInv'
  <2>1. PushInv'
    <3> SUFFICES ASSUME NEW h \in Worker, w'[h].at = "push"
                 PROVE  /\ \A x \in Worker : w'[x].req # w'[h].call
                        /\ \A x \in Worker : w'[x].at = "push" /\ w'[x].call = w'[h].call => x = h
                        /\ \A s \in Service : ~On(callRequest[s], w'[h].call)
      BY DEF PushInv
    <3>1. CASE h = g
      BY <1>2, <1>5, <1>9, <3>1
    <3>2. CASE h # g
      BY <1>0, <1>2, <1>5, <1>9, <3>2 DEF PlaceInv, PushInv
    <3> QED BY <3>1, <3>2
  <2>2. QueuedInv'
    BY <1>0, <1>5 DEF PlaceInv, QueuedInv
  <2>3. HeldInv'
    BY <1>0, <1>5 DEF PlaceInv, HeldInv
  <2> QED BY <2>1, <2>2, <2>3 DEF PlaceInv
<1>11. \A q \in 1..n : /\ SelfRun(q)' = SelfRun(q) /\ Twice(q)' = Twice(q)
                       /\ Answers(q)' = Answers(q) /\ ran'[q] = ran[q]
  BY <1>1 DEF SelfRun, Twice, Answers
<1>12. SelfRun(n + 1)' = b /\ Twice(n + 1)' \in {0, 1} /\ Answers(n + 1)' = cbRan'[n + 1]
  <2>1. c.from \in Service
    BY DEF CallRec
  <2>2. Occ(callRespone[c.from], n + 1) = 0
    <3>1. callRespone[c.from] \in Seq(Seqs)
      BY <1>0, <2>1 DEF VarsInv
    <3>2. ~On(callRespone[c.from], n + 1)
      BY <1>9, <2>1
    <3> QED BY <3>1, <3>2, OccType
  <2>3. cbRan'[n + 1] \in Nat
    OBVIOUS
  <2>4. Answers(n + 1)' = Occ(callRespone[c.from], n + 1) + cbRan'[n + 1]
    BY DEF Answers
  <2> QED BY <2>2, <2>3, <2>4 DEF SelfRun, Twice
<1>13. FreshInv'
  <2>1. \A q \in 1..n : Fresh(q) => Fresh(q)'
    BY <1>11 DEF Fresh
  <2>2. Fresh(n + 1)'
    BY <1>12 DEF Fresh
  <2>3. ASSUME NEW h \in Worker, NEW q \in Seqs,
               (w'[h].at = "push" /\ w'[h].call = q) \/ (w'[h].at = "handle" /\ w'[h].req = q)
        PROVE  Fresh(q)'
    <3>1. CASE h = g
      <4>1. q = n + 1
        BY <1>2, <2>3, <3>1
      <4> QED BY <2>2, <4>1
    <3>2. CASE h # g
      <4>1. w'[h] = w[h] /\ q \in 1..n
        BY <1>1, <1>2, <1>5, <2>3, <3>2, WorkerFacts
      <4>2. Fresh(q)
        BY <1>0, <2>3, <4>1 DEF FreshInv
      <4> QED BY <2>1, <4>1, <4>2
    <3> QED BY <3>1, <3>2
  <2>5. ASSUME NEW s \in Service, NEW q \in Seqs, On(callRequest[s], q) PROVE Fresh(q)'
    BY <1>0, <1>9, <2>1, <2>5 DEF FreshInv
  <2> QED BY <2>3, <2>5 DEF FreshInv
<1>14. OnceInv'
  <2>1. ASSUME NEW q \in 1..(n + 1)
        PROVE  ran'[q] <= SelfRun(q)' + 1 /\ Answers(q)' <= SelfRun(q)' + 1 + Twice(q)'
    <3>1. CASE q = n + 1
      BY <1>12, <3>1
    <3>2. CASE q \in 1..n
      BY <1>0, <1>11, <3>2 DEF OnceInv
    <3> QED BY <1>1, <3>1, <3>2
  <2>2. ASSUME NEW h \in Worker, NEW q \in Seqs, w'[h].req = q, w'[h].at # "handle"
        PROVE  Answers(q)' <= SelfRun(q)' + Twice(q)'
    <3>1. w[h].req = q /\ w[h].at # "handle" /\ q \in 1..n
      BY <1>1, <1>2, <1>5, <2>2, WorkerFacts
    <3> QED BY <1>0, <1>11, <3>1 DEF OnceInv
  <2> QED BY <2>1, <2>2 DEF OnceInv
<1>15. LaterInv'
  <2>1. \A q \in Seqs : q > n + 1 => q > n /\ q # n + 1
    BY <1>1, WorkerFacts
  <2> QED BY <1>0, <2>1 DEF LaterInv
<1>16. StopInv'
  <2>1. \A h \in Loop : h \in Worker
    BY WorkerFacts
  <2>2. \A h \in Loop : w'[h].at = "stopped" <=> w[h].at = "stopped"
    BY <1>2, <2>1
  <2> QED BY <1>0, <2>2, StopFrame
<1>17. \A q \in 1..n : /\ InTurn(q)' <=> InTurn(q)
                       /\ Server(q)' = Server(q) /\ calls'[q] = calls[q]
                       /\ calls[q].by \in Worker /\ calls[q].to \in Service
                       /\ Server(q) \in Worker
  <2>1. ASSUME NEW q \in 1..n
        PROVE  calls[q].by \in Worker /\ calls[q].to \in Service /\ Server(q) \in Worker
    <3>1. calls[q] \in CallRec
      BY <1>0, ElementOfSeq DEF VarsInv
    <3> QED BY <3>1, WorkerFacts DEF CallRec, Server
  <2> QED BY <2>1 DEF InTurn, Server
<1>18. \A q \in 1..n : Taken(q)' <=> Taken(q)
  BY <1>5, <1>17 DEF Taken
<1>19. ~Taken(n + 1)' /\ done[n + 1] = 0
  <2>1. c.to \in Service /\ Server(n + 1)' = <<c.to, 1>>
    BY DEF CallRec, Server
  <2>2. <<c.to, 1>> \in Worker
    BY <2>1, WorkerFacts
  <2>3. n + 1 > n
    BY <1>1
  <2>4. n + 1 \notin handled /\ done[n + 1] = 0
    BY <1>0, <2>3 DEF LaterInv
  <2>5. w'[<<c.to, 1>>].req # n + 1
    BY <1>5, <1>9, <2>2
  <2> QED BY <2>1, <2>4, <2>5 DEF Taken, Server
<1>20. InTurn(n + 1)' => r.at = "push" /\ r.call = n + 1 /\ n + 1 \notin returned'
  BY DEF InTurn
<1>21. LastInv'
  <2> SUFFICES ASSUME NEW h \in Worker, w'[h].at = "push"
               PROVE  /\ calls'[w'[h].call].by = h
                      /\ \A q \in 1..(n + 1) : calls'[q].by = h => q <= w'[h].call
    BY DEF LastInv
  <2>1. CASE h = g
    BY <1>1, <1>2, <2>1
  <2>2. CASE h # g
    <3>1. w[h].at = "push" /\ w[h].call \in 1..n /\ w'[h] = w[h]
      BY <1>0, <1>1, <1>2, <1>5, <2>2 DEF WorkInv, WorkOK, None
    <3> QED BY <1>0, <1>1, <2>2, <3>1 DEF OrderInv, LastInv
  <2> QED BY <2>1, <2>2
<1>22. PlacedInv'
  <2> SUFFICES ASSUME NEW q \in 1..(n + 1), InTurn(q)'
               PROVE  \/ w'[calls'[q].by].at = "push" /\ w'[calls'[q].by].call = q
                      \/ On(callRequest[calls'[q].to], q)
                      \/ Taken(q)'
    BY DEF PlacedInv
  <2>1. CASE q = n + 1
    BY <1>2, <1>20, <2>1
  <2>2. CASE q \in 1..n
    <3>1. \/ w[calls[q].by].at = "push" /\ w[calls[q].by].call = q
          \/ On(callRequest[calls[q].to], q)
          \/ Taken(q)
      BY <1>0, <1>17, <2>2 DEF OrderInv, PlacedInv
    <3>2. CASE w[calls[q].by].at = "push" /\ w[calls[q].by].call = q
      BY <1>2, <1>17, <2>2, <3>2
    <3> QED BY <1>17, <1>18, <2>2, <3>1, <3>2
  <2> QED BY <1>1, <2>1, <2>2
<1>23. TurnInv'
  <2> SUFFICES ASSUME NEW p \in 1..(n + 1), NEW q \in 1..(n + 1), p < q,
                      calls'[p].by = calls'[q].by, calls'[p].to = calls'[q].to,
                      InTurn(p)', InTurn(q)', Taken(q)'
               PROVE  p \in handled
    BY DEF TurnInv
  <2>1. q \in 1..n
    BY <1>1, <1>19
  <2>2. p \in 1..n
    BY <1>1, <2>1
  <2> QED BY <1>0, <1>17, <1>18, <2>1, <2>2 DEF OrderInv, TurnInv
<1>24. ReturnInv'
  <2> SUFFICES ASSUME NEW q \in 1..(n + 1), InTurn(q)', q \in returned' \/ done[q] = 1
               PROVE  Taken(q)'
    BY DEF ReturnInv
  <2>1. q \in 1..n
    BY <1>1, <1>19, <1>20
  <2> QED BY <1>0, <1>1, <1>17, <1>18, <2>1 DEF OrderInv, ReturnInv
<1>25. \A s \in Service : InOrder(calls', callRequest[s])
  <2> SUFFICES ASSUME NEW s \in Service, NEW i \in 1..Len(callRequest[s]),
                      NEW j \in 1..Len(callRequest[s]), i < j,
                      calls'[callRequest[s][i]].by = calls'[callRequest[s][j]].by
               PROVE  callRequest[s][i] < callRequest[s][j]
    BY DEF InOrder
  <2>1. callRequest[s][i] \in 1..n /\ callRequest[s][j] \in 1..n
    <3>1. callRequest[s] \in Seq(Seqs)
      BY <1>0 DEF VarsInv
    <3>2. callRequest[s][i] \in Seqs /\ callRequest[s][j] \in Seqs
      BY <3>1, ElementOfSeq
    <3> QED BY <1>0, <3>2 DEF ChanInv, On
  <2> QED BY <1>0, <2>1 DEF OrderInv, InOrder
<1>26. OrderInv'
  BY <1>21, <1>22, <1>23, <1>24, <1>25 DEF OrderInv
<1> QED BY <1>3, <1>6, <1>7, <1>8, <1>10, <1>13, <1>14, <1>15, <1>16, <1>26 DEF IInv, BaseInv

\* What CallMade needs to know of the state in which a call is made.
LEMMA NextCall ==
    ASSUME IInv, NEW g \in Worker, NEW t \in Service, NEW k \in Kinds, NEW f \in Fates,
           NEW m \in BOOLEAN, NewCall(g, t, k, f, m)
    PROVE  /\ Len(calls) + 1 \in Seqs /\ w[g] \in WorkRec /\ w[g].at \in {"run", "select"}
           /\ ran \in [Seqs -> Nat] /\ cbRan \in [Seqs -> Nat] /\ returned \in SUBSET Seqs
           /\ ran[Len(calls) + 1] = 0 /\ cbRan[Len(calls) + 1] = 0
           /\ Len(calls) + 1 \notin returned
<1>1. BaseInv /\ VarsInv /\ LaterInv
  BY DEF IInv, BaseInv
<1>2. Len(calls) \in Nat /\ Len(calls) + 1 \in Seqs
  BY <1>1, NewCallFacts
<1>3. Len(calls) + 1 > Len(calls)
  BY <1>2
<1>4. /\ ran[Len(calls) + 1] = 0 /\ cbRan[Len(calls) + 1] = 0 /\ Len(calls) + 1 \notin returned
  BY <1>1, <1>2, <1>3 DEF LaterInv
<1>5. w[g].at \in {"run", "select"}
  BY DEF NewCall, Is
<1> QED BY <1>1, <1>2, <1>4, <1>5 DEF VarsInv

\* A call to another service.
LEMMA CallOtherStep ==
    ASSUME IInv, NEW g \in Worker, NEW t \in Service, NEW k \in Kinds, NEW f \in Fates,
           NEW m \in BOOLEAN, CallOther(g, t, k, f, m)
    PROVE  IInv'
<1> DEFINE n == Len(calls)
           c == [by |-> g, from |-> Home(g), to |-> t, kind |-> k, fate |-> f, muti |-> m]
           b == IF c.from = c.to /\ c.fate # "nilArg" THEN 1 ELSE 0
<1>1. NewCall(g, t, k, f, m) /\ BaseInv /\ BoolInv
  BY DEF CallOther, IInv, BaseInv
<1>2. /\ c \in CallRec /\ n + 1 \in Seqs /\ calls' \in Seq(CallRec) /\ Len(calls') = n + 1
      /\ calls'[n + 1] = c /\ (\A q \in 1..n : calls'[q] = calls[q]) /\ (m => n + 1 <= MaxCalls)
  BY <1>1, NewCallFacts
<1>3. c.by = g /\ c.muti = m /\ c.fate = f
  OBVIOUS
<1>4. /\ n + 1 \in Seqs /\ w[g] \in WorkRec /\ w[g].at \in {"run", "select"}
      /\ ran \in [Seqs -> Nat] /\ cbRan \in [Seqs -> Nat] /\ returned \in SUBSET Seqs
      /\ ran[n + 1] = 0 /\ cbRan[n + 1] = 0 /\ n + 1 \notin returned
  BY <1>1, NextCall
<1>5. b \in {0, 1}
  OBVIOUS
<1>6. /\ callRequest' = callRequest /\ callRespone' = callRespone /\ nilReply' = nilReply
      /\ done' = done /\ handled' = handled /\ gorouterNum' = gorouterNum /\ released' = released
      /\ ran' = ran /\ cbRan' = cbRan
  BY DEF CallOther, chans, stopVars
<1>7. BoolInv'
  BY <1>1 DEF CallOther, stopVars, BoolInv
<1>8. b = (IF c.from = c.to /\ c.fate # "nilArg" THEN 1 ELSE 0)
  OBVIOUS
<1>9. 0 <= b
  BY <1>5
<1>10. CASE f = "noService" /\ w' = [w EXCEPT ![g].at = "run"]
            /\ returned' = IF k = "call" THEN returned \cup {n + 1} ELSE returned
  <2> DEFINE r == [w[g] EXCEPT !.at = "run"]
  <2>1. r \in WorkRec /\ r.at = "run" /\ r.req = w[g].req /\ r.call = w[g].call
    BY <1>4 DEF WorkRec
  <2>2. w' = [w EXCEPT ![g] = r]
    BY <1>10
  <2>3. /\ returned' \in SUBSET Seqs
        /\ \A q \in Seqs : q # n + 1 => (q \in returned' <=> q \in returned)
    BY <1>4, <1>10
  <2> HIDE DEF r, n, c, b
  <2>4. Making(g, c, r, n, b)
    BY <1>2, <1>3, <1>4, <1>6, <1>8, <1>9, <1>10, <2>1, <2>2, <2>3 DEF Making, n
  <2> QED BY <1>2, <1>5, <1>7, <2>1, <2>4, CallMade
<1>11. CASE f # "noService" /\ w' = [w EXCEPT ![g].at = "push", ![g].call = n + 1]
            /\ returned' = returned
  <2> DEFINE r == [w[g] EXCEPT !.at = "push", !.call = n + 1]
  <2>1. r \in WorkRec /\ r.at = "push" /\ r.req = w[g].req /\ r.call = n + 1
    BY <1>4 DEF WorkRec
  <2>2. w' = [w EXCEPT ![g] = r]
    BY <1>11
  <2> HIDE DEF r, n, c, b
  <2>3. Making(g, c, r, n, b)
    BY <1>2, <1>3, <1>4, <1>6, <1>8, <1>9, <1>11, <2>1, <2>2 DEF Making, n
  <2> QED BY <1>2, <1>5, <1>7, <2>1, <2>3, CallMade
<1> QED BY <1>10, <1>11 DEF CallOther

\* The service that g runs code of exists.
LEMMA HomeIsService ==
    ASSUME IInv, NEW g \in Worker, w[g].at \in {"run", "select"}
    PROVE  Home(g) \in Service
<1>1. CASE g \in Loop
  BY <1>1, WorkerFacts DEF Home
<1>2. CASE g \notin Loop
  <2>1. g[2] \in 0..Len(calls) /\ g[2] \in 1..MaxCalls
    BY <1>2, WorkerFacts DEF IInv, BaseInv, WorkInv, WorkOK
  <2>2. g[2] \in 1..Len(calls) /\ calls \in Seq(CallRec)
    BY <2>1 DEF IInv, BaseInv, VarsInv
  <2>3. calls[g[2]] \in CallRec
    BY <2>2, ElementOfSeq
  <2> QED BY <1>2, <2>3 DEF Home, CallRec
<1> QED BY <1>1, <1>2

\* Call and Go of a service to itself: the method runs at once.
LEMMA CallSelfStep ==
    ASSUME IInv, NEW g \in Worker, NEW k \in Kinds, NEW f \in Fates, NEW m \in BOOLEAN,
           CallSelf(g, k, f, m)
    PROVE  IInv'
<1> DEFINE n == Len(calls)
           t == Home(g)
           c == [by |-> g, from |-> Home(g), to |-> t, kind |-> k, fate |-> f, muti |-> m]
           b == IF c.from = c.to /\ c.fate # "nilArg" THEN 1 ELSE 0
           r == [w[g] EXCEPT !.at = "run"]
<1>0. Home(g) \in Service
  BY HomeIsService DEF CallSelf, NewCall, Is
<1>1. NewCall(g, t, k, f, m) /\ BaseInv /\ BoolInv
  BY DEF CallSelf, IInv, BaseInv
<1>2. /\ c \in CallRec /\ n + 1 \in Seqs /\ calls' \in Seq(CallRec) /\ Len(calls') = n + 1
      /\ calls'[n + 1] = c /\ (\A q \in 1..n : calls'[q] = calls[q]) /\ (m => n + 1 <= MaxCalls)
  BY <1>0, <1>1, NewCallFacts
<1>3. c.by = g /\ c.muti = m /\ c.fate = f /\ c.from = c.to
  OBVIOUS
<1>4. /\ n + 1 \in Seqs /\ w[g] \in WorkRec /\ w[g].at \in {"run", "select"}
      /\ ran \in [Seqs -> Nat] /\ cbRan \in [Seqs -> Nat] /\ returned \in SUBSET Seqs
      /\ ran[n + 1] = 0 /\ cbRan[n + 1] = 0 /\ n + 1 \notin returned
  BY <1>0, <1>1, NextCall
<1>5. b \in {0, 1} /\ 0 <= b
  OBVIOUS
<1>6. /\ callRequest' = callRequest /\ callRespone' = callRespone /\ nilReply' = nilReply
      /\ done' = done /\ handled' = handled /\ gorouterNum' = gorouterNum /\ released' = released
      /\ cbRan' = cbRan
  BY DEF CallSelf, chans, stopVars
<1>7. BoolInv'
  BY <1>1 DEF CallSelf, stopVars, BoolInv, CallMethodPanics
<1>8. b = (IF c.from = c.to /\ c.fate # "nilArg" THEN 1 ELSE 0)
  OBVIOUS
<1>9. /\ r \in WorkRec /\ r.at = "run" /\ r.req = w[g].req /\ r.call = w[g].call
  BY <1>4 DEF WorkRec
<1>10. w' = [w EXCEPT ![g] = r]
  BY DEF CallSelf
<1>11. /\ ran' \in [Seqs -> Nat] /\ \A q \in Seqs : q # n + 1 => ran'[q] = ran[q]
       /\ ran'[n + 1] <= b
  <2>1. CASE ran' = ran
    BY <1>4, <1>5, <2>1
  <2>2. CASE ran' = [ran EXCEPT ![n + 1] = @ + 1] /\ f # "nilArg"
    <3>1. b = 1
      BY <1>3, <2>2
    <3> HIDE DEF b
    <3> QED BY <1>4, <2>2, <3>1
  <2> QED BY <2>1, <2>2 DEF CallSelf, CallMethodPanics
<1>12. /\ returned' \in SUBSET Seqs
       /\ \A q \in Seqs : q # n + 1 => (q \in returned' <=> q \in returned)
  BY <1>4 DEF CallSelf
<1> HIDE DEF r, n, c, b, t
<1>13. Making(g, c, r, n, b)
  BY <1>2, <1>3, <1>4, <1>5, <1>6, <1>8, <1>9, <1>10, <1>11, <1>12 DEF Making, n
<1> QED BY <1>2, <1>5, <1>7, <1>9, <1>13, CallMade

\* AsyncCall of a service to itself: method and callback run at once, and the
\* request is pushed all the same.
LEMMA AsyncCallSelfStep ==
    ASSUME IInv, NEW g \in Worker, NEW f \in Fates, NEW m \in BOOLEAN, AsyncCallSelf(g, f, m)
    PROVE  IInv'
<1> DEFINE n == Len(calls)
           t == Home(g)
           k == "async"
           c == [by |-> g, from |-> Home(g), to |-> t, kind |-> k, fate |-> f, muti |-> m]
           b == IF c.from = c.to /\ c.fate # "nilArg" THEN 1 ELSE 0
           r == [w[g] EXCEPT !.at = "push", !.call = n + 1]
<1>0. Home(g) \in Service /\ k \in Kinds
  BY HomeIsService DEF AsyncCallSelf, NewCall, Is, Kinds
<1>1. NewCall(g, t, k, f, m) /\ BaseInv /\ BoolInv
  BY DEF AsyncCallSelf, IInv, BaseInv
<1>2. /\ c \in CallRec /\ n + 1 \in Seqs /\ calls' \in Seq(CallRec) /\ Len(calls') = n + 1
      /\ calls'[n + 1] = c /\ (\A q \in 1..n : calls'[q] = calls[q]) /\ (m => n + 1 <= MaxCalls)
  BY <1>0, <1>1, NewCallFacts
<1>3. c.by = g /\ c.muti = m /\ c.fate = f /\ c.from = c.to
  OBVIOUS
<1>4. /\ n + 1 \in Seqs /\ w[g] \in WorkRec /\ w[g].at \in {"run", "select"}
      /\ ran \in [Seqs -> Nat] /\ cbRan \in [Seqs -> Nat] /\ returned \in SUBSET Seqs
      /\ ran[n + 1] = 0 /\ cbRan[n + 1] = 0 /\ n + 1 \notin returned
  BY <1>0, <1>1, NextCall
<1>5. b \in {0, 1} /\ 0 <= b
  OBVIOUS
<1>6. /\ callRequest' = callRequest /\ callRespone' = callRespone /\ nilReply' = nilReply
      /\ done' = done /\ handled' = handled /\ gorouterNum' = gorouterNum /\ released' = released
      /\ returned' = returned
  BY DEF AsyncCallSelf, chans, stopVars
<1>7. BoolInv'
  BY <1>1 DEF AsyncCallSelf, stopVars, BoolInv, CallMethodPanics
<1>8. b = (IF c.from = c.to /\ c.fate # "nilArg" THEN 1 ELSE 0)
  OBVIOUS
<1>9. /\ r \in WorkRec /\ r.at = "push" /\ r.req = w[g].req /\ r.call = n + 1
  BY <1>4 DEF WorkRec
<1>10. w' = [w EXCEPT ![g] = r]
  BY DEF AsyncCallSelf
<1>11. /\ ran' \in [Seqs -> Nat] /\ \A q \in Seqs : q # n + 1 => ran'[q] = ran[q]
       /\ ran'[n + 1] <= b
  <2>1. CASE ran' = ran
    BY <1>4, <1>5, <2>1
  <2>2. CASE ran' = [ran EXCEPT ![n + 1] = @ + 1] /\ f # "nilArg"
    <3>1. b = 1
      BY <1>3, <2>2
    <3> HIDE DEF b
    <3> QED BY <1>4, <2>2, <3>1
  <2> QED BY <2>1, <2>2 DEF AsyncCallSelf, CallMethodPanics
<1>12. /\ cbRan' \in [Seqs -> Nat] /\ \A q \in Seqs : q # n + 1 => cbRan'[q] = cbRan[q]
       /\ cbRan'[n + 1] <= b
  <2>1. CASE cbRan' = cbRan
    BY <1>4, <1>5, <2>1
  <2>2. CASE cbRan' = [cbRan EXCEPT ![n + 1] = @ + 1] /\ f # "nilArg"
    <3>1. b = 1
      BY <1>3, <2>2
    <3> HIDE DEF b
    <3> QED BY <1>4, <2>2, <3>1
  <2> QED BY <2>1, <2>2 DEF AsyncCallSelf, CallMethodPanics
<1> HIDE DEF r, n, c, b, t, k
<1>13. Making(g, c, r, n, b)
  BY <1>2, <1>3, <1>4, <1>5, <1>6, <1>8, <1>9, <1>10, <1>11, <1>12 DEF Making, n
<1> QED BY <1>2, <1>5, <1>7, <1>9, <1>13, CallMade

-----------------------------------------------------------------------------
\* Goroutine g, whose record becomes r, has no request to pass on: it goes on or
\* returns to its select, and answers may be taken out of the channels.
Quiet(g, r) ==
    /\ w' = [w EXCEPT ![g] = r] /\ w[g].at \in {"run", "select", "wait"}
    /\ r.at \in {"run", "select", "stopped"} /\ r.req = w[g].req /\ r.call = w[g].call
    /\ calls' = calls /\ callRequest' = callRequest /\ handled' = handled /\ ran' = ran
    /\ callRespone' \in [Service -> Seq(Seqs)] /\ \A s \in Service : Len(callRespone'[s]) <= QueueLen
    /\ \A s \in Service, q \in Seqs : On(callRespone'[s], q) => On(callRespone[s], q)
    /\ cbRan' \in [Seqs -> Nat] /\ done' \in [Seqs -> {0, 1}]
    /\ nilReply' \in SUBSET Seqs /\ returned' \in SUBSET Seqs
    /\ gorouterNum' \in [Service -> Nat] /\ released' \in SUBSET Service
    /\ \A q \in 1..Len(calls) : Answers(q)' \in Nat /\ Answers(q) \in Nat /\ Answers(q)' <= Answers(q)
    /\ \A q \in 1..Len(calls) : q \in returned' \/ done'[q] = 1 => q \in returned \/ done[q] = 1
    /\ \A q \in Seqs : q > Len(calls) =>
           cbRan'[q] = cbRan[q] /\ done'[q] = done[q] /\ (q \in returned' <=> q \in returned)

\* Such a step keeps the invariant.
LEMMA QuietStep ==
    ASSUME IInv, NEW g \in Worker, NEW r \in WorkRec, Quiet(g, r), WorkOK(g, r, Len(calls)),
           BoolInv', StopInv'
    PROVE  IInv'
<1> USE DEF Quiet
<1>0. /\ BaseInv /\ VarsInv /\ WorkInv /\ MutiInv /\ ChanInv /\ PlaceInv /\ FreshInv
      /\ OnceInv /\ LaterInv /\ OrderInv
  BY DEF IInv, BaseInv
<1>1. /\ w' \in [Worker -> WorkRec] /\ w'[g] = r /\ \A h \in Worker : h # g => w'[h] = w[h]
  BY <1>0, GoStep
<1>2. VarsInv'
  BY <1>0, <1>1 DEF VarsInv
<1>3. \A h \in Worker :
          /\ w'[h].req = w[h].req /\ w'[h].call = w[h].call
          /\ (w'[h].at = "push" <=> w[h].at = "push")
          /\ (w'[h].at = "handle" <=> w[h].at = "handle")
  BY <1>1
<1>4. WorkInv'
  <2>1. ASSUME NEW h \in Worker PROVE WorkOK(h, w'[h], Len(calls))
    BY <1>0, <1>1 DEF WorkInv
  <2> QED BY <1>0, <1>3, <2>1 DEF WorkInv, ReqOK
<1>5. MutiInv' /\ ChanInv'
  BY <1>0 DEF MutiInv, ChanInv
<1>6. PlaceInv'
  BY <1>0, <1>3 DEF PlaceInv, PushInv, QueuedInv, HeldInv
<1>7. \A q \in 1..Len(calls) : /\ SelfRun(q)' = SelfRun(q) /\ SelfRun(q) \in {0, 1}
                               /\ Twice(q)' = Twice(q) /\ Twice(q) \in {0, 1}
  BY DEF SelfRun, Twice
<1>8. \A q \in 1..Len(calls) : Fresh(q) => Fresh(q)'
  <2> SUFFICES ASSUME NEW q \in 1..Len(calls), Fresh(q) PROVE Fresh(q)'
    OBVIOUS
  <2>1. /\ SelfRun(q)' = SelfRun(q) /\ SelfRun(q) \in {0, 1} /\ Answers(q)' \in Nat
        /\ Answers(q) \in Nat /\ Answers(q)' <= Answers(q) /\ Answers(q) <= SelfRun(q)
        /\ ran'[q] <= SelfRun(q)
    BY <1>7 DEF Fresh
  <2> QED BY <2>1 DEF Fresh
<1>9. FreshInv'
  <2>1. ASSUME NEW h \in Worker, NEW q \in Seqs,
               (w'[h].at = "push" /\ w'[h].call = q) \/ (w'[h].at = "handle" /\ w'[h].req = q)
        PROVE  Fresh(q)'
    <3>1. Fresh(q)
      BY <1>0, <1>3, <2>1 DEF FreshInv
    <3>2. q \in 1..Len(calls)
      BY <1>0, <1>3, <2>1, WorkerFacts DEF WorkInv, WorkOK, VarsInv
    <3> QED BY <1>8, <3>1, <3>2
  <2>2. ASSUME NEW s \in Service, NEW q \in Seqs, On(callRequest[s], q) PROVE Fresh(q)'
    BY <1>0, <1>8, <2>2 DEF FreshInv, ChanInv
  <2> QED BY <2>1, <2>2 DEF FreshInv
<1>10. OnceInv'
  <2>1. ASSUME NEW q \in 1..Len(calls)
        PROVE  ran'[q] <= SelfRun(q)' + 1 /\ Answers(q)' <= SelfRun(q)' + 1 + Twice(q)'
    <3>1. ran[q] <= SelfRun(q) + 1 /\ Answers(q) <= SelfRun(q) + 1 + Twice(q)
      BY <1>0 DEF OnceInv
    <3>2. /\ SelfRun(q)' = SelfRun(q) /\ SelfRun(q) \in {0, 1} /\ Twice(q)' = Twice(q)
          /\ Twice(q) \in {0, 1}
          /\ Answers(q)' \in Nat /\ Answers(q) \in Nat /\ Answers(q)' <= Answers(q)
      BY <1>7
    <3> QED BY <3>1, <3>2
  <2>2. ASSUME NEW h \in Worker, NEW q \in Seqs, w'[h].req = q, w'[h].at # "handle"
        PROVE  Answers(q)' <= SelfRun(q)' + Twice(q)'
    <3>1. Answers(q) <= SelfRun(q) + Twice(q)
      BY <1>0, <1>3, <2>2 DEF OnceInv
    <3>2. q \in 1..Len(calls)
      BY <1>0, <1>3, <2>2, WorkerFacts DEF WorkInv, WorkOK, VarsInv
    <3>3. /\ SelfRun(q)' = SelfRun(q) /\ SelfRun(q) \in {0, 1} /\ Twice(q)' = Twice(q)
          /\ Twice(q) \in {0, 1}
          /\ Answers(q)' \in Nat /\ Answers(q) \in Nat /\ Answers(q)' <= Answers(q)
      BY <1>7, <3>2
    <3> QED BY <3>1, <3>3
  <2> QED BY <2>1, <2>2 DEF OnceInv
<1>11. LaterInv'
  BY <1>0 DEF LaterInv
<1>12. \A q \in 1..Len(calls) : /\ calls[q].by \in Worker /\ Server(q) \in Worker
                                /\ (InTurn(q)' <=> InTurn(q))
                                /\ (Taken(q)' <=> Taken(q))
  <2> SUFFICES ASSUME NEW q \in 1..Len(calls)
               PROVE  /\ calls[q].by \in Worker /\ Server(q) \in Worker
                      /\ (InTurn(q)' <=> InTurn(q)) /\ (Taken(q)' <=> Taken(q))
    OBVIOUS
  <2>1. calls[q] \in CallRec
    BY <1>0, ElementOfSeq DEF VarsInv
  <2>2. calls[q].by \in Worker /\ Server(q) \in Worker
    BY <2>1, WorkerFacts DEF CallRec, Server
  <2> QED BY <1>3, <2>2 DEF InTurn, Taken, Server
<1>13. LastInv'
  BY <1>0, <1>3 DEF OrderInv, LastInv
<1>14. PlacedInv'
  BY <1>0, <1>3, <1>12 DEF OrderInv, PlacedInv
<1>15. TurnInv' /\ ReturnInv'
  BY <1>0, <1>12 DEF OrderInv, TurnInv, ReturnInv
<1>16. OrderInv'
  BY <1>0, <1>13, <1>14, <1>15 DEF OrderInv
<1> QED BY <1>2, <1>4, <1>5, <1>6, <1>9, <1>10, <1>11, <1>16 DEF IInv, BaseInv

\* Where the answers to call q go.
LEMMA AnswersType ==
    ASSUME VarsInv, NEW q \in 1..Len(calls)
    PROVE  /\ q \in Seqs /\ calls[q] \in CallRec /\ calls[q].from \in Service
           /\ callRespone[calls[q].from] \in Seq(Seqs)
           /\ Occ(callRespone[calls[q].from], q) \in Nat /\ cbRan[q] \in Nat /\ Answers(q) \in Nat
<1>1. q \in Seqs
  BY WorkerFacts DEF VarsInv, Seqs
<1>2. calls[q] \in CallRec
  BY ElementOfSeq DEF VarsInv
<1>3. calls[q].from \in Service
  BY <1>2 DEF CallRec
<1>4. callRespone[calls[q].from] \in Seq(Seqs) /\ cbRan[q] \in Nat
  BY <1>1, <1>3 DEF VarsInv
<1>5. Occ(callRespone[calls[q].from], q) \in Nat
  BY <1>4, OccType
<1> QED BY <1>1, <1>2, <1>3, <1>4, <1>5 DEF Answers

\* A callback ends, or a synchronous call returns.
LEMMA ResumeStep ==
    ASSUME IInv, NEW g \in Worker, EndCallback(g) \/ Done(g)
    PROVE  IInv'
<1>1. VarsInv /\ BoolInv /\ WorkInv /\ StopInv /\ ChanInv
  BY DEF IInv, BaseInv
<1>2. w[g] \in WorkRec /\ WorkOK(g, w[g], Len(calls))
  BY <1>1 DEF VarsInv, WorkInv
<1>3. PICK l \in {"run", "select"} :
          w' = [w EXCEPT ![g].at = l] /\ (l = "select" => EndCallback(g)) /\ (l = "run" => Done(g))
  BY DEF EndCallback, Done
<1> DEFINE r == [w[g] EXCEPT !.at = l]
<1>4. r \in WorkRec /\ r.at = l /\ r.req = w[g].req /\ r.call = w[g].call
  BY <1>2 DEF WorkRec
<1>5. w' = [w EXCEPT ![g] = r]
  BY <1>3
<1> HIDE DEF r
<1>6. w[g].at = (IF l = "run" THEN "wait" ELSE "run") /\ (l = "select" => w[g].req = None)
  BY <1>3 DEF EndCallback, Done, Is
<1>7. WorkOK(g, r, Len(calls))
  <2>1. l = "select" => g \in Loop
    <3>1. ASSUME g \notin Loop, l = "select" PROVE FALSE
      <4>1. w[g].at = "run" /\ w[g].req = None
        BY <1>6, <3>1
      <4>2. w[g].req = g[2] /\ g[2] \in 1..MaxCalls
        BY <1>2, <3>1, <4>1, WorkerFacts DEF WorkOK
      <4> QED BY <4>1, <4>2, WorkerFacts DEF None
    <3> QED BY <3>1
  <2> QED BY <1>2, <1>4, <1>6, <2>1 DEF WorkOK
<1>8. BoolInv'
  BY <1>1 DEF EndCallback, Done, stopVars, BoolInv
<1>9. /\ calls' = calls /\ callRequest' = callRequest /\ callRespone' = callRespone
      /\ nilReply' = nilReply /\ ran' = ran /\ cbRan' = cbRan /\ handled' = handled
      /\ gorouterNum' = gorouterNum /\ released' = released
  BY DEF EndCallback, Done, chans, counts, stopVars
<1>10. StopInv'
  <2>1. \A h \in Loop : w'[h].at = "stopped" <=> w[h].at = "stopped"
    <3>1. \A h \in Loop : h \in Worker
      BY WorkerFacts
    <3>2. w'[g] = r /\ \A h \in Worker : h # g => w'[h] = w[h]
      BY <1>1, <1>4, <1>5, GoStep
    <3> QED BY <1>4, <1>6, <3>1, <3>2
  <2> QED BY <1>1, <1>9, <2>1, StopFrame
<1>11. \A q \in 1..Len(calls) : Answers(q)' = Answers(q) /\ Answers(q) \in Nat
  <2>1. \A q \in 1..Len(calls) : Answers(q) \in Nat
    BY <1>1, AnswersType
  <2> QED BY <1>9, <2>1 DEF Answers
<1>12. \A q \in 1..Len(calls) :
           Answers(q)' \in Nat /\ Answers(q) \in Nat /\ Answers(q)' <= Answers(q)
  <2> SUFFICES ASSUME NEW q \in 1..Len(calls)
               PROVE  Answers(q)' \in Nat /\ Answers(q) \in Nat /\ Answers(q)' <= Answers(q)
    OBVIOUS
  <2>1. Answers(q)' = Answers(q) /\ Answers(q) \in Nat
    BY <1>11
  <2> QED BY <2>1
<1>13. /\ callRespone' \in [Service -> Seq(Seqs)]
       /\ \A s \in Service : Len(callRespone'[s]) <= QueueLen
       /\ cbRan' \in [Seqs -> Nat] /\ nilReply' \in SUBSET Seqs
       /\ gorouterNum' \in [Service -> Nat] /\ released' \in SUBSET Service
       /\ done \in [Seqs -> {0, 1}] /\ returned \in SUBSET Seqs
  BY <1>1, <1>9 DEF VarsInv
<1>14. CASE EndCallback(g)
  <2>1. done' = done /\ returned' = returned
    BY <1>14 DEF EndCallback, chans, counts
  <2>2. Quiet(g, r)
    BY <1>4, <1>5, <1>6, <1>9, <1>12, <1>13, <2>1 DEF Quiet
  <2> QED BY <1>4, <1>7, <1>8, <1>10, <2>2, QuietStep
<1>15. CASE Done(g)
  <2> DEFINE q == w[g].call
  <2>1. done[q] = 1 /\ done' = [done EXCEPT ![q] = 0] /\ returned' = returned \cup {q} /\ w[g].at = "wait"
    BY <1>15 DEF Done, Is
  <2>2. q \in 1..Len(calls) /\ q \in Seqs /\ ~(q > Len(calls))
    <3>1. q \in 0..Len(calls) /\ q # None /\ Len(calls) \in Nat
      BY <1>1, <1>2, <2>1 DEF WorkOK, VarsInv
    <3>2. q \in 1..Len(calls)
      BY <3>1 DEF None
    <3> QED BY <1>1, <3>1, <3>2, AnswersType
  <2> HIDE DEF q
  <2>3. done' \in [Seqs -> {0, 1}] /\ returned' \in SUBSET Seqs
    BY <1>13, <2>1, <2>2
  <2>4. \A p \in 1..Len(calls) : p \in returned' \/ done'[p] = 1 => p \in returned \/ done[p] = 1
    <3>1. 1..Len(calls) \subseteq Seqs
      BY <1>1, AnswersType
    <3> QED BY <1>13, <2>1, <3>1
  <2>5. \A p \in Seqs : p > Len(calls) => done'[p] = done[p] /\ (p \in returned' <=> p \in returned)
    BY <1>13, <2>1, <2>2
  <2>6. Quiet(g, r)
    BY <1>4, <1>5, <1>6, <1>9, <1>12, <1>13, <2>3, <2>4, <2>5 DEF Quiet
  <2> QED BY <1>4, <1>7, <1>8, <1>10, <2>6, QuietStep
<1> QED BY <1>14, <1>15

\* A goroutine leaves its loop.
LEMMA TakeCloseSigStep ==
    ASSUME IInv, NEW g \in Loop, TakeCloseSig(g)
    PROVE  IInv'
<1> DEFINE s == g[1]
           r == [w[g] EXCEPT !.at = "stopped"]
<1>1. VarsInv /\ BoolInv /\ WorkInv /\ StopInv
  BY DEF IInv, BaseInv
<1>2. g \in Worker /\ s \in Service /\ g[2] \in 1..GoRouterNum[s] /\ g = <<s, g[2]>>
  BY WorkerFacts
<1>3. w[g] \in WorkRec /\ WorkOK(g, w[g], Len(calls)) /\ w[g].at = "select"
  BY <1>1, <1>2 DEF VarsInv, WorkInv, TakeCloseSig, Is
<1>4. r \in WorkRec /\ r.at = "stopped" /\ r.req = w[g].req /\ r.call = w[g].call
  BY <1>3 DEF WorkRec
<1>5. w' = [w EXCEPT ![g] = r]
  BY DEF TakeCloseSig
<1> HIDE DEF r
<1>6. WorkOK(g, r, Len(calls))
  BY <1>3, <1>4 DEF WorkOK
<1>7. BoolInv'
  BY <1>1 DEF TakeCloseSig, BoolInv
<1>8. /\ calls' = calls /\ callRequest' = callRequest /\ callRespone' = callRespone
      /\ nilReply' = nilReply /\ ran' = ran /\ cbRan' = cbRan /\ handled' = handled
      /\ done' = done /\ returned' = returned
      /\ gorouterNum' = [gorouterNum EXCEPT ![s] = @ - 1]
      /\ released' = IF gorouterNum[s] - 1 <= 0 THEN released \cup {s} ELSE released
  BY DEF TakeCloseSig, chans, counts
<1>9. /\ w'[g] = r /\ \A h \in Worker : h # g => w'[h] = w[h]
  BY <1>1, <1>2, <1>4, <1>5, GoStep
<1>10. /\ g[2] \in Left(s) /\ Left(s)' = Left(s) \ {g[2]}
       /\ \A t \in Service : t # s => Left(t)' = Left(t)
  <2>1. \A t \in Service : \A k \in 1..GoRouterNum[t] : <<t, k>> \in Worker
    BY WorkerFacts
  <2>2. g[2] \in Left(s)
    BY <1>2, <1>3 DEF Left
  <2>3. \A k \in 1..GoRouterNum[s] : k # g[2] => <<s, k>> # g
    BY <1>2
  <2>4. Left(s)' = Left(s) \ {g[2]}
    BY <1>2, <1>4, <1>9, <2>1, <2>3 DEF Left
  <2>5. ASSUME NEW t \in Service, t # s PROVE Left(t)' = Left(t)
    <3>1. \A k \in 1..GoRouterNum[t] : <<t, k>> # g
      BY <1>2, <2>5
    <3> QED BY <1>9, <2>1, <3>1 DEF Left
  <2> QED BY <2>2, <2>4, <2>5
<1>11. /\ Cardinality(Left(s)) \in Nat \ {0}
       /\ Cardinality(Left(s)') = Cardinality(Left(s)) - 1
  <2>1. GoRouterNum[s] \in Nat /\ 1 \in Int
    BY <1>2, ServiceAssumption
  <2>2. IsFiniteSet(1..GoRouterNum[s]) /\ Left(s) \in SUBSET (1..GoRouterNum[s])
    BY <2>1, FS_Interval DEF Left
  <2> QED BY <1>10, <2>2, CountDown
<1>12. /\ gorouterNum \in [Service -> Nat] /\ released \in SUBSET Service
       /\ gorouterNum[s] = Cardinality(Left(s))
  BY <1>1, <1>2 DEF VarsInv, StopInv
<1>13. /\ gorouterNum' \in [Service -> Nat] /\ released' \in SUBSET Service
       /\ gorouterNum'[s] = gorouterNum[s] - 1
       /\ \A t \in Service : t # s => gorouterNum'[t] = gorouterNum[t] /\ (t \in released' <=> t \in released)
  <2>1. gorouterNum[s] - 1 \in Nat
    BY <1>11, <1>12
  <2> QED BY <1>2, <1>8, <1>12, <2>1
<1>14. StopInv'
  <2> SUFFICES ASSUME NEW t \in Service
               PROVE  /\ gorouterNum'[t] = Cardinality(Left(t)')
                      /\ t \in released' => gorouterNum'[t] = 0
    BY DEF StopInv
  <2>1. CASE t = s
    <3>1. gorouterNum'[s] = Cardinality(Left(s)')
      BY <1>11, <1>12, <1>13
    <3>2. ASSUME s \in released' PROVE gorouterNum'[s] = 0
      <4>1. CASE s \in released
        BY <1>1, <1>2, <1>11, <1>12, <4>1 DEF StopInv
      <4>2. CASE s \notin released
        <5>1. gorouterNum[s] - 1 <= 0
          BY <1>8, <3>2, <4>2
        <5> QED BY <1>11, <1>12, <1>13, <5>1
      <4> QED BY <4>1, <4>2
    <3> QED BY <2>1, <3>1, <3>2
  <2>2. CASE t # s
    <3>1. Left(t)' = Left(t) /\ gorouterNum'[t] = gorouterNum[t] /\ (t \in released' <=> t \in released)
      BY <1>10, <1>13, <2>2
    <3> QED BY <1>1, <3>1 DEF StopInv
  <2> QED BY <2>1, <2>2
<1>15. \A q \in 1..Len(calls) :
           Answers(q)' \in Nat /\ Answers(q) \in Nat /\ Answers(q)' <= Answers(q)
  <2> SUFFICES ASSUME NEW q \in 1..Len(calls)
               PROVE  Answers(q)' \in Nat /\ Answers(q) \in Nat /\ Answers(q)' <= Answers(q)
    OBVIOUS
  <2>1. Answers(q) \in Nat
    BY <1>1, AnswersType
  <2>2. Answers(q)' = Answers(q)
    BY <1>8 DEF Answers
  <2> QED BY <2>1, <2>2
<1>16. /\ callRespone' \in [Service -> Seq(Seqs)]
       /\ \A t \in Service : Len(callRespone'[t]) <= QueueLen
       /\ cbRan' \in [Seqs -> Nat] /\ nilReply' \in SUBSET Seqs
       /\ done' \in [Seqs -> {0, 1}] /\ returned' \in SUBSET Seqs
  BY <1>1, <1>8 DEF VarsInv
<1>17. Quiet(g, r)
  <2> HIDE DEF s
  <2> QED BY <1>3, <1>4, <1>5, <1>8, <1>13, <1>15, <1>16 DEF Quiet
<1> QED BY <1>2, <1>4, <1>6, <1>7, <1>14, <1>17, QuietStep

\* A response is taken: the callback runs, or the process dies.
LEMMA TakeResponeStep ==
    ASSUME IInv, NEW g \in Loop, TakeRespone(g)
    PROVE  IInv'
<1> DEFINE s == g[1]
           x == Head(callRespone[s])
           r == [w[g] EXCEPT !.at = "run"]
<1>1. VarsInv /\ BoolInv /\ WorkInv /\ StopInv /\ ChanInv
  BY DEF IInv, BaseInv
<1>2. g \in Worker /\ s \in Service
  BY WorkerFacts
<1>3. w[g] \in WorkRec /\ WorkOK(g, w[g], Len(calls)) /\ w[g].at = "select"
  BY <1>1, <1>2 DEF VarsInv, WorkInv, TakeRespone, Is
<1>4. r \in WorkRec /\ r.at = "run" /\ r.req = w[g].req /\ r.call = w[g].call
  BY <1>3 DEF WorkRec
<1>5. w' = [w EXCEPT ![g] = r]
  BY DEF TakeRespone
<1> HIDE DEF r
<1>6. WorkOK(g, r, Len(calls))
  BY <1>3, <1>4 DEF WorkOK
<1>7. BoolInv'
  BY <1>1 DEF TakeRespone, stopVars, BoolInv
<1>8. /\ calls' = calls /\ callRequest' = callRequest /\ nilReply' = nilReply /\ ran' = ran
      /\ handled' = handled /\ done' = done /\ returned' = returned
      /\ gorouterNum' = gorouterNum /\ released' = released
      /\ callRespone' = [callRespone EXCEPT ![s] = Tail(@)]
  BY DEF TakeRespone, stopVars
<1>9. StopInv'
  <2>1. \A h \in Loop : w'[h].at = "stopped" <=> w[h].at = "stopped"
    <3>1. \A h \in Loop : h \in Worker
      BY WorkerFacts
    <3>2. w'[g] = r /\ \A h \in Worker : h # g => w'[h] = w[h]
      BY <1>1, <1>2, <1>4, <1>5, GoStep
    <3> QED BY <1>3, <1>4, <3>1, <3>2
  <2> QED BY <1>1, <1>8, <2>1, StopFrame
<1>10. callRespone[s] \in Seq(Seqs) /\ callRespone[s] # <<>> /\ Len(callRespone[s]) <= QueueLen
  BY <1>1, <1>2 DEF VarsInv, TakeRespone
<1>11. /\ x \in Seqs /\ On(callRespone[s], x) /\ Tail(callRespone[s]) \in Seq(Seqs)
       /\ \A q : On(Tail(callRespone[s]), q) => On(callRespone[s], q)
       /\ Len(Tail(callRespone[s])) <= QueueLen
  <2>1. /\ x \in Seqs /\ Tail(callRespone[s]) \in Seq(Seqs)
        /\ Len(callRespone[s]) \in Nat \ {0} /\ Len(Tail(callRespone[s])) = Len(callRespone[s]) - 1
    BY <1>10, SeqTail
  <2>2. On(callRespone[s], x) /\ \A q : On(Tail(callRespone[s]), q) => On(callRespone[s], q)
    BY <1>10, OnTail
  <2>3. Len(Tail(callRespone[s])) <= QueueLen
    BY <1>10, <2>1, ServiceAssumption
  <2> QED BY <2>1, <2>2, <2>3
<1>12. x \in 1..Len(calls) /\ calls[x].from = s
  BY <1>1, <1>2, <1>11 DEF ChanInv
<1>13. /\ callRespone' \in [Service -> Seq(Seqs)] /\ callRespone'[s] = Tail(callRespone[s])
       /\ \A t \in Service : t # s => callRespone'[t] = callRespone[t]
       /\ \A t \in Service : Len(callRespone'[t]) <= QueueLen
       /\ \A t \in Service, q \in Seqs : On(callRespone'[t], q) => On(callRespone[t], q)
  BY <1>1, <1>2, <1>8, <1>11 DEF VarsInv
<1>14. /\ cbRan \in [Seqs -> Nat] /\ cbRan' \in [Seqs -> Nat] /\ cbRan'[x] <= cbRan[x] + 1
       /\ \A q \in Seqs : q # x => cbRan'[q] = cbRan[q]
  <2>1. cbRan \in [Seqs -> Nat] /\ cbRan[x] \in Nat
    BY <1>1, <1>11 DEF VarsInv
  <2>2. CASE cbRan' = cbRan
    BY <2>1, <2>2
  <2>3. CASE cbRan' = [cbRan EXCEPT ![x] = @ + 1]
    <3> HIDE DEF x
    <3> QED BY <1>11, <2>1, <2>3
  <2> QED BY <2>2, <2>3 DEF TakeRespone
<1>15. \A q \in 1..Len(calls) :
           Answers(q)' \in Nat /\ Answers(q) \in Nat /\ Answers(q)' <= Answers(q)
  <2> SUFFICES ASSUME NEW q \in 1..Len(calls)
               PROVE  Answers(q)' \in Nat /\ Answers(q) \in Nat /\ Answers(q)' <= Answers(q)
    OBVIOUS
  <2> DEFINE f == calls[q].from
  <2>1. /\ Answers(q) \in Nat /\ q \in Seqs /\ f \in Service
        /\ Occ(callRespone[f], q) \in Nat /\ cbRan[q] \in Nat /\ cbRan'[q] \in Nat
    BY <1>1, <1>14, AnswersType
  <2>2. /\ Answers(q) = Occ(callRespone[f], q) + cbRan[q]
        /\ Answers(q)' = Occ(callRespone'[f], q) + cbRan'[q]
    BY <1>8 DEF Answers
  <2>3. Occ(callRespone'[f], q) \in Nat
    <3>1. callRespone'[f] \in Seq(Seqs)
      BY <1>13, <2>1
    <3> QED BY <3>1, OccType
  <2>4. CASE q = x
    <3>1. f = s
      BY <1>12, <2>4
    <3>2. Occ(Tail(callRespone[s]), x) + (IF x = Head(callRespone[s]) THEN 1 ELSE 0)
             = Occ(callRespone[s], x)
      BY <1>10, OccTail
    <3>3. Occ(callRespone'[f], q) + 1 = Occ(callRespone[f], q)
      BY <1>13, <2>4, <3>1, <3>2
    <3> HIDE DEF f, x
    <3> QED BY <1>14, <2>1, <2>2, <2>3, <2>4, <3>3
  <2>5. CASE q # x
    <3>1. cbRan'[q] = cbRan[q]
      BY <1>14, <2>1, <2>5
    <3>2. Occ(callRespone'[f], q) = Occ(callRespone[f], q)
      <4>1. CASE f = s
        <5>1. Occ(Tail(callRespone[s]), q) + (IF q = Head(callRespone[s]) THEN 1 ELSE 0)
                 = Occ(callRespone[s], q)
          BY <1>10, OccTail
        <5>2. Occ(Tail(callRespone[s]), q) + 0 = Occ(callRespone[s], q)
          BY <2>5, <5>1
        <5> QED BY <1>13, <2>3, <4>1, <5>2
      <4>2. CASE f # s
        BY <1>13, <2>1, <4>2
      <4> QED BY <4>1, <4>2
    <3> HIDE DEF f, x
    <3> QED BY <2>1, <2>2, <3>1, <3>2
  <2> QED BY <2>4, <2>5
<1>16. /\ done' \in [Seqs -> {0, 1}] /\ nilReply' \in SUBSET Seqs /\ returned' \in SUBSET Seqs
       /\ gorouterNum' \in [Service -> Nat] /\ released' \in SUBSET Service
  BY <1>1, <1>8 DEF VarsInv
<1>17. \A q \in Seqs : q > Len(calls) => cbRan'[q] = cbRan[q]
  <2>1. ~(x > Len(calls))
    BY <1>12
  <2> HIDE DEF x
  <2> QED BY <1>14, <2>1
<1>18. Quiet(g, r)
  <2> HIDE DEF s, x
  <2> QED BY <1>3, <1>4, <1>5, <1>8, <1>13, <1>14, <1>15, <1>16, <1>17 DEF Quiet
<1> QED BY <1>2, <1>4, <1>6, <1>7, <1>9, <1>18, QuietStep

-----------------------------------------------------------------------------
\* Who made call q and where it is handled in turn.
LEMMA CallOwners ==
    ASSUME VarsInv, NEW q \in 1..Len(calls)
    PROVE  /\ q \in Seqs /\ calls[q] \in CallRec /\ calls[q].by \in Worker
           /\ calls[q].to \in Service /\ Server(q) \in Worker /\ Server(q) \in Loop
<1>1. q \in Seqs /\ calls[q] \in CallRec
  BY AnswersType
<1> QED BY <1>1, WorkerFacts DEF CallRec, Server

\* The oldest request is taken from the channel.
LEMMA TakeRequestStep ==
    ASSUME IInv, NEW g \in Loop, TakeRequest(g)
    PROVE  IInv'
<1> DEFINE s == g[1]
           x == Head(callRequest[s])
           r == [w[g] EXCEPT !.at = "handle", !.req = x]
<1>1. /\ BaseInv /\ VarsInv /\ BoolInv /\ WorkInv /\ MutiInv /\ ChanInv /\ PlaceInv /\ FreshInv
      /\ OnceInv /\ LaterInv /\ StopInv /\ OrderInv
  BY DEF IInv, BaseInv
<1>2. g \in Worker /\ s \in Service /\ g[2] \in 1..GoRouterNum[s] /\ g = <<s, g[2]>>
  BY WorkerFacts
<1>3. /\ w[g] \in WorkRec /\ WorkOK(g, w[g], Len(calls)) /\ w[g].at = "select" /\ w[g].req = None
  BY <1>1, <1>2 DEF VarsInv, WorkInv, TakeRequest, Is, WorkOK
<1>4. callRequest[s] \in Seq(Seqs) /\ callRequest[s] # <<>> /\ Len(callRequest[s]) <= QueueLen
  BY <1>1, <1>2 DEF VarsInv, TakeRequest
<1>5. /\ x \in Seqs /\ On(callRequest[s], x) /\ Tail(callRequest[s]) \in Seq(Seqs)
      /\ \A q : On(callRequest[s], q) <=> On(Tail(callRequest[s]), q) \/ q = x
      /\ Once(Tail(callRequest[s])) /\ ~On(Tail(callRequest[s]), x)
      /\ InOrder(calls, Tail(callRequest[s]))
      /\ \A q : On(Tail(callRequest[s]), q) /\ calls[q].by = calls[x].by => x < q
      /\ Len(Tail(callRequest[s])) <= QueueLen
  <2>1. /\ x \in Seqs /\ Tail(callRequest[s]) \in Seq(Seqs)
        /\ Len(callRequest[s]) \in Nat \ {0} /\ Len(Tail(callRequest[s])) = Len(callRequest[s]) - 1
    BY <1>4, SeqTail
  <2>2. Once(callRequest[s]) /\ InOrder(calls, callRequest[s])
    BY <1>1, <1>2 DEF PlaceInv, QueuedInv, OrderInv
  <2>3. /\ On(callRequest[s], x) /\ \A q : On(callRequest[s], q) <=> On(Tail(callRequest[s]), q) \/ q = x
        /\ Once(Tail(callRequest[s])) /\ ~On(Tail(callRequest[s]), x)
        /\ InOrder(calls, Tail(callRequest[s]))
        /\ \A q : On(Tail(callRequest[s]), q) /\ calls[q].by = calls[x].by => x < q
    BY <1>4, <2>2, OnTail
  <2>4. Len(Tail(callRequest[s])) <= QueueLen
    BY <1>4, <2>1, ServiceAssumption
  <2> QED BY <2>1, <2>3, <2>4
<1>6. r \in WorkRec /\ r.at = "handle" /\ r.req = x /\ r.call = w[g].call
  BY <1>3, <1>5 DEF WorkRec
<1>7. w' = [w EXCEPT ![g] = r]
  BY DEF TakeRequest
<1>8. w' \in [Worker -> WorkRec] /\ w'[g] = r /\ \A h \in Worker : h # g => w'[h] = w[h]
  <2> HIDE DEF r
  <2> QED BY <1>1, <1>2, <1>6, <1>7, GoStep
<1>9. /\ calls' = calls /\ callRespone' = callRespone /\ nilReply' = nilReply /\ ran' = ran
      /\ cbRan' = cbRan /\ handled' = handled /\ done' = done /\ returned' = returned
      /\ gorouterNum' = gorouterNum /\ released' = released
      /\ callRequest' = [callRequest EXCEPT ![s] = Tail(@)]
  BY DEF TakeRequest, stopVars, counts
<1>10. /\ callRequest' \in [Service -> Seq(Seqs)] /\ callRequest'[s] = Tail(callRequest[s])
       /\ \A t \in Service : t # s => callRequest'[t] = callRequest[t]
  BY <1>1, <1>2, <1>5, <1>9 DEF VarsInv
<1>11. BoolInv'
  BY <1>1 DEF TakeRequest, stopVars, BoolInv
<1>12. x \in 1..Len(calls) /\ calls[x].to = s /\ ~calls[x].muti /\ x # None
  <2>1. x \in 1..Len(calls) /\ calls[x].to = s /\ ~calls[x].muti
    BY <1>1, <1>2, <1>5 DEF ChanInv
  <2> QED BY <1>5, <2>1, WorkerFacts DEF None
<1> HIDE DEF x, r
<1>13. \A t \in Service : \A q : On(callRequest'[t], q) => On(callRequest[t], q)
  BY <1>5, <1>10
<1>14. \A t \in Service : Len(callRequest'[t]) <= QueueLen
  BY <1>1, <1>5, <1>10 DEF VarsInv
<1>15. VarsInv'
  BY <1>1, <1>8, <1>9, <1>10, <1>14 DEF VarsInv
<1>16. WorkInv'
  <2>1. WorkOK(g, r, Len(calls))
    BY <1>3, <1>6, <1>12 DEF WorkOK
  <2>2. ASSUME NEW h \in Worker PROVE WorkOK(h, w'[h], Len(calls))
    BY <1>1, <1>8, <2>1 DEF WorkInv
  <2>3. ASSUME NEW h \in Worker, NEW q \in Seqs, w'[h].req = q PROVE ReqOK(h, q)
    <3>1. CASE h = g
      BY <1>6, <1>8, <1>12, <2>3, <3>1 DEF ReqOK
    <3>2. CASE h # g
      BY <1>1, <1>8, <2>3, <3>2 DEF WorkInv
    <3> QED BY <3>1, <3>2
  <2> QED BY <1>9, <2>2, <2>3 DEF WorkInv, ReqOK
<1>17. MutiInv' /\ ChanInv'
  BY <1>1, <1>9, <1>13 DEF MutiInv, ChanInv
<1>18. PlaceInv'
  <2>1. PushInv'
    <3> SUFFICES ASSUME NEW h \in Worker, w'[h].at = "push"
                 PROVE  /\ \A v \in Worker : w'[v].req # w'[h].call
                        /\ \A v \in Worker : w'[v].at = "push" /\ w'[v].call = w'[h].call => v = h
                        /\ \A t \in Service : ~On(callRequest'[t], w'[h].call)
      BY DEF PushInv
    <3>1. h # g /\ w'[h] = w[h]
      BY <1>6, <1>8
    <3>2. /\ \A v \in Worker : w[v].req # w[h].call
          /\ \A v \in Worker : w[v].at = "push" /\ w[v].call = w[h].call => v = h
          /\ \A t \in Service : ~On(callRequest[t], w[h].call)
      BY <1>1, <3>1 DEF PlaceInv, PushInv
    <3>3. x # w[h].call
      BY <1>2, <1>5, <3>2
    <3> QED BY <1>6, <1>8, <1>13, <3>1, <3>2, <3>3
  <2>2. QueuedInv'
    <3>1. ASSUME NEW t \in Service PROVE Once(callRequest'[t])
      BY <1>1, <1>5, <1>10 DEF PlaceInv, QueuedInv
    <3>2. ASSUME NEW t \in Service, NEW h \in Worker, w'[h].req # None
          PROVE  ~On(callRequest'[t], w'[h].req)
      <4>1. CASE h # g
        BY <1>1, <1>8, <1>13, <3>2, <4>1 DEF PlaceInv, QueuedInv
      <4>2. CASE h = g /\ t = s
        BY <1>5, <1>6, <1>8, <1>10, <4>2
      <4>3. CASE h = g /\ t # s
        <5>1. ~On(callRequest[t], x)
          BY <1>1, <1>5, <1>12, <4>3 DEF ChanInv
        <5> QED BY <1>6, <1>8, <1>10, <4>3, <5>1
      <4> QED BY <4>1, <4>2, <4>3
    <3> QED BY <3>1, <3>2 DEF QueuedInv
  <2>3. \A h \in Worker : w[h].req # x
    <3>1. \A h \in Worker : w[h].req # None => ~On(callRequest[s], w[h].req)
      BY <1>1, <1>2 DEF PlaceInv, QueuedInv
    <3> QED BY <1>5, <1>12, <3>1
  <2>4. HeldInv'
    BY <1>1, <1>6, <1>8, <2>3 DEF PlaceInv, HeldInv
  <2> QED BY <2>1, <2>2, <2>4 DEF PlaceInv
<1>19. \A q \in 1..Len(calls) :
           /\ SelfRun(q)' = SelfRun(q) /\ Twice(q)' = Twice(q) /\ Answers(q)' = Answers(q)
           /\ (Fresh(q)' <=> Fresh(q))
  BY <1>9 DEF SelfRun, Twice, Answers, Fresh
<1>20. \A h \in Worker, q \in Seqs : w[h].req = q \/ w[h].call = q => q \in 1..Len(calls)
  BY <1>1, WorkerFacts DEF WorkInv, WorkOK, VarsInv
<1>21. FreshInv'
  <2>1. ASSUME NEW h \in Worker, NEW q \in Seqs,
               (w'[h].at = "push" /\ w'[h].call = q) \/ (w'[h].at = "handle" /\ w'[h].req = q)
        PROVE  Fresh(q)'
    <3>1. CASE h = g
      <4>1. q = x /\ Fresh(x)
        BY <1>1, <1>2, <1>5, <1>6, <1>8, <2>1, <3>1 DEF FreshInv
      <4> QED BY <1>12, <1>19, <4>1
    <3>2. CASE h # g
      <4>1. Fresh(q) /\ q \in 1..Len(calls)
        BY <1>1, <1>8, <1>20, <2>1, <3>2 DEF FreshInv
      <4> QED BY <1>19, <4>1
    <3> QED BY <3>1, <3>2
  <2>2. ASSUME NEW t \in Service, NEW q \in Seqs, On(callRequest'[t], q) PROVE Fresh(q)'
    <3>1. On(callRequest[t], q)
      BY <1>13, <2>2
    <3>2. Fresh(q) /\ q \in 1..Len(calls)
      BY <1>1, <3>1 DEF FreshInv, ChanInv
    <3> QED BY <1>19, <3>2
  <2> QED BY <2>1, <2>2 DEF FreshInv
<1>22. OnceInv'
  <2>1. ASSUME NEW q \in 1..Len(calls)
        PROVE  ran'[q] <= SelfRun(q)' + 1 /\ Answers(q)' <= SelfRun(q)' + 1 + Twice(q)'
    BY <1>1, <1>9, <1>19 DEF OnceInv
  <2>2. ASSUME NEW h \in Worker, NEW q \in Seqs, w'[h].req = q, w'[h].at # "handle"
        PROVE  Answers(q)' <= SelfRun(q)' + Twice(q)'
    <3>1. h # g /\ w'[h] = w[h]
      BY <1>6, <1>8, <2>2
    <3>2. q \in 1..Len(calls)
      BY <1>20, <2>2, <3>1
    <3> QED BY <1>1, <1>19, <2>2, <3>1, <3>2 DEF OnceInv
  <2> QED BY <1>9, <2>1, <2>2 DEF OnceInv
<1>23. LaterInv'
  BY <1>1, <1>9 DEF LaterInv
<1>24. StopInv'
  <2>1. \A h \in Loop : w'[h].at = "stopped" <=> w[h].at = "stopped"
    <3>1. \A h \in Loop : h \in Worker
      BY WorkerFacts
    <3> QED BY <1>3, <1>6, <1>8, <3>1
  <2> QED BY <1>1, <1>9, <2>1, StopFrame
<1>25. \A q \in 1..Len(calls) : /\ (InTurn(q)' <=> InTurn(q)) /\ (Taken(q) => Taken(q)')
                                /\ (Taken(q)' => Taken(q) \/ (Server(q) = g /\ q = x))
  <2> SUFFICES ASSUME NEW q \in 1..Len(calls)
               PROVE  /\ (InTurn(q)' <=> InTurn(q)) /\ (Taken(q) => Taken(q)')
                      /\ (Taken(q)' => Taken(q) \/ (Server(q) = g /\ q = x))
    OBVIOUS
  <2>1. Server(q) \in Worker /\ q \in Seqs /\ q # None
    BY <1>1, CallOwners, WorkerFacts DEF None
  <2>2. InTurn(q)' <=> InTurn(q)
    BY <1>9 DEF InTurn
  <2>3. Server(q)' = Server(q)
    BY <1>9 DEF Server
  <2>4. CASE Server(q) = g
    BY <1>3, <1>6, <1>8, <1>9, <2>1, <2>2, <2>3, <2>4 DEF Taken
  <2>5. CASE Server(q) # g
    BY <1>8, <1>9, <2>1, <2>2, <2>3, <2>5 DEF Taken
  <2> QED BY <2>4, <2>5
<1>26. LastInv'
  BY <1>1, <1>6, <1>8, <1>9 DEF OrderInv, LastInv
<1>27. PlacedInv'
  <2> SUFFICES ASSUME NEW q \in 1..Len(calls), InTurn(q)
               PROVE  \/ w'[calls[q].by].at = "push" /\ w'[calls[q].by].call = q
                      \/ On(callRequest'[calls[q].to], q)
                      \/ Taken(q)'
    BY <1>9, <1>25 DEF PlacedInv
  <2>1. \/ w[calls[q].by].at = "push" /\ w[calls[q].by].call = q
        \/ On(callRequest[calls[q].to], q)
        \/ Taken(q)
    BY <1>1 DEF OrderInv, PlacedInv
  <2>2. calls[q].by \in Worker /\ calls[q].to \in Service
    BY <1>1, CallOwners
  <2>3. CASE w[calls[q].by].at = "push" /\ w[calls[q].by].call = q
    BY <1>3, <1>8, <2>2, <2>3
  <2>4. CASE On(callRequest[calls[q].to], q)
    <3>1. CASE calls[q].to # s \/ q # x
      BY <1>5, <1>10, <2>2, <2>4, <3>1
    <3>2. CASE calls[q].to = s /\ q = x
      <4>1. g[2] = 1
        BY <1>2, <3>2 DEF InTurn
      <4>2. Server(q) = g
        BY <1>2, <3>2, <4>1 DEF Server
      <4> QED BY <1>6, <1>8, <1>9, <3>2, <4>2 DEF Taken, Server
    <3> QED BY <3>1, <3>2
  <2> QED BY <1>25, <2>1, <2>3, <2>4
<1>28. TurnInv'
  <2> SUFFICES ASSUME NEW p \in 1..Len(calls), NEW q \in 1..Len(calls), p < q,
                      calls[p].by = calls[q].by, calls[p].to = calls[q].to,
                      InTurn(p), InTurn(q), Taken(q)'
               PROVE  p \in handled
    BY <1>9, <1>25 DEF TurnInv
  <2>1. CASE Taken(q)
    BY <1>1, <2>1 DEF OrderInv, TurnInv
  <2>2. CASE Server(q) = g /\ q = x
    <3>1. calls[p].to = s /\ Server(p) = g /\ calls[p].by \in Worker /\ p \in Seqs /\ p # None
      BY <1>1, <1>12, <2>2, CallOwners, WorkerFacts DEF Server, None
    <3>2. ~(w[calls[p].by].at = "push" /\ w[calls[p].by].call = p)
      <4>1. ASSUME w[calls[p].by].at = "push", w[calls[p].by].call = p PROVE q <= p
        BY <1>1, <3>1, <4>1 DEF OrderInv, LastInv
      <4>2. p \in Nat /\ q \in Nat
        BY <1>1, CallOwners, WorkerFacts
      <4> QED BY <4>1, <4>2
    <3>3. ~On(callRequest[s], p)
      <4>1. ASSUME On(callRequest[s], p) PROVE FALSE
        <5>1. p # x /\ p \in Nat /\ q \in Nat
          BY <1>1, <2>2, CallOwners, WorkerFacts
        <5>2. On(Tail(callRequest[s]), p)
          BY <1>5, <4>1, <5>1
        <5>3. x < p
          BY <1>5, <2>2, <5>2
        <5> QED BY <2>2, <5>1, <5>3
      <4> QED BY <4>1
    <3>4. Taken(p)
      BY <1>1, <3>1, <3>2, <3>3 DEF OrderInv, PlacedInv
    <3> QED BY <1>3, <3>1, <3>4 DEF Taken
  <2> QED BY <1>25, <2>1, <2>2
<1>29. ReturnInv'
  BY <1>1, <1>9, <1>25 DEF OrderInv, ReturnInv
<1>30. \A t \in Service : InOrder(calls', callRequest'[t])
  BY <1>1, <1>5, <1>9, <1>10 DEF OrderInv
<1>31. OrderInv'
  BY <1>26, <1>27, <1>28, <1>29, <1>30 DEF OrderInv
<1> QED BY <1>11, <1>15, <1>16, <1>17, <1>18, <1>21, <1>22, <1>23, <1>24, <1>31 DEF IInv, BaseInv

-----------------------------------------------------------------------------
\* Call x is answered at most a times; the other channels keep what they hold.
Answered(x, a) ==
    /\ calls' = calls /\ callRequest' = callRequest /\ cbRan' = cbRan
    /\ callRespone' \in [Service -> Seq(Seqs)] /\ \A s \in Service : Len(callRespone'[s]) <= QueueLen
    /\ \A s \in Service, q \in Seqs :
           On(callRespone'[s], q) => On(callRespone[s], q) \/ (q = x /\ s = calls[x].from)
    /\ done' \in [Seqs -> {0, 1}] /\ nilReply' \in SUBSET Seqs
    /\ \A q \in Seqs : done'[q] = 1 => done[q] = 1 \/ q = x
    /\ \A q \in 1..Len(calls) : /\ Answers(q) \in Nat /\ Answers(q)' \in Nat
                                /\ Answers(q)' <= Answers(q) + (IF q = x THEN a ELSE 0)

\* No answer is given.
LEMMA NotAnswered ==
    ASSUME VarsInv, NEW x, calls' = calls, cbRan' = cbRan, UNCHANGED chans
    PROVE  Answered(x, 0)
<1>1. callRequest' = callRequest /\ callRespone' = callRespone /\ done' = done /\ nilReply' = nilReply
  BY DEF chans
<1>2. ASSUME NEW q \in 1..Len(calls)
      PROVE  /\ Answers(q) \in Nat /\ Answers(q)' \in Nat
             /\ Answers(q)' <= Answers(q) + (IF q = x THEN 0 ELSE 0)
  <2>1. Answers(q) \in Nat
    BY AnswersType
  <2>2. Answers(q)' = Answers(q)
    BY <1>1 DEF Answers
  <2> QED BY <2>1, <2>2
<1> QED BY <1>1, <1>2 DEF Answered, VarsInv

\* requestHandle answers call x.
LEMMA RequestHandleAnswers ==
    ASSUME VarsInv, NEW x \in 1..Len(calls), NEW isNil, RequestHandle(x, isNil),
           calls' = calls, cbRan' = cbRan
    PROVE  Answered(x, 1)
<1> DEFINE f == calls[x].from
<1>1. /\ callRequest' = callRequest /\ done \in [Seqs -> {0, 1}] /\ nilReply \in SUBSET Seqs
      /\ callRespone \in [Service -> Seq(Seqs)] /\ \A s \in Service : Len(callRespone[s]) <= QueueLen
  BY DEF RequestHandle, chans, VarsInv
<1>2. x \in Seqs /\ f \in Service /\ callRespone[f] \in Seq(Seqs)
  BY AnswersType
<1>3. CASE callRespone' = callRespone
  <2>1. /\ done' \in [Seqs -> {0, 1}] /\ nilReply' \in SUBSET Seqs
        /\ \A q \in Seqs : done'[q] = 1 => done[q] = 1 \/ q = x
    BY <1>1, <1>2 DEF RequestHandle, chans
  <2>2. ASSUME NEW q \in 1..Len(calls)
        PROVE  /\ Answers(q) \in Nat /\ Answers(q)' \in Nat
               /\ Answers(q)' <= Answers(q) + (IF q = x THEN 1 ELSE 0)
    <3>1. Answers(q) \in Nat
      BY AnswersType
    <3>2. Answers(q)' = Answers(q)
      BY <1>3 DEF Answers
    <3> QED BY <3>1, <3>2
  <2> QED BY <1>1, <1>3, <2>1, <2>2 DEF Answered
<1>4. CASE /\ Len(callRespone[f]) < QueueLen /\ done' = done
           /\ callRespone' = [callRespone EXCEPT ![f] = Append(@, x)]
           /\ nilReply' = IF isNil THEN nilReply \cup {x} ELSE nilReply \ {x}
  <2>1. /\ Append(callRespone[f], x) \in Seq(Seqs) /\ Len(callRespone[f]) \in Nat
        /\ Len(Append(callRespone[f], x)) = Len(callRespone[f]) + 1
    BY <1>2, SeqAppend
  <2>2. Len(Append(callRespone[f], x)) <= QueueLen
    BY <1>4, <2>1, ServiceAssumption
  <2>3. \A q : On(Append(callRespone[f], x), q) <=> On(callRespone[f], q) \/ q = x
    BY <1>2, OnAppend
  <2>4. nilReply' \in SUBSET Seqs
    BY <1>1, <1>2, <1>4
  <2> HIDE DEF f
  <2>5. /\ callRespone' \in [Service -> Seq(Seqs)] /\ callRespone'[f] = Append(callRespone[f], x)
        /\ \A s \in Service : s # f => callRespone'[s] = callRespone[s]
    BY <1>1, <1>2, <1>4, <2>1
  <2>6. \A s \in Service : Len(callRespone'[s]) <= QueueLen
    BY <1>1, <2>2, <2>5
  <2>7. \A s \in Service, q \in Seqs :
            On(callRespone'[s], q) => On(callRespone[s], q) \/ (q = x /\ s = f)
    BY <2>3, <2>5
  <2>8. ASSUME NEW q \in 1..Len(calls)
        PROVE  /\ Answers(q) \in Nat /\ Answers(q)' \in Nat
               /\ Answers(q)' <= Answers(q) + (IF q = x THEN 1 ELSE 0)
    <3> DEFINE h == calls[q].from
               a == IF q = x THEN 1 ELSE 0
    <3>1. /\ h \in Service /\ Occ(callRespone[h], q) \in Nat /\ cbRan[q] \in Nat
      BY AnswersType
    <3>2. /\ Answers(q) = Occ(callRespone[h], q) + cbRan[q]
          /\ Answers(q)' = Occ(callRespone'[h], q) + cbRan[q]
      BY DEF Answers
    <3>3. a \in {0, 1}
      OBVIOUS
    <3>4. CASE h = f
      <4>1. Occ(Append(callRespone[f], x), q) = Occ(callRespone[f], q) + (IF q = x THEN 1 ELSE 0)
        <5> HIDE DEF h, a
        <5>1. callRespone[f] \in Seq(Seqs) /\ x \in Seqs
          BY <1>2 DEF f
        <5> QED BY <5>1, OccAppend
      <4>2. Occ(callRespone'[h], q) = Occ(callRespone[h], q) + a
        BY <2>5, <3>4, <4>1
      <4> HIDE DEF h, a
      <4>3. /\ Answers(q) \in Nat /\ Answers(q)' \in Nat /\ Answers(q)' <= Answers(q) + a
        BY <3>1, <3>2, <3>3, <4>2
      <4> QED BY <4>3 DEF a
    <3>5. CASE h # f
      <4>1. Occ(callRespone'[h], q) = Occ(callRespone[h], q)
        BY <2>5, <3>1, <3>5
      <4> HIDE DEF h, a
      <4>2. /\ Answers(q) \in Nat /\ Answers(q)' \in Nat /\ Answers(q)' <= Answers(q) + a
        BY <3>1, <3>2, <3>3, <4>1
      <4> QED BY <4>2 DEF a
    <3> QED BY <3>4, <3>5
  <2> QED BY <1>1, <1>4, <2>4, <2>5, <2>6, <2>7, <2>8 DEF Answered, f
<1> QED BY <1>3, <1>4 DEF RequestHandle, chans

\* Goroutine g goes on with its request x, which it has answered a times.
GoesOn(g, x, r, a) ==
    /\ w[g].at = "handle" /\ r.at = "run" /\ r.req = x /\ r.call = w[g].call
    /\ a <= Twice(x) /\ ran' = [ran EXCEPT ![x] = @ + 1] /\ handled' = handled

\* It answers x and its handler returns.
Returns(g, x, r, a) ==
    /\ w[g].at \in {"handle", "run"} /\ r.at = (IF g \in Loop THEN "select" ELSE "none")
    /\ r.req = None /\ r.call = None
    /\ a = 1 /\ ran' = ran /\ handled' = handled \cup {x}

\* A goroutine g handles its request x; its record becomes r.
Handling(g, x, r, a) ==
    /\ w' = [w EXCEPT ![g] = r] /\ w[g].req = x /\ a \in {0, 1} /\ Answered(x, a)
    /\ returned' = returned /\ gorouterNum' = gorouterNum /\ released' = released
    /\ GoesOn(g, x, r, a) \/ Returns(g, x, r, a)

\* Such a step keeps the invariant.
LEMMA HandlingStep ==
    ASSUME IInv, NEW g \in Worker, NEW x \in 1..Len(calls), NEW r \in WorkRec, NEW a,
           Handling(g, x, r, a), BoolInv'
    PROVE  IInv'
<1>1. /\ BaseInv /\ VarsInv /\ BoolInv /\ WorkInv /\ MutiInv /\ ChanInv /\ PlaceInv /\ FreshInv
      /\ OnceInv /\ LaterInv /\ StopInv /\ OrderInv
  BY DEF IInv, BaseInv
<1>2. /\ w' = [w EXCEPT ![g] = r] /\ w[g].req = x /\ a \in {0, 1} /\ Answered(x, a)
      /\ returned' = returned /\ gorouterNum' = gorouterNum /\ released' = released
      /\ GoesOn(g, x, r, a) \/ Returns(g, x, r, a)
  BY DEF Handling
<1>3. /\ calls' = calls /\ callRequest' = callRequest /\ cbRan' = cbRan
  BY <1>2 DEF Answered
<1>4. w' \in [Worker -> WorkRec] /\ w'[g] = r /\ \A h \in Worker : h # g => w'[h] = w[h]
  BY <1>1, <1>2, GoStep
<1>5. /\ x \in Seqs /\ x # None /\ ~(x > Len(calls)) /\ Len(calls) \in Nat
      /\ WorkOK(g, w[g], Len(calls)) /\ ReqOK(g, x)
      /\ \A q \in Seqs : q # None
  <2>1. x \in Seqs /\ Len(calls) \in Nat /\ x \in Nat \ {0} /\ \A q \in Seqs : q # None
    BY <1>1, AnswersType, WorkerFacts DEF VarsInv, None
  <2>2. WorkOK(g, w[g], Len(calls)) /\ ReqOK(g, x)
    BY <1>1, <1>2, <2>1 DEF WorkInv
  <2> QED BY <2>1, <2>2
<1>6. /\ w[g].at \in {"handle", "run"} /\ r.at \in {"run", "select", "none"}
      /\ r.req \in {x, None}
  BY <1>2 DEF GoesOn, Returns
<1>7. /\ ran' \in [Seqs -> Nat] /\ handled' \in SUBSET Seqs
      /\ \A q \in Seqs : q # x => ran'[q] = ran[q] /\ (q \in handled' <=> q \in handled)
      /\ handled \subseteq handled'
  <2>1. ran \in [Seqs -> Nat] /\ handled \in SUBSET Seqs /\ ran[x] + 1 \in Nat
    BY <1>1, <1>5 DEF VarsInv
  <2>2. CASE ran' = [ran EXCEPT ![x] = @ + 1] /\ handled' = handled
    BY <1>5, <2>1, <2>2
  <2>3. CASE ran' = ran /\ handled' = handled \cup {x}
    BY <1>5, <2>1, <2>3
  <2> QED BY <1>2, <2>2, <2>3 DEF GoesOn, Returns
<1>8. VarsInv'
  BY <1>1, <1>2, <1>3, <1>4, <1>7 DEF VarsInv, Answered
<1>9. WorkInv'
  <2>1. WorkOK(g, r, Len(calls))
    <3>1. CASE GoesOn(g, x, r, a)
      BY <1>2, <1>5, <3>1 DEF WorkOK, GoesOn
    <3>2. CASE Returns(g, x, r, a)
      <4>1. 0 \in 0..Len(calls)
        BY <1>5
      <4> QED BY <1>2, <1>5, <3>2, <4>1 DEF WorkOK, Returns, None
    <3> QED BY <1>2, <3>1, <3>2
  <2>2. ASSUME NEW h \in Worker PROVE WorkOK(h, w'[h], Len(calls))
    BY <1>1, <1>4, <2>1 DEF WorkInv
  <2>3. ASSUME NEW h \in Worker, NEW q \in Seqs, w'[h].req = q PROVE ReqOK(h, q)
    <3>1. CASE h = g
      <4>1. q = x
        BY <1>4, <1>5, <1>6, <2>3, <3>1
      <4> QED BY <1>5, <3>1, <4>1
    <3>2. CASE h # g
      BY <1>1, <1>4, <2>3, <3>2 DEF WorkInv
    <3> QED BY <3>1, <3>2
  <2> QED BY <1>3, <2>2, <2>3 DEF WorkInv, ReqOK
<1>10. MutiInv'
  BY <1>1, <1>3 DEF MutiInv
<1>11. ChanInv'
  <2>1. ASSUME NEW s \in Service, NEW q \in Seqs, On(callRespone'[s], q)
        PROVE  q \in 1..Len(calls) /\ calls[q].from = s
    BY <1>1, <1>2, <2>1 DEF Answered, ChanInv
  <2> QED BY <1>1, <1>3, <2>1 DEF ChanInv
<1>12. /\ \A h \in Worker : w[h].req = x => h = g
       /\ \A h \in Worker : w[h].at = "push" => w[h].call # x
       /\ \A s \in Service : ~On(callRequest[s], x)
  BY <1>1, <1>2, <1>5 DEF PlaceInv, HeldInv, PushInv, QueuedInv
<1>13. \A h \in Worker : /\ (w'[h].at = "push" => h # g /\ w[h].at = "push" /\ w'[h].call = w[h].call)
                         /\ (w'[h].at = "handle" => h # g /\ w[h].at = "handle")
                         /\ (w'[h].req = w[h].req \/ w'[h].req = None)
  BY <1>2, <1>4, <1>6
<1>14. PlaceInv'
  <2>1. PushInv'
    <3> SUFFICES ASSUME NEW h \in Worker, w'[h].at = "push"
                 PROVE  /\ \A v \in Worker : w'[v].req # w'[h].call
                        /\ \A v \in Worker : w'[v].at = "push" /\ w'[v].call = w'[h].call => v = h
                        /\ \A s \in Service : ~On(callRequest[s], w'[h].call)
      BY <1>3 DEF PushInv
    <3>1. w[h].at = "push" /\ w'[h].call = w[h].call
      BY <1>13
    <3>2. w[h].call # None
      BY <1>1, <3>1 DEF WorkInv, WorkOK
    <3> QED BY <1>1, <1>13, <3>1, <3>2 DEF PlaceInv, PushInv
  <2>2. QueuedInv'
    BY <1>1, <1>3, <1>13 DEF PlaceInv, QueuedInv
  <2>3. HeldInv'
    BY <1>1, <1>13 DEF PlaceInv, HeldInv
  <2> QED BY <2>1, <2>2, <2>3 DEF PlaceInv
<1>15. \A q \in 1..Len(calls) :
           /\ SelfRun(q)' = SelfRun(q) /\ Twice(q)' = Twice(q) /\ SelfRun(q) \in {0, 1}
           /\ Twice(q) \in {0, 1} /\ Answers(q) \in Nat /\ Answers(q)' \in Nat
           /\ (q # x => Answers(q)' <= Answers(q)) /\ (q = x => Answers(q)' <= Answers(q) + a)
  <2>1. \A q \in 1..Len(calls) :
           /\ SelfRun(q)' = SelfRun(q) /\ Twice(q)' = Twice(q) /\ SelfRun(q) \in {0, 1}
           /\ Twice(q) \in {0, 1}
    BY <1>3 DEF SelfRun, Twice
  <2>2. ASSUME NEW q \in 1..Len(calls)
        PROVE  /\ Answers(q) \in Nat /\ Answers(q)' \in Nat
               /\ (q # x => Answers(q)' <= Answers(q)) /\ (q = x => Answers(q)' <= Answers(q) + a)
    <3>1. /\ Answers(q) \in Nat /\ Answers(q)' \in Nat
          /\ Answers(q)' <= Answers(q) + (IF q = x THEN a ELSE 0)
      BY <1>2 DEF Answered
    <3> QED BY <3>1
  <2> QED BY <2>1, <2>2
<1>16. \A q \in 1..Len(calls) : q # x /\ Fresh(q) => Fresh(q)'
  <2> SUFFICES ASSUME NEW q \in 1..Len(calls), q # x, Fresh(q) PROVE Fresh(q)'
    OBVIOUS
  <2>1. /\ SelfRun(q)' = SelfRun(q) /\ SelfRun(q) \in {0, 1} /\ Answers(q)' \in Nat
        /\ Answers(q) \in Nat /\ Answers(q)' <= Answers(q) /\ Answers(q) <= SelfRun(q)
    BY <1>15 DEF Fresh
  <2>2. ran'[q] <= SelfRun(q)
    BY <1>1, <1>7, AnswersType DEF Fresh
  <2> QED BY <2>1, <2>2 DEF Fresh
<1>17. \A h \in Worker, q \in Seqs : w[h].req = q \/ w[h].call = q => q \in 1..Len(calls)
  BY <1>1, WorkerFacts DEF WorkInv, WorkOK, VarsInv
<1>18. FreshInv'
  <2>1. ASSUME NEW h \in Worker, NEW q \in Seqs,
               (w'[h].at = "push" /\ w'[h].call = q) \/ (w'[h].at = "handle" /\ w'[h].req = q)
        PROVE  Fresh(q)'
    <3>1. (w[h].at = "push" /\ w[h].call = q) \/ (w[h].at = "handle" /\ w[h].req = q)
      BY <1>4, <1>13, <2>1
    <3>2. q # x
      BY <1>12, <1>13, <2>1, <3>1
    <3>3. Fresh(q) /\ q \in 1..Len(calls)
      BY <1>1, <1>17, <3>1 DEF FreshInv
    <3> QED BY <1>16, <3>2, <3>3
  <2>2. ASSUME NEW t \in Service, NEW q \in Seqs, On(callRequest[t], q) PROVE Fresh(q)'
    BY <1>1, <1>12, <1>16, <2>2 DEF FreshInv, ChanInv
  <2> QED BY <1>3, <2>1, <2>2 DEF FreshInv
<1>19. Answers(x) <= SelfRun(x) + Twice(x)
  <2>1. CASE w[g].at = "handle"
    <3>1. Answers(x) <= SelfRun(x)
      BY <1>1, <1>2, <1>5, <2>1 DEF FreshInv, Fresh
    <3>2. Answers(x) \in Nat /\ SelfRun(x) \in {0, 1} /\ Twice(x) \in {0, 1}
      BY <1>15
    <3> QED BY <3>1, <3>2
  <2>2. CASE w[g].at = "run"
    BY <1>1, <1>2, <1>5, <2>2 DEF OnceInv
  <2> QED BY <1>6, <2>1, <2>2
<1>20. /\ ran'[x] <= SelfRun(x) + 1 /\ Answers(x)' <= SelfRun(x) + 1 + Twice(x)
       /\ (r.req = x => Answers(x)' <= SelfRun(x) + Twice(x))
  <2>1. /\ Answers(x) \in Nat /\ Answers(x)' \in Nat /\ SelfRun(x) \in {0, 1}
        /\ Twice(x) \in {0, 1} /\ Answers(x)' <= Answers(x) + a /\ ran[x] \in Nat
    BY <1>1, <1>5, <1>15 DEF VarsInv
  <2>2. CASE GoesOn(g, x, r, a)
    <3>1. /\ a <= Twice(x) /\ ran' = [ran EXCEPT ![x] = @ + 1] /\ Fresh(x)
      BY <1>1, <1>2, <1>5, <2>2 DEF GoesOn, FreshInv
    <3>2. ran'[x] = ran[x] + 1 /\ ran[x] <= SelfRun(x) /\ Answers(x) <= SelfRun(x)
      BY <1>1, <1>5, <3>1 DEF VarsInv, Fresh
    <3>3. a \in {0, 1} /\ a <= Twice(x)
      BY <1>2, <3>1
    <3>4. ran'[x] <= SelfRun(x) + 1
      BY <2>1, <3>2
    <3>5. Answers(x)' <= SelfRun(x) + Twice(x)
      BY <2>1, <3>2, <3>3
    <3>6. Answers(x)' <= SelfRun(x) + 1 + Twice(x)
      BY <2>1, <3>5
    <3> QED BY <3>4, <3>5, <3>6
  <2>3. CASE Returns(g, x, r, a)
    <3>1. a = 1 /\ ran' = ran /\ r.req # x
      BY <1>5, <2>3 DEF Returns
    <3>2. ran[x] <= SelfRun(x) + 1
      BY <1>1 DEF OnceInv
    <3> QED BY <1>19, <2>1, <3>1, <3>2
  <2> QED BY <1>2, <2>2, <2>3
<1>21. OnceInv'
  <2>1. ASSUME NEW q \in 1..Len(calls), q # x
        PROVE  ran'[q] <= SelfRun(q)' + 1 /\ Answers(q)' <= SelfRun(q)' + 1 + Twice(q)'
    <3>1. ran[q] <= SelfRun(q) + 1 /\ Answers(q) <= SelfRun(q) + 1 + Twice(q)
      BY <1>1 DEF OnceInv
    <3>2. /\ SelfRun(q)' = SelfRun(q) /\ SelfRun(q) \in {0, 1} /\ Twice(q)' = Twice(q)
          /\ Twice(q) \in {0, 1}
          /\ Answers(q)' \in Nat /\ Answers(q) \in Nat /\ Answers(q)' <= Answers(q)
      BY <1>15, <2>1
    <3>3. ran'[q] = ran[q]
      BY <1>1, <1>7, <2>1, AnswersType
    <3> QED BY <3>1, <3>2, <3>3
  <2>2. ASSUME NEW h \in Worker, NEW q \in Seqs, w'[h].req = q, w'[h].at # "handle"
        PROVE  Answers(q)' <= SelfRun(q)' + Twice(q)'
    <3>1. CASE h = g
      <4>1. q = x /\ r.req = x
        BY <1>4, <1>5, <1>6, <2>2, <3>1
      <4> QED BY <1>15, <1>20, <4>1
    <3>2. CASE h # g
      <4>1. w'[h] = w[h] /\ q # x /\ q \in 1..Len(calls)
        BY <1>4, <1>12, <1>17, <2>2, <3>2
      <4>2. Answers(q) <= SelfRun(q) + Twice(q)
        BY <1>1, <2>2, <4>1 DEF OnceInv
      <4>3. /\ SelfRun(q)' = SelfRun(q) /\ SelfRun(q) \in {0, 1} /\ Twice(q)' = Twice(q)
            /\ Twice(q) \in {0, 1}
            /\ Answers(q)' \in Nat /\ Answers(q) \in Nat /\ Answers(q)' <= Answers(q)
        BY <1>15, <4>1
      <4> QED BY <4>2, <4>3
    <3> QED BY <3>1, <3>2
  <2>3. ran'[x] <= SelfRun(x)' + 1 /\ Answers(x)' <= SelfRun(x)' + 1 + Twice(x)'
    BY <1>15, <1>20
  <2> QED BY <1>3, <2>1, <2>2, <2>3 DEF OnceInv
<1>22. LaterInv'
  <2> SUFFICES ASSUME NEW q \in Seqs, q > Len(calls)
               PROVE  /\ ran'[q] = 0 /\ cbRan'[q] = 0 /\ done'[q] = 0
                      /\ q \notin handled' /\ q \notin returned'
    BY <1>3 DEF LaterInv
  <2>1. q # x
    BY <1>5
  <2>2. done'[q] \in {0, 1} /\ done'[q] # 1
    BY <1>1, <1>2, <2>1 DEF LaterInv, Answered
  <2> QED BY <1>1, <1>2, <1>3, <1>7, <2>1, <2>2 DEF LaterInv
<1>23. StopInv'
  <2>1. \A h \in Loop : w'[h].at = "stopped" <=> w[h].at = "stopped"
    <3>1. \A h \in Loop : h \in Worker
      BY WorkerFacts
    <3> QED BY <1>4, <1>6, <3>1
  <2> QED BY <1>1, <1>2, <2>1, StopFrame
<1>24. InTurn(x) => Server(x) = g
  <2> SUFFICES ASSUME InTurn(x) PROVE Server(x) = g
    OBVIOUS
  <2>1. g \in Loop /\ calls[x].to = g[1] /\ GoRouterNum[g[1]] = 1
    BY <1>5 DEF InTurn, ReqOK
  <2>2. g = <<g[1], g[2]>> /\ g[2] \in 1..1
    BY <2>1, WorkerFacts
  <2> QED BY <2>1, <2>2 DEF Server
<1>25. \A q \in 1..Len(calls) : /\ (InTurn(q)' <=> InTurn(q))
                                /\ (InTurn(q) => (Taken(q)' <=> Taken(q)))
  <2> SUFFICES ASSUME NEW q \in 1..Len(calls)
               PROVE  (InTurn(q)' <=> InTurn(q)) /\ (InTurn(q) => (Taken(q)' <=> Taken(q)))
    OBVIOUS
  <2>1. Server(q) \in Worker /\ q \in Seqs /\ q # None
    BY <1>1, <1>5, CallOwners
  <2>2. InTurn(q)' <=> InTurn(q)
    BY <1>3 DEF InTurn
  <2>3. Server(q)' = Server(q)
    BY <1>3 DEF Server
  <2>4. ASSUME InTurn(q), q # x PROVE Taken(q)' <=> Taken(q)
    <3>1. w'[Server(q)].req = q <=> w[Server(q)].req = q
      BY <1>2, <1>4, <1>6, <2>1, <2>4
    <3> QED BY <1>7, <2>1, <2>3, <2>4, <3>1 DEF Taken
  <2>5. ASSUME InTurn(x), q = x PROVE Taken(q)' <=> Taken(q)
    <3>1. Taken(q)
      BY <1>2, <1>24, <2>5 DEF Taken
    <3>2. w'[g].req = x \/ x \in handled'
      BY <1>2, <1>4 DEF GoesOn, Returns
    <3> QED BY <1>24, <2>3, <2>5, <3>1, <3>2 DEF Taken
  <2> QED BY <2>2, <2>4, <2>5
<1>26. LastInv'
  BY <1>1, <1>3, <1>13 DEF OrderInv, LastInv
<1>27. PlacedInv'
  <2> SUFFICES ASSUME NEW q \in 1..Len(calls), InTurn(q)
               PROVE  \/ w'[calls[q].by].at = "push" /\ w'[calls[q].by].call = q
                      \/ On(callRequest[calls[q].to], q)
                      \/ Taken(q)'
    BY <1>3, <1>25 DEF PlacedInv
  <2>1. \/ w[calls[q].by].at = "push" /\ w[calls[q].by].call = q
        \/ On(callRequest[calls[q].to], q)
        \/ Taken(q)
    BY <1>1 DEF OrderInv, PlacedInv
  <2>2. calls[q].by \in Worker
    BY <1>1, CallOwners
  <2> QED BY <1>4, <1>6, <1>25, <2>1, <2>2
<1>28. TurnInv'
  BY <1>1, <1>3, <1>7, <1>25 DEF OrderInv, TurnInv
<1>29. ReturnInv'
  <2> SUFFICES ASSUME NEW q \in 1..Len(calls), InTurn(q), q \in returned \/ done'[q] = 1
               PROVE  Taken(q)
    BY <1>2, <1>3, <1>25 DEF ReturnInv
  <2>1. q \in returned \/ done[q] = 1 \/ q = x
    BY <1>1, <1>2, AnswersType DEF Answered
  <2>2. CASE q = x
    BY <1>2, <1>24, <2>2 DEF Taken
  <2> QED BY <1>1, <2>1, <2>2 DEF OrderInv, ReturnInv
<1>30. OrderInv'
  BY <1>1, <1>3, <1>26, <1>27, <1>28, <1>29 DEF OrderInv
<1> QED BY <1>8, <1>9, <1>10, <1>11, <1>14, <1>18, <1>21, <1>22, <1>23, <1>30 DEF IInv, BaseInv

\* The handler looks up its method, or the method returns.
LEMMA HandleStep ==
    ASSUME IInv, NEW g \in Worker, Handle(g) \/ EndMethod(g)
    PROVE  IInv'
<1> DEFINE x == w[g].req
           l == IF g \in Loop THEN "select" ELSE "none"
<1>1. VarsInv /\ BoolInv /\ WorkInv
  BY DEF IInv, BaseInv
<1>2. w[g] \in WorkRec /\ WorkOK(g, w[g], Len(calls)) /\ w[g].at \in {"handle", "run"} /\ x # None
  BY <1>1 DEF VarsInv, WorkInv, WorkOK, Handle, EndMethod, Is
<1>3. x \in 1..Len(calls)
  BY <1>1, <1>2 DEF WorkOK, VarsInv, None
<1>4. /\ calls' = calls /\ cbRan' = cbRan /\ returned' = returned /\ gorouterNum' = gorouterNum
      /\ released' = released
  BY DEF Handle, EndMethod, stopVars
<1>5. BoolInv'
  BY <1>1 DEF Handle, EndMethod, stopVars, BoolInv
<1>6. ASSUME NEW b, RequestHandle(x, b), HandlerReturns(g), ran' = ran PROVE IInv'
  <2>1. At(l) \in WorkRec /\ At(l).at = l /\ At(l).req = None /\ At(l).call = None
    BY DEF WorkRec, At, None
  <2>2. w' = [w EXCEPT ![g] = At(l)] /\ handled' = handled \cup {x}
    BY <1>6 DEF HandlerReturns
  <2>3. Answered(x, 1)
    BY <1>1, <1>3, <1>4, <1>6, RequestHandleAnswers
  <2> DEFINE r == At(l)
  <2>4. Returns(g, x, r, 1)
    BY <1>2, <1>6, <2>1, <2>2 DEF Returns
  <2> HIDE DEF x, r
  <2>5. Handling(g, x, r, 1)
    BY <1>4, <2>2, <2>3, <2>4 DEF Handling, x, r
  <2> QED BY <1>3, <1>5, <2>1, <2>5, HandlingStep DEF r
<1>7. ASSUME Handle(g), calls[x].fate # "noMethod" PROVE IInv'
  <2> DEFINE r == [w[g] EXCEPT !.at = "run"]
             a == IF calls[x].fate = "nilArg" THEN 1 ELSE 0
  <2>1. r \in WorkRec /\ r.at = "run" /\ r.req = x /\ r.call = w[g].call
    BY <1>2 DEF WorkRec
  <2>2. /\ w' = [w EXCEPT ![g] = r] /\ ran' = [ran EXCEPT ![x] = @ + 1] /\ handled' = handled
        /\ w[g].at = "handle"
    BY <1>7 DEF Handle, Is
  <2>3. Answered(x, a)
    <3>1. CASE calls[x].fate = "nilArg"
      <4>1. RequestHandle(x, TRUE)
        BY <1>7, <3>1 DEF Handle
      <4>2. Answered(x, 1)
        BY <1>1, <1>3, <1>4, <4>1, RequestHandleAnswers
      <4> QED BY <3>1, <4>2
    <3>2. CASE calls[x].fate # "nilArg"
      <4>1. UNCHANGED chans
        BY <1>7, <3>2 DEF Handle
      <4>2. Answered(x, 0)
        BY <1>1, <1>4, <4>1, NotAnswered
      <4> QED BY <3>2, <4>2
    <3> QED BY <3>1, <3>2
  <2>4. a = Twice(x) /\ a \in {0, 1}
    BY DEF Twice
  <2> HIDE DEF a, x
  <2>5. GoesOn(g, x, r, a)
    BY <2>1, <2>2, <2>4 DEF GoesOn
  <2> HIDE DEF r
  <2>6. Handling(g, x, r, a)
    BY <1>4, <2>2, <2>3, <2>4, <2>5 DEF Handling, x
  <2> QED BY <1>3, <1>5, <2>1, <2>6, HandlingStep
<1>8. CASE EndMethod(g)
  <2>1. RequestHandle(x, FALSE) /\ HandlerReturns(g) /\ ran' = ran
    BY <1>8 DEF EndMethod
  <2> QED BY <1>6, <2>1
<1>9. CASE Handle(g) /\ calls[x].fate = "noMethod"
  <2>1. RequestHandle(x, TRUE) /\ HandlerReturns(g) /\ ran' = ran
    BY <1>9 DEF Handle
  <2> QED BY <1>6, <2>1
<1> QED BY <1>7, <1>8, <1>9

-----------------------------------------------------------------------------
\* Goroutine g, whose record becomes r, hands over the request of call x: to the
\* channel of the service, or to goroutine m if it is a mutiCoroutine request.
HandsOver(g, x, r, m) ==
    /\ w[g].at = "push" /\ w[g].call = x /\ r.at \in {"wait", "run"} /\ r.req = w[g].req
    /\ r.call = x
    /\ w' \in [Worker -> WorkRec] /\ w'[g] = r
    /\ \A h \in Worker : h # g => w'[h] = w[h] \/ (calls[x].muti /\ h = m)
    /\ calls[x].muti => /\ m \in Worker /\ m \notin Loop /\ m # g /\ w[m].at = "none" /\ m[2] = x
                        /\ w'[m].at = "handle" /\ w'[m].req = x /\ w'[m].call = None
    /\ callRequest' \in [Service -> Seq(Seqs)] /\ \A s \in Service : Len(callRequest'[s]) <= QueueLen
    /\ \A s \in Service, q \in Seqs :
           On(callRequest'[s], q) <=>
               On(callRequest[s], q) \/ (q = x /\ s = calls[x].to /\ ~calls[x].muti)
    /\ \A s \in Service : Once(callRequest'[s]) /\ InOrder(calls, callRequest'[s])
    /\ calls' = calls /\ callRespone' = callRespone /\ done' = done /\ nilReply' = nilReply
    /\ ran' = ran /\ cbRan' = cbRan /\ handled' = handled /\ returned' = returned
    /\ gorouterNum' = gorouterNum /\ released' = released

\* Such a step keeps the invariant.
LEMMA HandsOverStep ==
    ASSUME IInv, NEW g \in Worker, NEW x \in 1..Len(calls), NEW r \in WorkRec, NEW m,
           HandsOver(g, x, r, m), BoolInv'
    PROVE  IInv'
<1>1. /\ BaseInv /\ VarsInv /\ BoolInv /\ WorkInv /\ MutiInv /\ ChanInv /\ PlaceInv /\ FreshInv
      /\ OnceInv /\ LaterInv /\ StopInv /\ OrderInv
  BY DEF IInv, BaseInv
<1>2. /\ calls' = calls /\ callRespone' = callRespone /\ done' = done /\ nilReply' = nilReply
      /\ ran' = ran /\ cbRan' = cbRan /\ handled' = handled /\ returned' = returned
      /\ gorouterNum' = gorouterNum /\ released' = released
  BY DEF HandsOver
<1>3. /\ w[g].at = "push" /\ w[g].call = x /\ r.at \in {"wait", "run"} /\ r.req = w[g].req
      /\ r.call = x /\ w'[g] = r
      /\ \A h \in Worker : h # g => w'[h] = w[h] \/ (calls[x].muti /\ h = m)
      /\ calls[x].muti => /\ m \in Worker /\ m \notin Loop /\ m # g /\ w[m].at = "none" /\ m[2] = x
                          /\ w'[m].at = "handle" /\ w'[m].req = x /\ w'[m].call = None
  BY DEF HandsOver
<1>4. /\ \A s \in Service : Once(callRequest'[s]) /\ InOrder(calls, callRequest'[s])
      /\ \A s \in Service, q \in Seqs :
             On(callRequest'[s], q) <=>
                 On(callRequest[s], q) \/ (q = x /\ s = calls[x].to /\ ~calls[x].muti)
  BY DEF HandsOver
<1>5. /\ x \in Seqs /\ x # None /\ Len(calls) \in Nat /\ WorkOK(g, w[g], Len(calls))
      /\ \A q \in Seqs : q # None
  <2>1. x \in Seqs /\ Len(calls) \in Nat /\ \A q \in Seqs : q # None
    BY <1>1, AnswersType, WorkerFacts DEF VarsInv, None
  <2> QED BY <1>1, <2>1 DEF WorkInv
<1>6. VarsInv'
  BY <1>1, <1>2 DEF VarsInv, HandsOver
<1>7. WorkInv'
  <2>1. WorkOK(g, r, Len(calls))
    BY <1>3, <1>5 DEF WorkOK
  <2>2. ASSUME calls[x].muti PROVE WorkOK(m, w'[m], Len(calls))
    <3>1. 0 \in 0..Len(calls) /\ x \in 0..Len(calls)
      BY <1>5
    <3> QED BY <1>3, <1>5, <2>2, <3>1 DEF WorkOK, None
  <2>3. ASSUME NEW h \in Worker PROVE WorkOK(h, w'[h], Len(calls))
    BY <1>1, <1>3, <2>1, <2>2 DEF WorkInv
  <2>4. ASSUME NEW h \in Worker, NEW q \in Seqs, w'[h].req = q PROVE ReqOK(h, q)
    <3>1. CASE w'[h].req = w[h].req
      BY <1>1, <2>4, <3>1 DEF WorkInv
    <3>2. CASE calls[x].muti /\ h = m
      BY <1>3, <2>4, <3>2 DEF ReqOK
    <3> QED BY <1>3, <3>1, <3>2
  <2> QED BY <1>2, <2>3, <2>4 DEF WorkInv, ReqOK
<1>8. MutiInv'
  BY <1>1, <1>2 DEF MutiInv
<1>9. ChanInv'
  BY <1>1, <1>2, <1>4 DEF ChanInv
<1>10. /\ \A h \in Worker : w[h].req # x
       /\ \A h \in Worker : w[h].at = "push" /\ w[h].call = x => h = g
       /\ \A s \in Service : ~On(callRequest[s], x)
  BY <1>1, <1>3 DEF PlaceInv, PushInv
<1>11. \A h \in Worker :
           /\ (w'[h].at = "push" => h # g /\ w[h].at = "push" /\ w'[h].call = w[h].call)
           /\ (w'[h].at = "handle" => \/ h # g /\ w[h].at = "handle" /\ w'[h].req = w[h].req
                                      \/ w'[h].req = x)
           /\ (w'[h].req # w[h].req => calls[x].muti /\ h = m /\ w'[h].req = x)
           /\ (w'[h].req = w[h].req \/ w'[h].at = "handle")
  BY <1>3
<1>12. \A h \in Worker : w[h].req \in Seqs \cup {None} /\ w[h].call \in Seqs \cup {None}
  BY <1>1 DEF VarsInv, WorkRec
<1>13. PlaceInv'
  <2>1. PushInv'
    <3> SUFFICES ASSUME NEW h \in Worker, w'[h].at = "push"
                 PROVE  /\ \A v \in Worker : w'[v].req # w'[h].call
                        /\ \A v \in Worker : w'[v].at = "push" /\ w'[v].call = w'[h].call => v = h
                        /\ \A s \in Service : ~On(callRequest'[s], w'[h].call)
      BY DEF PushInv
    <3>1. h # g /\ w[h].at = "push" /\ w'[h].call = w[h].call
      BY <1>11
    <3>2. w[h].call # None /\ w[h].call \in Seqs /\ w[h].call # x
      BY <1>1, <1>10, <1>12, <3>1 DEF WorkInv, WorkOK
    <3>3. /\ \A v \in Worker : w[v].req # w[h].call
          /\ \A v \in Worker : w[v].at = "push" /\ w[v].call = w[h].call => v = h
          /\ \A s \in Service : ~On(callRequest[s], w[h].call)
      BY <1>1, <3>1 DEF PlaceInv, PushInv
    <3> QED BY <1>4, <1>11, <3>1, <3>2, <3>3
  <2>2. QueuedInv'
    <3>1. ASSUME NEW s \in Service, NEW h \in Worker, w'[h].req # None
          PROVE  ~On(callRequest'[s], w'[h].req)
      <4>1. CASE w'[h].req = w[h].req
        <5>1. w[h].req \in Seqs /\ w[h].req # x /\ ~On(callRequest[s], w[h].req)
          BY <1>1, <1>10, <1>12, <3>1, <4>1 DEF PlaceInv, QueuedInv
        <5> QED BY <1>4, <4>1, <5>1
      <4>2. CASE calls[x].muti /\ w'[h].req = x
        BY <1>4, <1>5, <1>10, <4>2
      <4> QED BY <1>11, <4>1, <4>2
    <3> QED BY <1>4, <3>1 DEF QueuedInv
  <2>3. HeldInv'
    BY <1>1, <1>10, <1>11 DEF PlaceInv, HeldInv
  <2> QED BY <2>1, <2>2, <2>3 DEF PlaceInv
<1>14. \A q \in 1..Len(calls) :
           /\ SelfRun(q)' = SelfRun(q) /\ Twice(q)' = Twice(q) /\ Answers(q)' = Answers(q)
           /\ (Fresh(q)' <=> Fresh(q))
  BY <1>2 DEF SelfRun, Twice, Answers, Fresh
<1>15. \A h \in Worker, q \in Seqs : w[h].req = q \/ w[h].call = q => q \in 1..Len(calls)
  BY <1>1, WorkerFacts DEF WorkInv, WorkOK, VarsInv
<1>16. Fresh(x)
  <2>1. w[g].at = "push" /\ w[g].call = x /\ x \in Seqs /\ FreshInv
    BY <1>1, <1>3, <1>5
  <2> QED BY <2>1 DEF FreshInv
<1>17. FreshInv'
  <2>1. ASSUME NEW h \in Worker, NEW q \in Seqs,
               (w'[h].at = "push" /\ w'[h].call = q) \/ (w'[h].at = "handle" /\ w'[h].req = q)
        PROVE  Fresh(q)'
    <3>1. \/ (w[h].at = "push" /\ w[h].call = q) \/ (w[h].at = "handle" /\ w[h].req = q)
          \/ q = x
      BY <1>11, <2>1
    <3>2. Fresh(q) /\ q \in 1..Len(calls)
      BY <1>1, <1>15, <1>16, <3>1 DEF FreshInv
    <3> QED BY <1>14, <3>2
  <2>2. ASSUME NEW t \in Service, NEW q \in Seqs, On(callRequest'[t], q) PROVE Fresh(q)'
    <3>1. On(callRequest[t], q) \/ q = x
      BY <1>4, <2>2
    <3>2. Fresh(q) /\ q \in 1..Len(calls)
      BY <1>1, <1>16, <3>1 DEF FreshInv, ChanInv
    <3> QED BY <1>14, <3>2
  <2> QED BY <2>1, <2>2 DEF FreshInv
<1>18. OnceInv'
  <2>1. ASSUME NEW q \in 1..Len(calls)
        PROVE  ran'[q] <= SelfRun(q)' + 1 /\ Answers(q)' <= SelfRun(q)' + 1 + Twice(q)'
    BY <1>1, <1>2, <1>14 DEF OnceInv
  <2>2. ASSUME NEW h \in Worker, NEW q \in Seqs, w'[h].req = q, w'[h].at # "handle"
        PROVE  Answers(q)' <= SelfRun(q)' + Twice(q)'
    <3>1. w[h].req = q /\ w[h].at # "handle"
      BY <1>3, <1>11, <2>2
    <3>2. q \in 1..Len(calls)
      BY <1>15, <3>1
    <3> QED BY <1>1, <1>14, <3>1, <3>2 DEF OnceInv
  <2> QED BY <1>2, <2>1, <2>2 DEF OnceInv
<1>19. LaterInv'
  BY <1>1, <1>2 DEF LaterInv
<1>20. \A h \in Loop : h \in Worker /\ (h # g => w'[h] = w[h]) /\ w'[h].req = w[h].req
  BY <1>3, WorkerFacts
<1>21. StopInv'
  <2>1. \A h \in Loop : w'[h].at = "stopped" <=> w[h].at = "stopped"
    BY <1>3, <1>20
  <2> QED BY <1>1, <1>2, <2>1, StopFrame
<1>22. \A q \in 1..Len(calls) : (InTurn(q)' <=> InTurn(q)) /\ (Taken(q)' <=> Taken(q))
  <2> SUFFICES ASSUME NEW q \in 1..Len(calls)
               PROVE  (InTurn(q)' <=> InTurn(q)) /\ (Taken(q)' <=> Taken(q))
    OBVIOUS
  <2>1. Server(q) \in Loop
    BY <1>1, CallOwners
  <2>2. Server(q)' = Server(q)
    BY <1>2 DEF Server
  <2> QED BY <1>2, <1>20, <2>1, <2>2 DEF InTurn, Taken
<1>23. LastInv'
  BY <1>1, <1>2, <1>11 DEF OrderInv, LastInv
<1>24. PlacedInv'
  <2> SUFFICES ASSUME NEW q \in 1..Len(calls), InTurn(q)
               PROVE  \/ w'[calls[q].by].at = "push" /\ w'[calls[q].by].call = q
                      \/ On(callRequest'[calls[q].to], q)
                      \/ Taken(q)'
    BY <1>2, <1>22 DEF PlacedInv
  <2>1. \/ w[calls[q].by].at = "push" /\ w[calls[q].by].call = q
        \/ On(callRequest[calls[q].to], q)
        \/ Taken(q)
    BY <1>1 DEF OrderInv, PlacedInv
  <2>2. calls[q].by \in Worker /\ calls[q].to \in Service /\ q \in Seqs
    BY <1>1, CallOwners
  <2>3. CASE w[calls[q].by].at = "push" /\ w[calls[q].by].call = q
    <3>1. CASE calls[q].by = g
      BY <1>3, <1>4, <2>2, <2>3, <3>1 DEF InTurn
    <3>2. CASE calls[q].by # g
      BY <1>3, <2>2, <2>3, <3>2
    <3> QED BY <3>1, <3>2
  <2>4. CASE On(callRequest[calls[q].to], q)
    BY <1>4, <2>2, <2>4
  <2> QED BY <1>22, <2>1, <2>3, <2>4
<1>25. TurnInv' /\ ReturnInv'
  BY <1>1, <1>2, <1>22 DEF OrderInv, TurnInv, ReturnInv
<1>26. OrderInv'
  BY <1>2, <1>4, <1>23, <1>24, <1>25 DEF OrderInv
<1> QED BY <1>6, <1>7, <1>8, <1>9, <1>13, <1>17, <1>18, <1>19, <1>21, <1>26 DEF IInv, BaseInv

\* A goroutine pushes its request.
LEMMA PushStep ==
    ASSUME IInv, NEW g \in Worker, Push(g)
    PROVE  IInv'
<1> DEFINE x == w[g].call
           t == calls[x].to
           m == <<"muti", x>>
           r == [w[g] EXCEPT !.at = AfterPush(g)]
<1>1. /\ VarsInv /\ BoolInv /\ WorkInv /\ MutiInv /\ ChanInv /\ PlaceInv /\ OrderInv
  BY DEF IInv, BaseInv
<1>2. w[g] \in WorkRec /\ WorkOK(g, w[g], Len(calls)) /\ w[g].at = "push"
  BY <1>1 DEF VarsInv, WorkInv, Push, Is
<1>3. x \in 1..Len(calls) /\ x # None
  BY <1>1, <1>2 DEF WorkOK, VarsInv, None
<1>4. x \in Seqs /\ t \in Service
  BY <1>1, <1>3, CallOwners
<1>5. r \in WorkRec /\ r.at \in {"wait", "run"} /\ r.req = w[g].req /\ r.call = x
  BY <1>2 DEF WorkRec, AfterPush
<1>6. /\ calls' = calls /\ callRespone' = callRespone /\ done' = done /\ nilReply' = nilReply
      /\ ran' = ran /\ cbRan' = cbRan /\ handled' = handled /\ returned' = returned
      /\ gorouterNum' = gorouterNum /\ released' = released
  BY DEF Push, counts, stopVars
<1>7. BoolInv'
  BY <1>1 DEF Push, stopVars, BoolInv
<1>8. /\ \A h \in Worker : w[h].req # x
      /\ \A s \in Service : ~On(callRequest[s], x)
  BY <1>1, <1>2 DEF PlaceInv, PushInv
<1>9. /\ callRequest \in [Service -> Seq(Seqs)]
      /\ \A s \in Service : /\ Len(callRequest[s]) <= QueueLen
                            /\ Once(callRequest[s]) /\ InOrder(calls, callRequest[s])
  BY <1>1 DEF VarsInv, PlaceInv, QueuedInv, OrderInv
<1>10. CASE calls[x].muti /\ callRequest' = callRequest
            /\ w' = [w EXCEPT ![g].at = AfterPush(g), ![m] = [At("handle") EXCEPT !.req = x]]
  <2> DEFINE u == [At("handle") EXCEPT !.req = x]
             v == [w EXCEPT ![g] = r]
  <2>1. u \in WorkRec /\ u.at = "handle" /\ u.req = x /\ u.call = None
    BY <1>4 DEF At, WorkRec
  <2>2. m \in Worker /\ m \notin Loop /\ m[2] = x
    <3>1. x \in 1..MaxCalls
      BY <1>1, <1>3, <1>10, WorkerFacts DEF MutiInv, VarsInv
    <3> QED BY <3>1, WorkerFacts
  <2>3. w[m].at = "none"
    <3>1. WorkOK(m, w[m], Len(calls)) /\ w[m].req # x
      BY <1>1, <1>8, <2>2 DEF WorkInv
    <3> QED BY <2>2, <3>1 DEF WorkOK
  <2>4. m # g
    BY <1>2, <2>3
  <2>5. w' = [v EXCEPT ![m] = u]
    BY <1>10
  <2> HIDE DEF u, r, m, x
  <2>6. v \in [Worker -> WorkRec] /\ v[g] = r /\ \A h \in Worker : h # g => v[h] = w[h]
    BY <1>1, <1>5 DEF VarsInv
  <2> HIDE DEF v
  <2>7. /\ w' \in [Worker -> WorkRec] /\ w'[m] = u /\ \A h \in Worker : h # m => w'[h] = v[h]
    BY <2>1, <2>2, <2>5, <2>6
  <2>8. /\ w'[g] = r
        /\ \A h \in Worker : h # g => w'[h] = w[h] \/ (calls[x].muti /\ h = m)
        /\ w'[m].at = "handle" /\ w'[m].req = x /\ w'[m].call = None
    BY <1>10, <2>1, <2>4, <2>6, <2>7
  <2>9. HandsOver(g, x, r, m)
    BY <1>2, <1>5, <1>6, <1>9, <1>10, <2>2, <2>3, <2>4, <2>7, <2>8 DEF HandsOver, x
  <2> QED BY <1>3, <1>5, <1>7, <2>9, HandsOverStep
<1>11. CASE /\ ~calls[x].muti /\ Len(callRequest[t]) < QueueLen
            /\ w' = [w EXCEPT ![g].at = AfterPush(g)]
            /\ callRequest' = [callRequest EXCEPT ![t] = Append(@, x)]
  <2>1. w' = [w EXCEPT ![g] = r]
    BY <1>11
  <2>2. callRequest[t] \in Seq(Seqs) /\ Once(callRequest[t]) /\ InOrder(calls, callRequest[t])
    BY <1>4, <1>9
  <2>3. /\ Append(callRequest[t], x) \in Seq(Seqs) /\ Len(callRequest[t]) \in Nat
        /\ Len(Append(callRequest[t], x)) = Len(callRequest[t]) + 1
    BY <1>4, <2>2, SeqAppend
  <2>4. Len(Append(callRequest[t], x)) <= QueueLen
    BY <1>11, <2>3, ServiceAssumption
  <2>5. \A q : On(callRequest[t], q) /\ calls[q].by = calls[x].by => q < x
    <3> SUFFICES ASSUME NEW q, On(callRequest[t], q), calls[q].by = calls[x].by PROVE q < x
      OBVIOUS
    <3>1. q \in Seqs
      <4>1. PICK i \in 1..Len(callRequest[t]) : callRequest[t][i] = q
        BY DEF On
      <4> QED BY <2>2, <4>1, ElementOfSeq
    <3>2. q \in 1..Len(calls) /\ q # x
      BY <1>1, <1>4, <1>8, <3>1 DEF ChanInv
    <3>3. calls[q].by = g /\ q <= x
      BY <1>1, <1>2, <3>2 DEF OrderInv, LastInv
    <3>4. q \in Nat /\ x \in Nat
      BY <1>4, <3>1, WorkerFacts
    <3> HIDE DEF x, t
    <3> QED BY <3>2, <3>3, <3>4
  <2>6. /\ \A q : On(Append(callRequest[t], x), q) <=> On(callRequest[t], q) \/ q = x
        /\ Once(Append(callRequest[t], x)) /\ InOrder(calls, Append(callRequest[t], x))
    <3>1. x \in Seqs /\ ~On(callRequest[t], x)
      BY <1>4, <1>8
    <3> HIDE DEF x, t
    <3> QED BY <2>2, <2>5, <3>1, OnAppend
  <2> HIDE DEF r, m, x, t
  <2>7. w' \in [Worker -> WorkRec] /\ w'[g] = r /\ \A h \in Worker : h # g => w'[h] = w[h]
    BY <1>1, <1>5, <2>1, GoStep
  <2>8. /\ callRequest' \in [Service -> Seq(Seqs)] /\ callRequest'[t] = Append(callRequest[t], x)
        /\ \A s \in Service : s # t => callRequest'[s] = callRequest[s]
    BY <1>4, <1>9, <1>11, <2>3
  <2>9. /\ \A s \in Service : Len(callRequest'[s]) <= QueueLen
        /\ \A s \in Service : Once(callRequest'[s]) /\ InOrder(calls, callRequest'[s])
        /\ \A s \in Service, q \in Seqs :
               On(callRequest'[s], q) <=> On(callRequest[s], q) \/ (q = x /\ s = t)
    BY <1>9, <2>4, <2>6, <2>8
  <2>10. HandsOver(g, x, r, m)
    BY <1>2, <1>5, <1>6, <1>11, <2>7, <2>8, <2>9 DEF HandsOver, x, t
  <2> QED BY <1>3, <1>5, <1>7, <2>10, HandsOverStep
<1> QED BY <1>10, <1>11 DEF Push

-----------------------------------------------------------------------------
\* closeSig is closed, or nothing happens.
LEMMA IdleStep ==
    ASSUME IInv, CloseSig \/ UNCHANGED vars
    PROVE  IInv'
<1>1. /\ calls' = calls /\ w' = w /\ callRequest' = callRequest /\ callRespone' = callRespone
      /\ done' = done /\ nilReply' = nilReply /\ ran' = ran /\ cbRan' = cbRan
      /\ handled' = handled /\ returned' = returned /\ gorouterNum' = gorouterNum
      /\ released' = released
  BY DEF CloseSig, vars, chans, counts, stopVars
<1>2. BoolInv'
  BY DEF IInv, BaseInv, BoolInv, CloseSig, vars, stopVars
<1>3. VarsInv' /\ WorkInv' /\ MutiInv' /\ ChanInv'
  BY <1>1 DEF IInv, BaseInv, VarsInv, WorkInv, ReqOK, MutiInv, ChanInv
<1>4. PlaceInv'
  BY <1>1 DEF IInv, PlaceInv, PushInv, QueuedInv, HeldInv
<1>5. FreshInv' /\ OnceInv'
  BY <1>1 DEF IInv, FreshInv, OnceInv, Fresh, Answers, SelfRun, Twice
<1>6. LaterInv' /\ StopInv'
  BY <1>1 DEF IInv, LaterInv, StopInv, Left
<1>7. OrderInv'
  BY <1>1 DEF IInv, OrderInv, LastInv, PlacedInv, TurnInv, ReturnInv, InTurn, Taken, Server
<1> QED BY <1>2, <1>3, <1>4, <1>5, <1>6, <1>7 DEF IInv, BaseInv

\* A goroutine makes a call of the mix.
LEMMA MakeCallStep ==
    ASSUME IInv, NEW g \in Worker, MakeCall(g)
    PROVE  IInv'
<1>1. PICK x \in Mix :
          \/ \E t \in Service : CallOther(g, t, x[1], x[2], x[3])
          \/ CallSelf(g, x[1], x[2], x[3])
          \/ x[1] = "async" /\ AsyncCallSelf(g, x[2], x[3])
  BY DEF MakeCall
<1>2. x[1] \in Kinds /\ x[2] \in Fates /\ x[3] \in BOOLEAN
  BY ServiceAssumption
<1>3. CASE \E t \in Service : CallOther(g, t, x[1], x[2], x[3])
  BY <1>2, <1>3, CallOtherStep
<1>4. CASE CallSelf(g, x[1], x[2], x[3])
  BY <1>2, <1>4, CallSelfStep
<1>5. CASE AsyncCallSelf(g, x[2], x[3])
  BY <1>2, <1>5, AsyncCallSelfStep
<1> QED BY <1>1, <1>3, <1>4, <1>5

\* Start: nothing was called and every goroutine is in its loop.
LEMMA StartInv == Init => IInv
<1> SUFFICES ASSUME Init PROVE IInv
  OBVIOUS
<1> USE DEF Init
<1>1. Len(calls) = 0 /\ 1..Len(calls) = {} /\ calls \in Seq(CallRec)
  OBVIOUS
<1>2. \A g \in Worker : /\ w[g].at = (IF g \in Loop THEN "select" ELSE "none")
                        /\ w[g].req = None /\ w[g].call = None /\ w[g] \in WorkRec
  BY DEF At, WorkRec
<1>3. /\ \A s \in Service : callRequest[s] = <<>> /\ callRespone[s] = <<>>
      /\ \A q : ~On(<<>>, q)
      /\ <<>> \in Seq(Seqs) /\ Len(<<>>) = 0
  BY DEF On
<1>4. Seqs \subseteq Nat \ {0} /\ MaxAsync \in Nat
  BY WorkerFacts
<1>5. VarsInv
  <2>1. w \in [Worker -> WorkRec]
    BY <1>2
  <2>2. \A s \in Service : Len(callRequest[s]) <= QueueLen /\ Len(callRespone[s]) <= QueueLen
    BY <1>3, ServiceAssumption
  <2>3. gorouterNum \in [Service -> Nat]
    BY ServiceAssumption
  <2> QED BY <1>1, <1>3, <1>4, <2>1, <2>2, <2>3 DEF VarsInv
<1>6. BoolInv
  BY DEF BoolInv
<1>7. WorkInv
  <2>1. \A g \in Worker : WorkOK(g, w[g], Len(calls))
    BY <1>1, <1>2 DEF WorkOK, None
  <2> QED BY <1>2, <1>4, <2>1 DEF WorkInv, None
<1>8. MutiInv /\ ChanInv
  BY <1>1, <1>3 DEF MutiInv, ChanInv
<1>9. PlaceInv
  BY <1>2, <1>3 DEF PlaceInv, PushInv, QueuedInv, HeldInv, Once
<1>10. FreshInv /\ OnceInv
  BY <1>1, <1>2, <1>3, <1>4 DEF FreshInv, OnceInv, None
<1>11. LaterInv
  BY DEF LaterInv
<1>12. StopInv
  <2> SUFFICES ASSUME NEW s \in Service PROVE gorouterNum[s] = Cardinality(Left(s))
    BY DEF StopInv
  <2>1. \A i \in 1..GoRouterNum[s] : <<s, i>> \in Loop /\ <<s, i>> \in Worker
    BY WorkerFacts
  <2>2. Left(s) = 1..GoRouterNum[s]
    BY <1>2, <2>1 DEF Left
  <2>3. GoRouterNum[s] \in Nat /\ 1 \in Int /\ GoRouterNum[s] \in Int
    BY ServiceAssumption
  <2>4. Cardinality(1..GoRouterNum[s]) = GoRouterNum[s]
    BY <2>3, FS_Interval
  <2> QED BY <2>2, <2>4
<1>13. OrderInv
  BY <1>1, <1>2, <1>3 DEF OrderInv, LastInv, PlacedInv, TurnInv, ReturnInv, InOrder
<1> QED BY <1>5, <1>6, <1>7, <1>8, <1>9, <1>10, <1>11, <1>12, <1>13 DEF IInv, BaseInv

\* Every step of the program keeps the invariant.
LEMMA NextStep == IInv /\ [Next]_vars => IInv'
<1> SUFFICES ASSUME IInv, [Next]_vars PROVE IInv'
  OBVIOUS
<1>1. ASSUME NEW g \in Loop, Select(g) PROVE IInv'
  BY <1>1, TakeRequestStep, TakeResponeStep, TakeCloseSigStep DEF Select
<1>2. ASSUME NEW g \in Worker, Body(g) PROVE IInv'
  BY <1>2, HandleStep, ResumeStep, PushStep DEF Body
<1>3. ASSUME NEW g \in Worker, MakeCall(g) PROVE IInv'
  BY <1>3, MakeCallStep
<1>4. CASE CloseSig \/ UNCHANGED vars
  BY <1>4, IdleStep
<1> QED BY <1>1, <1>2, <1>3, <1>4 DEF Next

-----------------------------------------------------------------------------
\* The method and the callback of a call: how often the invariant lets them run.
LEMMA RunBounds ==
    ASSUME IInv, NEW q \in Seqs
    PROVE  /\ ran[q] \in 0..2 /\ cbRan[q] \in 0..2
           /\ q \in 1..Len(calls) /\ calls[q].from # calls[q].to =>
                  ran[q] <= 1 /\ (calls[q].fate # "nilArg" => cbRan[q] <= 1)
<1>1. VarsInv /\ OnceInv /\ LaterInv
  BY DEF IInv, BaseInv
<1>2. ran[q] \in Nat /\ cbRan[q] \in Nat /\ q \in Nat \ {0} /\ Len(calls) \in Nat
  BY <1>1, WorkerFacts DEF VarsInv
<1>3. CASE q > Len(calls)
  BY <1>1, <1>2, <1>3 DEF LaterInv
<1>4. CASE q \in 1..Len(calls)
  <2>1. /\ ran[q] <= SelfRun(q) + 1 /\ Answers(q) <= SelfRun(q) + 1 + Twice(q)
    BY <1>1, <1>4 DEF OnceInv
  <2>2. cbRan[q] <= Answers(q) /\ Answers(q) \in Nat
    <3>1. Occ(callRespone[calls[q].from], q) \in Nat /\ Answers(q) \in Nat
      BY <1>1, <1>4, AnswersType
    <3> QED BY <1>2, <3>1 DEF Answers
  <2>3. /\ SelfRun(q) \in {0, 1} /\ Twice(q) \in {0, 1} /\ SelfRun(q) + Twice(q) <= 1
        /\ (calls[q].from # calls[q].to => SelfRun(q) = 0)
        /\ (calls[q].fate # "nilArg" => Twice(q) = 0)
    BY DEF SelfRun, Twice
  <2> QED BY <1>2, <2>1, <2>2, <2>3
<1> QED BY <1>2, <1>3, <1>4

\* The invariant gives the type invariant.
LEMMA TypesHold == IInv => TypeOK
<1> SUFFICES ASSUME IInv PROVE TypeOK
  OBVIOUS
<1>1. VarsInv /\ StopInv
  BY DEF IInv, BaseInv
<1>2. ran \in [Seqs -> 0..2] /\ cbRan \in [Seqs -> 0..2]
  <2>1. \A q \in Seqs : ran[q] \in 0..2 /\ cbRan[q] \in 0..2
    BY RunBounds
  <2>2. ran \in [Seqs -> Nat] /\ cbRan \in [Seqs -> Nat]
    BY <1>1 DEF VarsInv
  <2> QED BY <2>1, <2>2
<1>3. ASSUME NEW s \in Service PROVE gorouterNum[s] \in 0..GoRouterNum[s]
  <2>1. GoRouterNum[s] \in Nat /\ 1 \in Int /\ GoRouterNum[s] \in Int
    BY ServiceAssumption
  <2>2. IsFiniteSet(1..GoRouterNum[s]) /\ Left(s) \in SUBSET (1..GoRouterNum[s])
    BY <2>1, FS_Interval DEF Left
  <2>3. Cardinality(1..GoRouterNum[s]) = GoRouterNum[s]
    BY <2>1, FS_Interval
  <2>4. Cardinality(Left(s)) <= Cardinality(1..GoRouterNum[s])
    BY <2>2, FS_Subset
  <2>5. gorouterNum[s] = Cardinality(Left(s)) /\ gorouterNum[s] \in Nat
    BY <1>1 DEF StopInv, VarsInv
  <2> QED BY <2>1, <2>3, <2>4, <2>5
<1>4. closeSig \in BOOLEAN /\ crashed \in BOOLEAN
  BY DEF IInv, BaseInv, BoolInv
<1> QED BY <1>1, <1>2, <1>3, <1>4 DEF TypeOK, VarsInv, CallRec, WorkRec

\* A service is released when the count of its goroutines is 0, and then nobody
\* is left in its loop.
LEMMA ReleasedIsEmpty == IInv => ReleaseIsLast
<1> SUFFICES ASSUME IInv, NEW g \in Loop, g[1] \in released PROVE w[g].at = "stopped"
  BY DEF ReleaseIsLast
<1> DEFINE s == g[1]
           L == Left(s)
<1>1. s \in Service /\ g[2] \in 1..GoRouterNum[s] /\ g = <<s, g[2]>>
  BY WorkerFacts
<1>2. Cardinality(L) = 0
  BY <1>1 DEF IInv, StopInv
<1>3. GoRouterNum[s] \in Nat /\ 1 \in Int /\ GoRouterNum[s] \in Int
  BY <1>1, ServiceAssumption
<1>4. IsFiniteSet(1..GoRouterNum[s]) /\ L \in SUBSET (1..GoRouterNum[s])
  BY <1>3, FS_Interval DEF Left
<1>5. IsFiniteSet(L)
  BY <1>4, FS_Subset
<1>6. L = {}
  <2> HIDE DEF L
  <2> QED BY <1>2, <1>5, FS_EmptySet
<1> QED BY <1>1, <1>6 DEF Left

\* For any services, call graph and capacities: the method of a call to another
\* service runs at most once and so does its callback (unless the arguments are
\* nil), the channels keep within their capacity, and OnRelease comes after the
\* last goroutine of the service has left Run.
THEOREM LoopSafe == Spec => []LoopInv
<1>1. IInv => LoopInv
  <2> SUFFICES ASSUME IInv PROVE LoopInv
    OBVIOUS
  <2>1. OtherOnce
    <3>1. 1..Len(calls) \subseteq Seqs
      BY AnswersType DEF IInv, BaseInv
    <3> QED BY <3>1, RunBounds DEF OtherOnce
  <2> QED BY <2>1, TypesHold, ReleasedIsEmpty DEF LoopInv
<1> QED BY <1>1, StartInv, NextStep, PTL DEF Spec

\* For any services, call graph and capacities: callRpc returns only after every
\* earlier request of the goroutine to the same one-goroutine service was handled.
THEOREM OrderSafe == Spec => []ProgramOrder
<1>1. IInv => ProgramOrder
  <2> SUFFICES ASSUME IInv, NEW q \in returned, NEW p \in Seqs, p < q,
                      calls[p].by = calls[q].by, calls[p].to = calls[q].to, InTurn(p), InTurn(q)
               PROVE  p \in handled
    BY DEF ProgramOrder
  <2>1. VarsInv /\ LaterInv /\ TurnInv /\ ReturnInv
    BY DEF IInv, BaseInv, OrderInv
  <2>2. q \in Seqs /\ ~(q > Len(calls))
    BY <2>1 DEF VarsInv, LaterInv
  <2>3. p \in 1..Len(calls) /\ q \in 1..Len(calls)
    BY <2>1, <2>2, WorkerFacts DEF VarsInv
  <2>4. Taken(q)
    BY <2>1, <2>3 DEF ReturnInv
  <2> QED BY <2>1, <2>3, <2>4 DEF TurnInv
<1> QED BY <1>1, StartInv, NextStep, PTL DEF Spec

=============================================================================
