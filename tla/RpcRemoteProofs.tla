--------------------------- MODULE RpcRemoteProofs ---------------------------
(***************************************************************************)
(* Safety of a remote call for any number of callers and calls: a reply    *)
(* finds its call pending, and, with one goroutine in the called service,  *)
(* calls of one caller are served in order and completed with their own    *)
(* results.  And of the framing below it (MsgParser): for messages of any  *)
(* length and content, the reader returns them whole and in order.         *)
(***************************************************************************)
EXTENDS RpcRemote, MsgParser, ProofLemmas

(***************************************************************************)
(* The inductive invariant.  A call is at one place at a time: in the hands *)
(* of its caller, on the way, in the channel of the called service, in a   *)
(* handler, or on its way back as a reply without an error; at all of them *)
(* it is pending.  That is what makes the reply find it.                   *)
(***************************************************************************)
Made == 1..Len(calls)
Active == {"decode", "invoke", "reply"}

WriteInv ==
    \A c \in Caller : pc[c].at = "write" =>
        /\ pc[c].seq \in Made /\ pc[c].seq \in pending /\ hpc[pc[c].seq] = "none"
        /\ calls[pc[c].seq].by = c
        /\ ~On(c2s, pc[c].seq) /\ ~On(callRequest, pc[c].seq)

WireInv ==
    /\ Once(c2s)
    /\ \A q \in Seqs : On(c2s, q) =>
           q \in Made /\ q \in pending /\ hpc[q] = "none" /\ ~On(callRequest, q)

QueueInv ==
    /\ Once(callRequest)
    /\ \A q \in Seqs : On(callRequest, q) =>
           q \in Made /\ q \in pending /\ hpc[q] = "none" /\ ~calls[q].muti

HandlerInv ==
    /\ \A q \in Seqs : hpc[q] # "none" => q \in Made
    /\ \A q \in Seqs : hpc[q] \in Active => q \in pending

ReplyInv ==
    /\ \A i \in 1..Len(s2c) : ~s2c[i].err => hpc[s2c[i].seq] = "end" /\ s2c[i].seq \in pending
    /\ \A i, j \in 1..Len(s2c) :
           ~s2c[i].err /\ ~s2c[j].err /\ s2c[i].seq = s2c[j].seq => i = j

PlaceInv == WriteInv /\ WireInv /\ QueueInv /\ HandlerInv /\ ReplyInv

IInv == TypeOK /\ PlaceInv

\* The ranges of what TypeOK bounds; the requests being served can be counted.
LEMMA Finite ==
    ASSUME TypeOK
    PROVE  /\ IsFiniteSet(serving) /\ Cardinality(serving) \in Nat
           /\ Len(calls) \in Nat /\ Made \subseteq Seqs
           /\ \A i \in 1..Len(s2c) : s2c[i].seq \in Seqs
           /\ \A i \in 1..Len(executed) : executed[i] \in Seqs
<1>1. Len(calls) \in Nat
  BY LenProperties DEF TypeOK
<1>2. IsFiniteSet(1..MaxCalls)
  BY FS_Interval, RpcAssumption
<1>3. IsFiniteSet(serving)
  BY <1>2, FS_Subset DEF TypeOK, Seqs
<1>4. Made \subseteq Seqs
  BY <1>1, RpcAssumption DEF TypeOK, Made, Seqs
<1>5. \A i \in 1..Len(s2c) : s2c[i].seq \in Seqs
  <2>1. s2c \in Seq([seq : Seqs, err : BOOLEAN, val : Seqs \cup {NoSeq}])
    BY DEF TypeOK
  <2>2. \A i \in 1..Len(s2c) : s2c[i] \in [seq : Seqs, err : BOOLEAN, val : Seqs \cup {NoSeq}]
    BY <2>1, ElementOfSeq
  <2> QED BY <2>2
<1>6. \A i \in 1..Len(executed) : executed[i] \in Seqs
  BY ElementOfSeq DEF TypeOK
<1> QED BY <1>1, <1>3, <1>4, <1>5, <1>6, FS_CardinalityType

\* Initially nothing has been called.
LEMMA InitInv == Init => IInv
<1> SUFFICES ASSUME Init PROVE IInv
  OBVIOUS
<1>1. TypeOK
  <2>1. Cardinality(serving) = 0
    BY FS_EmptySet DEF Init
  <2>2. pc \in [Caller -> [at : {"idle", "write", "done"}, seq : Seqs \cup {NoSeq}]]
    BY DEF Init
  <2>3. agentUp \in BOOLEAN /\ crashed \in BOOLEAN
    BY DEF Init
  <2>4. calls = <<>> /\ Len(calls) = 0 /\ c2s = <<>> /\ s2c = <<>> /\ executed = <<>> /\ callRequest = <<>>
    BY DEF Init
  <2> QED BY <2>1, <2>2, <2>3, <2>4, RpcAssumption DEF Init, TypeOK, Seqs, NoSeq
<1>2. PlaceInv
  BY <1>1 DEF Init, PlaceInv, WriteInv, WireInv, QueueInv, HandlerInv, ReplyInv, On, Once,
              Active, Made
<1> QED BY <1>1, <1>2 DEF IInv

\* Every step keeps the types; PlaceInv gives the range of the call numbers.
LEMMA TypeStep == TypeOK /\ PlaceInv /\ [Next]_vars => TypeOK'
<1> SUFFICES ASSUME TypeOK, PlaceInv, [Next]_vars PROVE TypeOK'
  OBVIOUS
<1> USE RpcAssumption
<1>0. Len(calls) \in Nat /\ Made \subseteq Seqs
  BY Finite
<1>1. ASSUME NEW c \in Caller, NEW x \in Mix, Register(c, x[1], x[2], x[3], x[4], x[5]) PROVE TypeOK'
  <2> DEFINE r == [by |-> c, kind |-> x[1], fate |-> x[2], muti |-> x[3], sent |-> x[4], assigned |-> x[5]]
             R == [by : Caller, kind : Kinds, fate : Fates, muti : BOOLEAN, sent : BOOLEAN, assigned : BOOLEAN]
  <2>1. r \in R
    <3>1. x \in Kinds \X Fates \X BOOLEAN \X BOOLEAN \X BOOLEAN
      OBVIOUS
    <3>2. x[1] \in Kinds /\ x[2] \in Fates /\ x[3] \in BOOLEAN /\ x[4] \in BOOLEAN /\ x[5] \in BOOLEAN
      BY <3>1
    <3> QED BY <3>2
  <2>2. calls' = Append(calls, r) /\ Len(calls) < MaxCalls
    BY <1>1 DEF Register
  <2>3. calls' \in Seq(R) /\ Len(calls') = Len(calls) + 1
    BY <2>1, <2>2, SeqAppend DEF TypeOK
  <2>4. Len(calls') <= MaxCalls
    BY <1>0, <2>2, <2>3
  <2>5. pending' \subseteq 1..Len(calls')
    <3>1. pending' = pending \cup {Len(calls) + 1} /\ pending \subseteq 1..Len(calls)
      BY <1>1 DEF Register, TypeOK
    <3>2. 1..Len(calls) \subseteq 1..Len(calls) + 1 /\ Len(calls) + 1 \in 1..Len(calls) + 1
      BY <1>0
    <3> QED BY <2>3, <3>1, <3>2
  <2>6. pc' \in [Caller -> [at : {"idle", "write", "done"}, seq : Seqs \cup {NoSeq}]]
    BY <1>0, <1>1, <2>2 DEF Register, TypeOK, Seqs
  <2>7. UNCHANGED <<cpc, wg, outcome, result, link, c2s, s2c, agentUp, callRequest, hpc, serving, iparam, oParam, executed, overlapped, cbq, returned, crashed>>
    BY <1>1 DEF Register, clientVars, netVars, serverVars, objectVars
  <2> QED BY <2>3, <2>4, <2>5, <2>6, <2>7 DEF TypeOK
<1>2. ASSUME NEW c \in Caller, WriteRequest(c) PROVE TypeOK'
  <2>1. pc[c].seq \in Seqs
    BY <1>0, <1>2 DEF WriteRequest, PlaceInv, WriteInv
  <2>2. c2s' \in Seq(Seqs)
    <3>1. c2s' = c2s \/ c2s' = Append(c2s, pc[c].seq)
      BY <1>2 DEF WriteRequest, SendRequest
    <3>2. c2s \in Seq(Seqs)
      BY DEF TypeOK
    <3>3. Append(c2s, pc[c].seq) \in Seq(Seqs)
      BY <2>1, <3>2, SeqAppend
    <3> QED BY <3>1, <3>2, <3>3
  <2>3. pc' \in [Caller -> [at : {"idle", "write", "done"}, seq : Seqs \cup {NoSeq}]]
    BY <1>2 DEF WriteRequest, TypeOK
  <2>4. crashed' \in BOOLEAN
    BY <1>2 DEF WriteRequest, TypeOK
  <2>5. UNCHANGED <<calls, pending, cpc, wg, outcome, result, link, s2c, agentUp, callRequest, hpc, serving, iparam, oParam, executed, overlapped, cbq, returned>>
    BY <1>2 DEF WriteRequest, clientVars, serverVars, objectVars
  <2> QED BY <2>2, <2>3, <2>4, <2>5 DEF TypeOK
<1>3. ASSUME NEW c \in Caller, HandlerRpcResponeCB(c) PROVE TypeOK'
  <2>1. Head(cbq[c]) \in Seqs /\ Tail(cbq[c]) \in Seq(Seqs)
    BY <1>3, SeqTail DEF HandlerRpcResponeCB, TypeOK
  <2>2. UNCHANGED <<calls, pending, pc, cpc, wg, outcome, result, link, c2s, s2c, agentUp, callRequest, hpc, serving, iparam, oParam, executed, overlapped, crashed>>
    BY <1>3 DEF HandlerRpcResponeCB, callerVars, clientVars, netVars, serverVars, objectVars
  <2>3. cbq' \in [Caller -> Seq(Seqs)] /\ returned' \subseteq Seqs
    BY <1>3, <2>1 DEF HandlerRpcResponeCB, TypeOK
  <2> QED BY <2>2, <2>3 DEF TypeOK
<1>4. ASSUME Connected PROVE TypeOK'
  <2>1. UNCHANGED <<calls, pending, pc, wg, outcome, result, callRequest, hpc, serving, iparam, oParam, executed, overlapped, cbq, returned, crashed>>
    BY <1>4 DEF Connected, callerVars, objectVars
  <2>2. agentUp' \in BOOLEAN
    BY <1>4 DEF Connected
  <2>3. cpc' = "read" /\ link' = "up" /\ c2s' = <<>> /\ s2c' = <<>>
    BY <1>4 DEF Connected
  <2> QED BY <2>1, <2>2, <2>3 DEF TypeOK
<1>5. ASSUME RunReply PROVE TypeOK'
  <2> DEFINE r == Head(s2c)
             R == [seq : Seqs, err : BOOLEAN, val : Seqs \cup {NoSeq}]
  <2>1. r \in R /\ Tail(s2c) \in Seq(R) /\ s2c' = Tail(s2c)
    BY <1>5, SeqTail DEF RunReply, TypeOK
  <2>2. UNCHANGED <<calls, cpc, wg, link, c2s, agentUp, callRequest, hpc, serving, iparam, oParam, executed, overlapped>>
    BY <1>5 DEF RunReply, callerVars, serverVars, objectVars
  <2>3. CASE ~(~r.err /\ r.seq \in pending)
    <3>1. UNCHANGED <<callerVars, outcome, result, cbq, returned, crashed>>
      BY <1>5, <2>3 DEF RunReply
    <3> QED BY <2>1, <2>2, <3>1 DEF TypeOK, callerVars
  <2>4. CASE ~r.err /\ r.seq \in pending
    <3> DEFINE v == Verdict(r.seq)
               b == calls[r.seq].by
    <3>0. /\ pending' = pending \ {r.seq}
          /\ outcome' = [outcome EXCEPT ![r.seq] = v]
          /\ result' = IF v = "lost" THEN result ELSE [result EXCEPT ![r.seq] = r.val]
          /\ crashed' = (v = "panic")
          /\ cbq' = IF v = "callback" THEN [cbq EXCEPT ![b] = Append(@, r.seq)] ELSE cbq
          /\ pc' = IF v = "strobe" THEN [pc EXCEPT ![b].at = "idle"] ELSE pc
          /\ returned' = IF v = "strobe" THEN returned \cup {r.seq} ELSE returned
      BY <1>5, <2>4 DEF RunReply
    <3>1. r.seq \in Made /\ r.val \in Seqs \cup {NoSeq} /\ r.seq \in Seqs
      BY <1>0, <2>1, <2>4 DEF TypeOK, Made
    <3>2. b \in Caller
      <4>1. calls \in Seq([by : Caller, kind : Kinds, fate : Fates, muti : BOOLEAN, sent : BOOLEAN, assigned : BOOLEAN])
        BY DEF TypeOK
      <4>2. calls[r.seq] \in [by : Caller, kind : Kinds, fate : Fates, muti : BOOLEAN, sent : BOOLEAN, assigned : BOOLEAN]
        BY <3>1, <4>1, ElementOfSeq DEF Made
      <4> QED BY <4>2
    <3>3. outcome' \in [Seqs -> {"none", "lost", "callback", "strobe", "panic"}]
      BY <3>0 DEF Verdict, TypeOK
    <3>4. result' \in [Seqs -> Seqs \cup {NoSeq}]
      BY <3>0, <3>1 DEF TypeOK
    <3>5. crashed' \in BOOLEAN
      BY <3>0
    <3>6. cbq' \in [Caller -> Seq(Seqs)]
      <4>1. cbq[b] \in Seq(Seqs)
        BY <3>2 DEF TypeOK
      <4>2. Append(cbq[b], r.seq) \in Seq(Seqs)
        BY <3>1, <4>1, SeqAppend
      <4> QED BY <3>0, <4>2 DEF TypeOK
    <3>7. pc' \in [Caller -> [at : {"idle", "write", "done"}, seq : Seqs \cup {NoSeq}]]
      BY <3>0, <3>2 DEF TypeOK
    <3>8. returned' \subseteq Seqs /\ pending' \subseteq 1..Len(calls)
      BY <3>0, <3>1 DEF TypeOK
    <3> QED BY <2>1, <2>2, <3>3, <3>4, <3>5, <3>6, <3>7, <3>8 DEF TypeOK
  <2> QED BY <2>3, <2>4
<1>6. ASSUME RunReadErr PROVE TypeOK'
  <2>1. UNCHANGED <<calls, pending, pc, wg, outcome, result, link, c2s, agentUp, callRequest, hpc, serving, iparam, oParam, executed, overlapped, cbq, returned, crashed>>
    BY <1>6 DEF RunReadErr, callerVars, serverVars, objectVars
  <2>2. cpc' \in {"dial", "wait"} /\ s2c' = <<>>
    BY <1>6 DEF RunReadErr
  <2> QED BY <2>1, <2>2 DEF TypeOK
<1>7. ASSUME Break PROVE TypeOK'
  <2>1. UNCHANGED <<calls, pending, pc, cpc, wg, outcome, result, c2s, s2c, agentUp, callRequest, hpc, serving, iparam, oParam, executed, overlapped, cbq, returned, crashed>>
    BY <1>7 DEF Break, callerVars, clientVars, serverVars, objectVars
  <2> QED BY <1>7, <2>1 DEF TypeOK, Break
<1>8. ASSUME AgentRequest PROVE TypeOK'
  <2>1. Head(c2s) \in Seqs /\ Tail(c2s) \in Seq(Seqs) /\ c2s' = Tail(c2s)
    BY <1>8, SeqTail DEF AgentRequest, TypeOK
  <2>2. UNCHANGED <<calls, pending, pc, cpc, wg, outcome, result, link, s2c, agentUp, serving, iparam, oParam, executed, overlapped, cbq, returned, crashed>>
    BY <1>8 DEF AgentRequest, callerVars, clientVars, objectVars
  <2>3. callRequest' \in Seq(Seqs)
    <3>1. callRequest' = callRequest \/ callRequest' = Append(callRequest, Head(c2s))
      BY <1>8 DEF AgentRequest
    <3>2. callRequest \in Seq(Seqs)
      BY DEF TypeOK
    <3>3. Append(callRequest, Head(c2s)) \in Seq(Seqs)
      BY <2>1, <3>2, SeqAppend
    <3> QED BY <3>1, <3>2, <3>3
  <2>4. hpc' \in [Seqs -> {"none", "decode", "invoke", "reply", "end"}]
    BY <1>8 DEF AgentRequest, TypeOK
  <2> QED BY <2>1, <2>2, <2>3, <2>4 DEF TypeOK
<1>9. ASSUME AgentReadErr PROVE TypeOK'
  <2>1. UNCHANGED <<calls, pending, pc, cpc, wg, outcome, result, link, s2c, callRequest, hpc, serving, iparam, oParam, executed, overlapped, cbq, returned, crashed>>
    BY <1>9 DEF AgentReadErr, callerVars, clientVars, objectVars
  <2>2. agentUp' \in BOOLEAN
    BY <1>9 DEF AgentReadErr
  <2>3. c2s' = <<>>
    BY <1>9 DEF AgentReadErr
  <2> QED BY <2>1, <2>2, <2>3 DEF TypeOK
<1>10. ASSUME TakeRequest PROVE TypeOK'
  <2>1. Head(callRequest) \in Seqs /\ Tail(callRequest) \in Seq(Seqs)
    BY <1>10, SeqTail DEF TakeRequest, TypeOK
  <2>2. UNCHANGED <<calls, pending, pc, cpc, wg, outcome, result, link, c2s, s2c, agentUp, iparam, oParam, executed, overlapped, cbq, returned, crashed>>
    BY <1>10 DEF TakeRequest, callerVars, clientVars, netVars, objectVars
  <2>3. serving' = serving \cup {Head(callRequest)} /\ callRequest' = Tail(callRequest)
        /\ Cardinality(serving) < GoRouterNum
        /\ hpc' = [hpc EXCEPT ![Head(callRequest)] = "decode"]
    BY <1>10 DEF TakeRequest
  <2>4. /\ IsFiniteSet(serving) /\ Cardinality(serving) \in Nat
        /\ \/ Cardinality(serving') = Cardinality(serving)
           \/ Cardinality(serving') = Cardinality(serving) + 1
    BY <2>3, Finite, FS_AddElement
  <2>5. Cardinality(serving') <= GoRouterNum
    BY <2>3, <2>4
  <2> QED BY <2>1, <2>2, <2>3, <2>5 DEF TypeOK
<1>11. ASSUME NEW q \in Seqs, Handler(q) PROVE TypeOK'
  <2> DEFINE R == [seq : Seqs, err : BOOLEAN, val : Seqs \cup {NoSeq}]
  <2>1. ASSUME NEW e \in BOOLEAN, NEW v \in Seqs \cup {NoSeq}, RequestHandle(q, e, v)
        PROVE  s2c' \in Seq(R)
    <3>1. [seq |-> q, err |-> e, val |-> v] \in R
      OBVIOUS
    <3>2. Append(s2c, [seq |-> q, err |-> e, val |-> v]) \in Seq(R)
      BY <3>1, SeqAppend DEF TypeOK
    <3> QED BY <2>1, <3>2 DEF RequestHandle, TypeOK
  <2>2. UNCHANGED <<calls, pending, pc, cpc, wg, outcome, result, link, c2s, agentUp, callRequest, cbq, returned, crashed>>
    BY <1>11 DEF Handler, Decode, Invoke, Reply, callerVars, clientVars, netVars
  <2>3. s2c' \in Seq(R)
    <3>1. CASE Decode(q)
      <4>1. \/ RequestHandle(q, TRUE, NoSeq) \/ UNCHANGED s2c
        BY <3>1 DEF Decode
      <4> QED BY <2>1, <4>1 DEF TypeOK
    <3>2. CASE Invoke(q)
      BY <3>2 DEF Invoke, netVars, TypeOK
    <3>3. CASE Reply(q)
      <4>1. (Fate(q) \in {"retErr", "badParam"}) \in BOOLEAN /\ oParam \in Seqs \cup {NoSeq}
        BY DEF TypeOK
      <4>2. RequestHandle(q, Fate(q) \in {"retErr", "badParam"}, oParam)
        BY <3>3 DEF Reply
      <4> QED BY <2>1, <4>1, <4>2
    <3> QED BY <1>11, <3>1, <3>2, <3>3 DEF Handler
  <2>4. serving' \subseteq serving
    BY <1>11 DEF Handler, Decode, Invoke, Reply, HandlerEnds
  <2>5. Cardinality(serving') <= GoRouterNum
    <3>1. /\ Cardinality(serving') <= Cardinality(serving) /\ Cardinality(serving) \in Nat
          /\ IsFiniteSet(serving')
      BY <2>4, Finite, FS_Subset
    <3>2. Cardinality(serving') \in Nat
      BY <3>1, FS_CardinalityType
    <3> QED BY <3>1, <3>2 DEF TypeOK
  <2>6. hpc' \in [Seqs -> {"none", "decode", "invoke", "reply", "end"}]
    BY <1>11 DEF Handler, Decode, Invoke, Reply, HandlerEnds, TypeOK
  <2>7. /\ iparam' \in Seqs \cup {NoSeq} /\ oParam' \in Seqs \cup {NoSeq}
        /\ overlapped' \subseteq Seqs
    BY <1>11 DEF Handler, Decode, Invoke, Reply, objectVars, Sharers, TypeOK
  <2>8. executed' \in Seq(Seqs)
    <3>1. executed' = executed \/ executed' = Append(executed, q)
      BY <1>11 DEF Handler, Decode, Invoke, Reply, objectVars
    <3>2. executed \in Seq(Seqs)
      BY DEF TypeOK
    <3>3. Append(executed, q) \in Seq(Seqs)
      BY <3>2, SeqAppend
    <3> QED BY <3>1, <3>2, <3>3
  <2> QED BY <2>2, <2>3, <2>4, <2>5, <2>6, <2>7, <2>8 DEF TypeOK
<1>12. CASE UNCHANGED vars
  BY <1>12 DEF TypeOK, vars, callerVars, clientVars, netVars, serverVars, objectVars
<1> QED BY <1>1, <1>2, <1>3, <1>4, <1>5, <1>6, <1>7, <1>8, <1>9, <1>10, <1>11, <1>12
        DEF Next, CallerStep, ClientStep, ServerStep

\* What PlaceInv says about a call depends on these variables only.
LEMMA PlaceKept ==
    ASSUME PlaceInv, UNCHANGED <<calls, pending, hpc, callRequest>>,
           pc' = pc, c2s' \in {c2s, <<>>}, s2c' \in {s2c, <<>>}
    PROVE  PlaceInv'
<1>1. Len(<<>>) = 0
  OBVIOUS
<1>2. WireInv' /\ WriteInv'
  BY <1>1 DEF PlaceInv, WireInv, WriteInv, Once, On, Made
<1>3. QueueInv' /\ HandlerInv'
  BY DEF PlaceInv, QueueInv, HandlerInv, Once, On, Made
<1>4. ReplyInv'
  BY <1>1 DEF PlaceInv, ReplyInv
<1> QED BY <1>2, <1>3, <1>4 DEF PlaceInv

\* Registering numbers the new call; the earlier ones stay what they were.
LEMMA Registered ==
    ASSUME TypeOK, NEW c \in Caller, NEW x \in Mix, Register(c, x[1], x[2], x[3], x[4], x[5])
    PROVE  LET n == Len(calls) + 1
           IN  /\ Len(calls) \in Nat /\ n \in Seqs /\ Len(calls') = n
               /\ Made' = Made \cup {n} /\ n \notin Made
               /\ calls'[n].by = c /\ \A q \in Made : calls'[q] = calls[q] /\ q < n
<1> DEFINE n == Len(calls) + 1
<1>1. Len(calls) \in Nat /\ Len(calls) < MaxCalls
  BY Finite DEF Register
<1>2. calls' = Append(calls, [by |-> c, kind |-> x[1], fate |-> x[2], muti |-> x[3], sent |-> x[4], assigned |-> x[5]])
  BY DEF Register
<1>3. [by |-> c, kind |-> x[1], fate |-> x[2], muti |-> x[3], sent |-> x[4], assigned |-> x[5]] \in
          [by : Caller, kind : Kinds, fate : Fates, muti : BOOLEAN, sent : BOOLEAN, assigned : BOOLEAN]
  <2>1. x \in Kinds \X Fates \X BOOLEAN \X BOOLEAN \X BOOLEAN
    BY RpcAssumption
  <2>2. x[1] \in Kinds /\ x[2] \in Fates /\ x[3] \in BOOLEAN /\ x[4] \in BOOLEAN /\ x[5] \in BOOLEAN
    BY <2>1
  <2> QED BY <2>2
<1>4. /\ Len(calls') = n /\ calls'[n].by = c
      /\ \A q \in 1..Len(calls) : calls'[q] = calls[q]
  BY <1>2, <1>3, SeqAppend DEF TypeOK
<1>5. /\ 1..n = 1..Len(calls) \cup {n} /\ n \notin 1..Len(calls) /\ n \in 1..MaxCalls
      /\ \A q \in 1..Len(calls) : q < n
  BY <1>1, RpcAssumption
<1> QED BY <1>1, <1>4, <1>5 DEF Made, Seqs

\* Registering: the new number is nowhere yet, and pending before it is written.
LEMMA PlaceRegister ==
    ASSUME TypeOK, PlaceInv, NEW c \in Caller, NEW x \in Mix, Register(c, x[1], x[2], x[3], x[4], x[5])
    PROVE  PlaceInv'
<1> DEFINE n == Len(calls) + 1
<1>1. /\ Len(calls) \in Nat /\ Made' = Made \cup {n} /\ n \notin Made /\ n \in Seqs
      /\ calls'[n].by = c /\ \A q \in Made : calls'[q] = calls[q]
  BY Registered
<1>2. /\ pending' = pending \cup {n} /\ pc' = [pc EXCEPT ![c] = [at |-> "write", seq |-> n]]
      /\ UNCHANGED <<c2s, s2c, callRequest, hpc>>
  BY DEF Register, netVars, serverVars, objectVars
<1>3. hpc[n] = "none" /\ ~On(c2s, n) /\ ~On(callRequest, n)
  BY <1>1 DEF PlaceInv, WireInv, QueueInv, HandlerInv
<1>4. WriteInv'
  <2> SUFFICES ASSUME NEW d \in Caller, pc'[d].at = "write"
               PROVE  /\ pc'[d].seq \in Made' /\ pc'[d].seq \in pending'
                      /\ hpc[pc'[d].seq] = "none" /\ calls'[pc'[d].seq].by = d
                      /\ ~On(c2s, pc'[d].seq) /\ ~On(callRequest, pc'[d].seq)
    BY <1>2 DEF WriteInv, On
  <2>1. CASE d = c
    <3>1. pc'[d].seq = n
      BY <1>2, <2>1 DEF TypeOK
    <3> QED BY <1>1, <1>2, <1>3, <2>1, <3>1
  <2>2. CASE d # c
    <3>1. pc'[d] = pc[d]
      BY <1>2, <2>2 DEF TypeOK
    <3>2. pc[d].at = "write"
      BY <3>1
    <3> QED BY <1>1, <1>2, <3>1, <3>2 DEF PlaceInv, WriteInv
  <2> QED BY <2>1, <2>2
<1>5. WireInv' /\ QueueInv'
  BY <1>1, <1>2 DEF PlaceInv, WireInv, QueueInv, On, Once
<1>6. HandlerInv'
  BY <1>1, <1>2 DEF PlaceInv, HandlerInv
<1>7. ReplyInv'
  BY <1>2 DEF PlaceInv, ReplyInv
<1> QED BY <1>4, <1>5, <1>6, <1>7 DEF PlaceInv

\* Writing: the number goes from its one caller to the wire, or is dropped.
LEMMA PlaceWrite ==
    ASSUME TypeOK, PlaceInv, NEW c \in Caller, WriteRequest(c)
    PROVE  PlaceInv'
<1> DEFINE q == pc[c].seq
<1>1. /\ pc[c].at = "write" /\ (c2s' = c2s \/ c2s' = Append(c2s, q))
      /\ UNCHANGED <<calls, pending, s2c, callRequest, hpc>>
  BY DEF WriteRequest, SendRequest, serverVars, objectVars
<1>2. /\ q \in Made /\ q \in pending /\ hpc[q] = "none" /\ calls[q].by = c
      /\ ~On(c2s, q) /\ ~On(callRequest, q)
  BY <1>1 DEF PlaceInv, WriteInv
<1>3. q \in Seqs /\ c2s \in Seq(Seqs)
  BY <1>2, Finite, RpcAssumption DEF Made, Seqs, TypeOK
<1>4. Once(c2s') /\ \A p : On(c2s', p) => On(c2s, p) \/ p = q
  <2>1. /\ Once(Append(c2s, q))
        /\ \A p : On(Append(c2s, q), p) => On(c2s, p) \/ p = q
    BY <1>2, <1>3, OnAppend DEF PlaceInv, WireInv
  <2> QED BY <1>1, <2>1 DEF PlaceInv, WireInv
<1>5. WriteInv'
  <2> SUFFICES ASSUME NEW d \in Caller, pc'[d].at = "write"
               PROVE  /\ pc'[d].seq \in Made /\ pc'[d].seq \in pending
                      /\ hpc[pc'[d].seq] = "none" /\ calls[pc'[d].seq].by = d
                      /\ ~On(c2s', pc'[d].seq) /\ ~On(callRequest, pc'[d].seq)
    BY <1>1 DEF WriteInv, On, Made
  <2>1. d # c
    BY DEF WriteRequest, TypeOK
  <2>2. pc'[d] = pc[d]
    BY <2>1 DEF WriteRequest, TypeOK
  <2>3. /\ pc[d].seq \in Made /\ pc[d].seq \in pending
        /\ hpc[pc[d].seq] = "none" /\ calls[pc[d].seq].by = d
        /\ ~On(c2s, pc[d].seq) /\ ~On(callRequest, pc[d].seq)
    BY <2>2 DEF PlaceInv, WriteInv
  <2>4. pc[d].seq # q
    BY <1>2, <2>1, <2>3
  <2>5. ~On(c2s', pc'[d].seq)
    BY <1>4, <2>2, <2>3, <2>4
  <2> QED BY <2>2, <2>3, <2>5
<1>6. WireInv'
  BY <1>1, <1>2, <1>4 DEF PlaceInv, WireInv, On, Once, Made
<1>7. QueueInv' /\ HandlerInv' /\ ReplyInv'
  BY <1>1 DEF PlaceInv, QueueInv, HandlerInv, ReplyInv, Once, On, Made
<1> QED BY <1>5, <1>6, <1>7 DEF PlaceInv

\* Client.Run takes a call out of pending only for its one reply without an
\* error, when the call has left every other place.
LEMMA PlaceReply ==
    ASSUME TypeOK, PlaceInv, RunReply
    PROVE  PlaceInv'
<1> DEFINE r == Head(s2c)
           R == [seq : Seqs, err : BOOLEAN, val : Seqs \cup {NoSeq}]
<1>1. /\ s2c # <<>> /\ s2c' = Tail(s2c) /\ UNCHANGED <<calls, c2s, callRequest, hpc>>
  BY DEF RunReply, serverVars, objectVars, callerVars
<1>2. s2c \in Seq(R)
  BY DEF TypeOK
<1>3. /\ r \in R /\ r = s2c[1] /\ Len(s2c) \in Nat \ {0} /\ Len(s2c') = Len(s2c) - 1
      /\ \A i \in 1..Len(s2c) - 1 : s2c'[i] = s2c[i + 1]
  BY <1>1, <1>2, SeqTail
<1>4. \A i \in 1..Len(s2c') : /\ i + 1 \in 1..Len(s2c) /\ i + 1 # 1
                              /\ s2c'[i] = s2c[i + 1]
  BY <1>3
<1>5. 1 \in 1..Len(s2c)
  BY <1>3
<1>6. ASSUME NEW i \in 1..Len(s2c'), NEW j \in 1..Len(s2c'), ~s2c'[i].err, ~s2c'[j].err,
             s2c'[i].seq = s2c'[j].seq
      PROVE  i = j
  <2>1. i + 1 = j + 1
    BY <1>4, <1>6 DEF PlaceInv, ReplyInv
  <2> QED BY <1>3, <2>1
<1>7. CASE ~(~r.err /\ r.seq \in pending)
  <2>1. UNCHANGED <<pending, pc>>
    BY <1>7 DEF RunReply, callerVars
  <2>2. WriteInv' /\ WireInv' /\ QueueInv' /\ HandlerInv'
    BY <1>1, <2>1 DEF PlaceInv, WriteInv, WireInv, QueueInv, HandlerInv, Once, On, Made
  <2>3. \A i \in 1..Len(s2c') : ~s2c'[i].err =>
            hpc'[s2c'[i].seq] = "end" /\ s2c'[i].seq \in pending'
    BY <1>1, <1>4, <2>1 DEF PlaceInv, ReplyInv
  <2>4. ReplyInv'
    BY <1>6, <2>3 DEF ReplyInv
  <2> QED BY <2>2, <2>4 DEF PlaceInv
<1>8. CASE ~r.err /\ r.seq \in pending
  <2>1. /\ pending' = pending \ {r.seq}
        /\ pc' = IF Verdict(r.seq) = "strobe" THEN [pc EXCEPT ![calls[r.seq].by].at = "idle"]
                                              ELSE pc
    BY <1>8 DEF RunReply
  <2>2. hpc[r.seq] = "end"
    BY <1>3, <1>5, <1>8 DEF PlaceInv, ReplyInv
  <2>3. \A c \in Caller : pc'[c].at = "write" => pc'[c] = pc[c]
    BY <2>1 DEF TypeOK
  <2>4. WriteInv'
    <3> SUFFICES ASSUME NEW c \in Caller, pc'[c].at = "write"
                 PROVE  /\ pc'[c].seq \in Made /\ pc'[c].seq \in pending'
                        /\ hpc[pc'[c].seq] = "none" /\ calls[pc'[c].seq].by = c
                        /\ ~On(c2s, pc'[c].seq) /\ ~On(callRequest, pc'[c].seq)
      BY <1>1 DEF WriteInv, Made
    <3>1. pc'[c] = pc[c]
      BY <2>3
    <3>2. pc[c].at = "write"
      BY <3>1
    <3>3. /\ pc[c].seq \in Made /\ pc[c].seq \in pending
          /\ hpc[pc[c].seq] = "none" /\ calls[pc[c].seq].by = c
          /\ ~On(c2s, pc[c].seq) /\ ~On(callRequest, pc[c].seq)
      BY <3>2 DEF PlaceInv, WriteInv
    <3>4. pc[c].seq # r.seq
      BY <2>2, <3>3
    <3>5. pc[c].seq \in pending'
      BY <2>1, <3>3, <3>4
    <3> QED BY <3>1, <3>3, <3>5
  <2>5. WireInv' /\ QueueInv'
    BY <1>1, <2>1, <2>2 DEF PlaceInv, WireInv, QueueInv, Once, On, Made
  <2>6. HandlerInv'
    BY <1>1, <2>1, <2>2 DEF PlaceInv, HandlerInv, Active, Made
  <2>7. \A i \in 1..Len(s2c') : ~s2c'[i].err => s2c'[i].seq # r.seq
    BY <1>3, <1>4, <1>5, <1>8 DEF PlaceInv, ReplyInv
  <2>8. \A i \in 1..Len(s2c') : ~s2c'[i].err =>
            hpc'[s2c'[i].seq] = "end" /\ s2c'[i].seq \in pending'
    BY <1>1, <1>4, <2>1, <2>7 DEF PlaceInv, ReplyInv
  <2>9. ReplyInv'
    BY <1>6, <2>8 DEF ReplyInv
  <2> QED BY <2>4, <2>5, <2>6, <2>9 DEF PlaceInv
<1> QED BY <1>7, <1>8

\* RpcAgent.Run takes a request off the wire, once.
LEMMA PlaceAgent ==
    ASSUME TypeOK, PlaceInv, AgentRequest
    PROVE  PlaceInv'
<1> DEFINE q == Head(c2s)
<1>1. /\ c2s # <<>> /\ c2s' = Tail(c2s) /\ UNCHANGED <<calls, pending, pc, s2c>>
      /\ \/ UNCHANGED <<callRequest, hpc>>
         \/ hpc' = [hpc EXCEPT ![q] = "decode"] /\ UNCHANGED callRequest
         \/ ~calls[q].muti /\ callRequest' = Append(callRequest, q) /\ UNCHANGED hpc
  BY DEF AgentRequest, callerVars
<1>2. c2s \in Seq(Seqs) /\ callRequest \in Seq(Seqs)
  BY DEF TypeOK
<1>3. /\ q \in Seqs /\ On(c2s, q) /\ Once(c2s') /\ ~On(c2s', q)
      /\ \A p : On(c2s', p) => On(c2s, p)
  BY <1>1, <1>2, OnTail, SeqTail DEF PlaceInv, WireInv
<1>4. q \in Made /\ q \in pending /\ hpc[q] = "none" /\ ~On(callRequest, q)
  BY <1>3 DEF PlaceInv, WireInv
<1>5. \A c \in Caller : pc[c].at = "write" => pc[c].seq # q
  BY <1>3 DEF PlaceInv, WriteInv
<1>6. CASE UNCHANGED <<callRequest, hpc>>
  BY <1>1, <1>3, <1>6 DEF PlaceInv, WriteInv, WireInv, QueueInv, HandlerInv, ReplyInv, Once, Made
<1>7. CASE hpc' = [hpc EXCEPT ![q] = "decode"] /\ UNCHANGED callRequest
  <2>1. hpc'[q] = "decode" /\ \A p \in Seqs : p # q => hpc'[p] = hpc[p]
    BY <1>3, <1>7 DEF TypeOK
  <2>2. Made \subseteq Seqs
    BY Finite
  <2>3. WriteInv'
    BY <1>1, <1>3, <1>5, <1>7, <2>1, <2>2 DEF PlaceInv, WriteInv, Made
  <2>4. WireInv' /\ QueueInv'
    BY <1>1, <1>3, <1>4, <1>7, <2>1 DEF PlaceInv, WireInv, QueueInv, Made
  <2>5. HandlerInv'
    BY <1>1, <1>4, <2>1 DEF PlaceInv, HandlerInv, Made
  <2>6. \A i \in 1..Len(s2c) : ~s2c[i].err => s2c[i].seq # q /\ s2c[i].seq \in Seqs
    <3>1. \A i \in 1..Len(s2c) : s2c[i].seq \in Seqs
      BY Finite
    <3> QED BY <1>4, <3>1 DEF PlaceInv, ReplyInv
  <2>7. ReplyInv'
    BY <1>1, <2>1, <2>6 DEF PlaceInv, ReplyInv
  <2> QED BY <2>3, <2>4, <2>5, <2>7 DEF PlaceInv
<1>8. CASE ~calls[q].muti /\ callRequest' = Append(callRequest, q) /\ UNCHANGED hpc
  <2>1. Once(callRequest') /\ \A p : On(callRequest', p) <=> On(callRequest, p) \/ p = q
    BY <1>2, <1>3, <1>4, <1>8, OnAppend DEF PlaceInv, QueueInv
  <2>2. WriteInv'
    BY <1>1, <1>3, <1>5, <1>8, <2>1 DEF PlaceInv, WriteInv, Made
  <2>3. WireInv'
    BY <1>1, <1>3, <1>8, <2>1 DEF PlaceInv, WireInv, Made
  <2>4. QueueInv'
    BY <1>1, <1>4, <1>8, <2>1 DEF PlaceInv, QueueInv, Made
  <2>5. HandlerInv' /\ ReplyInv'
    BY <1>1, <1>8 DEF PlaceInv, HandlerInv, ReplyInv, Made
  <2> QED BY <2>2, <2>3, <2>4, <2>5 DEF PlaceInv
<1> QED BY <1>1, <1>6, <1>7, <1>8

\* A goroutine of the service takes a request from the channel, once.
LEMMA PlaceTake ==
    ASSUME TypeOK, PlaceInv, TakeRequest
    PROVE  PlaceInv'
<1> DEFINE q == Head(callRequest)
<1>1. /\ callRequest # <<>> /\ callRequest' = Tail(callRequest)
      /\ hpc' = [hpc EXCEPT ![q] = "decode"] /\ UNCHANGED <<calls, pending, pc, c2s, s2c>>
  BY DEF TakeRequest, callerVars, netVars
<1>2. callRequest \in Seq(Seqs)
  BY DEF TypeOK
<1>3. /\ q \in Seqs /\ On(callRequest, q) /\ Once(callRequest') /\ ~On(callRequest', q)
      /\ \A p : On(callRequest', p) => On(callRequest, p)
  BY <1>1, <1>2, OnTail, SeqTail DEF PlaceInv, QueueInv
<1>4. q \in Made /\ q \in pending /\ hpc[q] = "none" /\ ~On(c2s, q)
  BY <1>3 DEF PlaceInv, QueueInv, WireInv
<1>5. \A c \in Caller : pc[c].at = "write" => pc[c].seq # q
  BY <1>3 DEF PlaceInv, WriteInv
<1>6. hpc'[q] = "decode" /\ \A p \in Seqs : p # q => hpc'[p] = hpc[p]
  BY <1>1, <1>3 DEF TypeOK
<1>7. Made \subseteq Seqs
  BY Finite
<1>8. WriteInv'
  BY <1>1, <1>3, <1>5, <1>6, <1>7 DEF PlaceInv, WriteInv, Made
<1>9. WireInv' /\ QueueInv'
  BY <1>1, <1>3, <1>4, <1>6 DEF PlaceInv, WireInv, QueueInv, Made
<1>10. HandlerInv'
  BY <1>1, <1>4, <1>6 DEF PlaceInv, HandlerInv, Made
<1>11. \A i \in 1..Len(s2c) : ~s2c[i].err => s2c[i].seq # q /\ s2c[i].seq \in Seqs
  <2>1. \A i \in 1..Len(s2c) : s2c[i].seq \in Seqs
    BY Finite
  <2> QED BY <1>4, <2>1 DEF PlaceInv, ReplyInv
<1>12. ReplyInv'
  BY <1>1, <1>6, <1>11 DEF PlaceInv, ReplyInv
<1> QED BY <1>8, <1>9, <1>10, <1>12 DEF PlaceInv

\* A handler answers without an error once, and is over when it does.
LEMMA PlaceHandler ==
    ASSUME TypeOK, PlaceInv, NEW q \in Seqs, Handler(q)
    PROVE  PlaceInv'
<1> DEFINE R == [seq : Seqs, err : BOOLEAN, val : Seqs \cup {NoSeq}]
<1>1. /\ UNCHANGED <<calls, pending, pc, c2s, callRequest>> /\ hpc[q] \in Active
      /\ \E h \in {"invoke", "reply", "end"} : hpc' = [hpc EXCEPT ![q] = h]
  BY DEF Handler, Decode, Invoke, Reply, HandlerEnds, callerVars, netVars, Active
<1>2. hpc'[q] \in {"invoke", "reply", "end"} /\ \A p \in Seqs : p # q => hpc'[p] = hpc[p]
  BY <1>1 DEF TypeOK
<1>3. Made \subseteq Seqs
  BY Finite
<1>4. q \in Made /\ q \in pending /\ ~On(c2s, q) /\ ~On(callRequest, q)
  BY <1>1 DEF PlaceInv, HandlerInv, WireInv, QueueInv, Active
<1>5. \A c \in Caller : pc[c].at = "write" => pc[c].seq # q
  BY <1>1 DEF PlaceInv, WriteInv, Active
<1>6. WriteInv'
  BY <1>1, <1>2, <1>3, <1>5 DEF PlaceInv, WriteInv, Made
<1>7. WireInv' /\ QueueInv'
  BY <1>1, <1>2, <1>4 DEF PlaceInv, WireInv, QueueInv, Made
<1>8. HandlerInv'
  BY <1>1, <1>2, <1>4 DEF PlaceInv, HandlerInv, Made
<1>9. \/ s2c' = s2c
      \/ \E e \in BOOLEAN, v \in Seqs \cup {NoSeq} :
            /\ s2c' = Append(s2c, [seq |-> q, err |-> e, val |-> v])
            /\ ~e => hpc' = [hpc EXCEPT ![q] = "end"]
  <2>1. CASE Decode(q)
    BY <2>1, TRUE \in BOOLEAN DEF Decode, RequestHandle
  <2>2. CASE Invoke(q)
    BY <2>2 DEF Invoke, netVars
  <2>3. CASE Reply(q)
    <3>1. (Fate(q) \in {"retErr", "badParam"}) \in BOOLEAN /\ oParam \in Seqs \cup {NoSeq}
      BY DEF TypeOK
    <3>2. /\ hpc' = [hpc EXCEPT ![q] = "end"]
          /\ \/ s2c' = s2c
             \/ s2c' = Append(s2c, [seq |-> q, err |-> Fate(q) \in {"retErr", "badParam"},
                                    val |-> oParam])
      BY <2>3 DEF Reply, RequestHandle, HandlerEnds
    <3> QED BY <3>1, <3>2
  <2> QED BY <2>1, <2>2, <2>3 DEF Handler
<1>10. \A i \in 1..Len(s2c) : ~s2c[i].err =>
           s2c[i].seq # q /\ hpc'[s2c[i].seq] = "end" /\ s2c[i].seq \in pending
  <2>1. \A i \in 1..Len(s2c) : s2c[i].seq \in Seqs
    BY Finite
  <2> QED BY <1>1, <1>2, <2>1 DEF PlaceInv, ReplyInv, Active
<1>11. CASE s2c' = s2c
  <2>1. ReplyInv'
    BY <1>1, <1>10, <1>11 DEF PlaceInv, ReplyInv
  <2> QED BY <1>6, <1>7, <1>8, <2>1 DEF PlaceInv
<1>12. ASSUME NEW e \in BOOLEAN, NEW v \in Seqs \cup {NoSeq},
              s2c' = Append(s2c, [seq |-> q, err |-> e, val |-> v]),
              ~e => hpc' = [hpc EXCEPT ![q] = "end"]
       PROVE  PlaceInv'
  <2> DEFINE r == [seq |-> q, err |-> e, val |-> v]
             n == Len(s2c) + 1
  <2>1. r \in R /\ s2c \in Seq(R) /\ r.err = e /\ r.seq = q
    BY DEF TypeOK
  <2>2. /\ Len(s2c) \in Nat /\ Len(s2c') = n /\ s2c'[n] = r
        /\ \A i \in 1..Len(s2c) : s2c'[i] = s2c[i]
    BY <1>12, <2>1, SeqAppend
  <2>3. \A i \in 1..Len(s2c') : i = n \/ i \in 1..Len(s2c)
    BY <2>2
  <2>4. ~e => hpc'[q] = "end"
    BY <1>12 DEF TypeOK
  <2>5. \A i \in 1..Len(s2c') : ~s2c'[i].err =>
            hpc'[s2c'[i].seq] = "end" /\ s2c'[i].seq \in pending'
    BY <1>1, <1>4, <1>10, <2>1, <2>2, <2>3, <2>4
  <2>6. ASSUME NEW i \in 1..Len(s2c'), NEW j \in 1..Len(s2c'), ~s2c'[i].err, ~s2c'[j].err,
               s2c'[i].seq = s2c'[j].seq
        PROVE  i = j
    <3>1. CASE i = n /\ j = n
      BY <3>1
    <3>2. CASE i = n /\ j \in 1..Len(s2c)
      BY <1>10, <2>1, <2>2, <2>6, <3>2
    <3>3. CASE i \in 1..Len(s2c) /\ j = n
      BY <1>10, <2>1, <2>2, <2>6, <3>3
    <3>4. CASE i \in 1..Len(s2c) /\ j \in 1..Len(s2c)
      BY <2>2, <2>6, <3>4 DEF PlaceInv, ReplyInv
    <3> QED BY <2>3, <3>1, <3>2, <3>3, <3>4
  <2>7. ReplyInv'
    BY <2>5, <2>6 DEF ReplyInv
  <2> QED BY <1>6, <1>7, <1>8, <2>7 DEF PlaceInv
<1> QED BY <1>9, <1>11, <1>12

\* Every step keeps a call at one place at a time.
LEMMA PlaceStep == TypeOK /\ PlaceInv /\ [Next]_vars => PlaceInv'
<1> SUFFICES ASSUME TypeOK, PlaceInv, [Next]_vars PROVE PlaceInv'
  OBVIOUS
<1>1. ASSUME NEW c \in Caller, HandlerRpcResponeCB(c) PROVE PlaceInv'
  BY <1>1, PlaceKept DEF HandlerRpcResponeCB, callerVars, netVars, serverVars, objectVars
<1>2. CASE Connected
  BY <1>2, PlaceKept DEF Connected, callerVars
<1>3. CASE RunReadErr
  BY <1>3, PlaceKept DEF RunReadErr, callerVars, serverVars, objectVars
<1>4. CASE Break
  BY <1>4, PlaceKept DEF Break, callerVars, serverVars, objectVars
<1>5. CASE AgentReadErr
  BY <1>5, PlaceKept DEF AgentReadErr, callerVars
<1>6. CASE UNCHANGED vars
  BY <1>6, PlaceKept DEF vars, callerVars, netVars, serverVars, objectVars
<1> QED BY <1>1, <1>2, <1>3, <1>4, <1>5, <1>6, PlaceRegister, PlaceWrite, PlaceReply,
           PlaceAgent, PlaceTake, PlaceHandler DEF Next, CallerStep, ClientStep, ServerStep

\* The invariant that makes a reply find its call is inductive.
LEMMA IInvHolds == Spec => []IInv
<1>1. IInv /\ [Next]_vars => IInv'
  BY TypeStep, PlaceStep DEF IInv
<1> QED BY InitInv, <1>1, PTL DEF Spec

\* The bookkeeping of Client.pending is right for any callers, any mix of
\* calls, any number of goroutines of the called service and any breaks of the
\* connection: a reply that Client.Run can read finds its call in pending.
THEOREM PendingSafe == Spec => []PendingInv
<1>1. IInv => PendingInv
  <2> SUFFICES ASSUME IInv PROVE ReplyFindsCall
    BY DEF IInv, PendingInv
  <2>1. DOMAIN s2c = 1..Len(s2c)
    BY DEF IInv, TypeOK
  <2> QED BY <2>1 DEF IInv, PlaceInv, ReplyInv, ReplyFindsCall
<1> QED BY IInvHolds, <1>1, PTL

-----------------------------------------------------------------------------
(***************************************************************************)
(* One goroutine in the called service (GoRouterNum = 1, what a service    *)
(* has unless it asks for more): the stages a request passes are queues,   *)
(* and at most one request without mutiCoroutine is in a handler.          *)
(***************************************************************************)
Behind(q) == On(callRequest, q) \/ On(c2s, q)

\* The goroutines of the service have the requests that came through its
\* channel; the others have one of their own.  A method runs once.
ServeInv ==
    /\ \A q \in Seqs : q \in serving <=> hpc[q] \in Active /\ ~calls[q].muti
    /\ \A i \in 1..Len(executed) : hpc[executed[i]] \in {"reply", "end"}

\* A caller that is writing has made no later call.
LastInv == \A c \in Caller, q \in Made : pc[c].at = "write" /\ calls[q].by = c => q <= pc[c].seq

\* The requests of one caller keep its order on the wire, in the channel, and
\* from one of these to the next.
QueuesInv ==
    /\ InOrder(calls, c2s) /\ InOrder(calls, callRequest)
    /\ \A p, q \in Seqs : On(callRequest, p) /\ On(c2s, q) /\ calls[p].by = calls[q].by => p < q

\* What is being served was called before what still waits.
AheadInv ==
    \A p, q \in Seqs : p \in serving /\ Behind(q) /\ calls[p].by = calls[q].by => p < q

\* What has run was called before what has not.
RanInv ==
    \A i \in 1..Len(executed), q \in Seqs :
        /\ Behind(q) \/ (q \in serving /\ hpc[q] # "reply")
        /\ ~calls[executed[i]].muti /\ calls[executed[i]].by = calls[q].by
        => executed[i] < q

OrderInv == LastInv /\ QueuesInv /\ AheadInv /\ RanInv /\ CallerOrder

\* No call has asked for mutiCoroutine.
NoMuti == \A q \in 1..Len(calls) : ~calls[q].muti

\* The method ran for v, or v is the zero value.
Ran(v) == v = NoSeq \/ On(executed, v)

\* A value in the shared objects is from a request that ran or is about to.
KnownValue(v) == Ran(v) \/ (v \in Seqs /\ hpc[v] = "invoke")
KnownInv == KnownValue(iparam) /\ KnownValue(oParam)

\* A request that nobody overlapped has the objects to itself: before its method
\* runs they hold its own value and older ones, and then its answer.
AloneInv == \A q \in Sharers : q \notin overlapped => Sharers = {q}
ParamInv ==
    \A q \in Seqs : hpc[q] = "invoke" /\ q \notin overlapped =>
        /\ Ran(oParam)
        /\ IF calls[q].sent THEN iparam = q ELSE Ran(iparam)
AnswerInv == \A q \in Seqs : hpc[q] = "reply" /\ q \notin overlapped => AnswerOf(q, oParam)

\* The answer travels with the reply.
ValueInv ==
    \A i \in 1..Len(s2c) :
        ~s2c[i].err /\ s2c[i].seq \notin overlapped => AnswerOf(s2c[i].seq, s2c[i].val)

\* Only a call that was made has an outcome.
OutcomeInv == \A q \in Seqs : outcome[q] # "none" => q \in Made

OwnInv == KnownInv /\ OutcomeInv /\ AloneInv /\ ParamInv /\ AnswerInv /\ ValueInv /\ ReplyIsOwn

SInv == IInv /\ ServeInv /\ OrderInv /\ OneAtATime

\* A goroutine of the service takes, and ends, what serving says it does.
LEMMA ServeStep == IInv /\ ServeInv /\ [Next]_vars => ServeInv'
<1> SUFFICES ASSUME IInv, ServeInv, [Next]_vars PROVE ServeInv'
  OBVIOUS
<1>0. /\ TypeOK /\ PlaceInv /\ Made \subseteq Seqs
      /\ \A i \in 1..Len(executed) : executed[i] \in Seqs
  BY Finite DEF IInv
<1>1. ASSUME NEW c \in Caller, NEW x \in Mix, Register(c, x[1], x[2], x[3], x[4], x[5]) PROVE ServeInv'
  <2>1. UNCHANGED <<serving, hpc, executed>>
    BY <1>1 DEF Register, serverVars, objectVars
  <2>2. \A q \in Made : calls'[q] = calls[q]
    BY <1>0, <1>1, Registered
  <2>3. \A q \in Seqs : hpc[q] \in Active => calls'[q].muti = calls[q].muti
    BY <1>0, <2>2 DEF PlaceInv, HandlerInv, Active
  <2> QED BY <2>1, <2>3 DEF ServeInv
<1>2. ASSUME UNCHANGED <<calls, serving, hpc, executed>> PROVE ServeInv'
  BY <1>2 DEF ServeInv
<1>3. CASE AgentRequest
  <2> DEFINE q == Head(c2s)
  <2>1. UNCHANGED <<calls, serving, executed>>
    BY <1>3 DEF AgentRequest, callerVars, objectVars
  <2>2. CASE UNCHANGED hpc
    BY <1>2, <2>1, <2>2
  <2>3. CASE calls[q].muti /\ hpc' = [hpc EXCEPT ![q] = "decode"]
    <3>1. q \in Seqs /\ hpc[q] = "none"
      <4>1. c2s # <<>> /\ c2s \in Seq(Seqs)
        BY <1>0, <1>3 DEF AgentRequest, TypeOK
      <4> QED BY <1>0, <4>1, SeqTail, OnTail DEF PlaceInv, WireInv
    <3>2. hpc'[q] = "decode" /\ \A p \in Seqs : p # q => hpc'[p] = hpc[p]
      BY <1>0, <2>3, <3>1 DEF TypeOK
    <3>3. ASSUME NEW p \in Seqs
          PROVE  p \in serving' <=> hpc'[p] \in Active /\ ~calls'[p].muti
      BY <2>1, <2>3, <3>1, <3>2 DEF ServeInv, Active
    <3>4. \A i \in 1..Len(executed) : executed[i] # q
      BY <3>1 DEF ServeInv
    <3>5. \A i \in 1..Len(executed') : hpc'[executed'[i]] \in {"reply", "end"}
      BY <1>0, <2>1, <3>2, <3>4 DEF ServeInv
    <3> QED BY <3>3, <3>5 DEF ServeInv
  <2> QED BY <1>3, <2>2, <2>3 DEF AgentRequest
<1>4. CASE TakeRequest
  <2> DEFINE q == Head(callRequest)
  <2>1. /\ UNCHANGED <<calls, executed>> /\ hpc' = [hpc EXCEPT ![q] = "decode"]
        /\ serving' = serving \cup {q} /\ callRequest # <<>> /\ callRequest \in Seq(Seqs)
    BY <1>0, <1>4 DEF TakeRequest, callerVars, objectVars, TypeOK
  <2>2. q \in Seqs /\ hpc[q] = "none" /\ ~calls[q].muti
    BY <1>0, <2>1, SeqTail, OnTail DEF PlaceInv, QueueInv
  <2>3. hpc'[q] = "decode" /\ \A p \in Seqs : p # q => hpc'[p] = hpc[p]
    BY <1>0, <2>1, <2>2 DEF TypeOK
  <2>4. ASSUME NEW p \in Seqs
        PROVE  p \in serving' <=> hpc'[p] \in Active /\ ~calls'[p].muti
    BY <2>1, <2>2, <2>3 DEF ServeInv, Active
  <2>5. \A i \in 1..Len(executed) : executed[i] # q
    BY <2>2 DEF ServeInv
  <2>6. \A i \in 1..Len(executed') : hpc'[executed'[i]] \in {"reply", "end"}
    BY <1>0, <2>1, <2>3, <2>5 DEF ServeInv
  <2> QED BY <2>4, <2>6 DEF ServeInv
<1>5. ASSUME NEW q \in Seqs, Handler(q) PROVE ServeInv'
  <2>1. CASE (Decode(q) \/ Reply(q)) /\ HandlerEnds(q)
    <3>1. /\ UNCHANGED <<calls, executed>> /\ hpc' = [hpc EXCEPT ![q] = "end"]
          /\ serving' = serving \ {q}
      BY <2>1 DEF Decode, Reply, HandlerEnds, callerVars, objectVars
    <3>2. hpc'[q] = "end" /\ \A p \in Seqs : p # q => hpc'[p] = hpc[p]
      BY <1>0, <3>1 DEF TypeOK
    <3>3. ASSUME NEW p \in Seqs
          PROVE  p \in serving' <=> hpc'[p] \in Active /\ ~calls'[p].muti
      BY <3>1, <3>2 DEF ServeInv, Active
    <3>4. \A i \in 1..Len(executed') : hpc'[executed'[i]] \in {"reply", "end"}
      BY <1>0, <3>1, <3>2 DEF ServeInv
    <3> QED BY <3>3, <3>4 DEF ServeInv
  <2>2. CASE Decode(q) /\ ~HandlerEnds(q)
    <3>1. /\ UNCHANGED <<calls, executed, serving>> /\ hpc' = [hpc EXCEPT ![q] = "invoke"]
          /\ hpc[q] = "decode"
      BY <2>2 DEF Decode, callerVars
    <3>2. hpc'[q] = "invoke" /\ \A p \in Seqs : p # q => hpc'[p] = hpc[p]
      BY <1>0, <3>1 DEF TypeOK
    <3>3. ASSUME NEW p \in Seqs
          PROVE  p \in serving' <=> hpc'[p] \in Active /\ ~calls'[p].muti
      BY <3>1, <3>2 DEF ServeInv, Active
    <3>4. \A i \in 1..Len(executed') : hpc'[executed'[i]] \in {"reply", "end"}
      BY <1>0, <3>1, <3>2 DEF ServeInv
    <3> QED BY <3>3, <3>4 DEF ServeInv
  <2>3. CASE Invoke(q)
    <3>1. /\ UNCHANGED <<calls, serving>> /\ hpc' = [hpc EXCEPT ![q] = "reply"]
          /\ hpc[q] = "invoke" /\ executed' = Append(executed, q) /\ executed \in Seq(Seqs)
      BY <1>0, <2>3 DEF Invoke, callerVars, TypeOK
    <3>2. hpc'[q] = "reply" /\ \A p \in Seqs : p # q => hpc'[p] = hpc[p]
      BY <1>0, <3>1 DEF TypeOK
    <3>3. ASSUME NEW p \in Seqs
          PROVE  p \in serving' <=> hpc'[p] \in Active /\ ~calls'[p].muti
      BY <3>1, <3>2 DEF ServeInv, Active
    <3>4. /\ Len(executed') = Len(executed) + 1 /\ executed'[Len(executed) + 1] = q
          /\ \A i \in 1..Len(executed) : executed'[i] = executed[i]
          /\ \A i \in 1..Len(executed') : i = Len(executed) + 1 \/ i \in 1..Len(executed)
      BY <3>1, SeqAppend
    <3>5. \A i \in 1..Len(executed') : hpc'[executed'[i]] \in {"reply", "end"}
      BY <1>0, <3>2, <3>4 DEF ServeInv
    <3> QED BY <3>3, <3>5 DEF ServeInv
  <2> QED BY <1>5, <2>1, <2>2, <2>3 DEF Handler, Reply
<1> QED BY <1>1, <1>2, <1>3, <1>4, <1>5
        DEF Next, CallerStep, ClientStep, ServerStep, WriteRequest, HandlerRpcResponeCB,
            Connected, RunReply, RunReadErr, Break, AgentReadErr, vars, callerVars, serverVars, objectVars

\* One goroutine has at most one request.
LEMMA OneServed ==
    ASSUME TypeOK, GoRouterNum = 1
    PROVE  /\ \A p, q \in serving : p = q
           /\ Cardinality(serving) < GoRouterNum => serving = {}
<1>1. IsFiniteSet(serving) /\ Cardinality(serving) \in Nat /\ Cardinality(serving) <= 1
  BY Finite DEF TypeOK
<1>2. Cardinality(serving) = 0 \/ Cardinality(serving) = 1
  BY <1>1
<1>3. Cardinality(serving) = 0 => serving = {}
  BY <1>1, FS_EmptySet
<1>4. Cardinality(serving) = 1 => \E x : serving = {x}
  BY <1>1, FS_Singleton
<1> QED BY <1>1, <1>2, <1>3, <1>4

\* The order is kept where requests only leave the wire.
LEMMA OrderKept ==
    ASSUME IInv, OrderInv, UNCHANGED <<calls, callRequest, serving, hpc, executed>>,
           c2s' \in {c2s, <<>>}, \A c \in Caller : pc'[c].at = "write" => pc'[c] = pc[c]
    PROVE  OrderInv'
<1>1. Len(<<>>) = 0
  OBVIOUS
<1>2. \A q : On(c2s', q) => On(c2s, q)
  BY <1>1 DEF On
<1>3. LastInv'
  BY DEF OrderInv, LastInv, Made
<1>4. InOrder(calls, c2s')
  BY <1>1 DEF OrderInv, QueuesInv, InOrder
<1>5. QueuesInv'
  BY <1>2, <1>4 DEF OrderInv, QueuesInv
<1>6. AheadInv' /\ RanInv'
  BY <1>2 DEF OrderInv, AheadInv, RanInv, Behind
<1>7. CallerOrder'
  BY DEF OrderInv, CallerOrder
<1> QED BY <1>3, <1>5, <1>6, <1>7 DEF OrderInv

\* A new call is later than all, and is on none of the queues yet.
LEMMA OrderRegister ==
    ASSUME IInv, ServeInv, OrderInv, NEW c \in Caller, NEW x \in Mix,
           Register(c, x[1], x[2], x[3], x[4], x[5])
    PROVE  OrderInv'
<1> DEFINE n == Len(calls) + 1
<1>1. /\ Made' = Made \cup {n} /\ n \notin Made /\ n \in Seqs
      /\ calls'[n].by = c /\ \A q \in Made : calls'[q] = calls[q] /\ q < n
      /\ Made \subseteq Seqs /\ Len(calls) \in Nat
  BY Registered, Finite DEF IInv
<1>2. /\ UNCHANGED <<c2s, callRequest, serving, hpc, executed>>
      /\ pc' = [pc EXCEPT ![c] = [at |-> "write", seq |-> n]]
  BY DEF Register, netVars, serverVars, objectVars
<1>3. \A q \in Seqs : On(c2s, q) \/ On(callRequest, q) \/ q \in serving => q \in Made
  BY DEF IInv, PlaceInv, WireInv, QueueInv, HandlerInv, ServeInv, Active
<1>4. \A i \in 1..Len(executed) : executed[i] \in Made
  BY Finite DEF IInv, PlaceInv, HandlerInv, ServeInv
<1>5. LastInv'
  <2> SUFFICES ASSUME NEW d \in Caller, NEW q \in Made', pc'[d].at = "write",
                      calls'[q].by = d
               PROVE  q <= pc'[d].seq
    BY DEF LastInv
  <2>1. CASE d = c
    <3>1. pc'[d].seq = n
      BY <1>2, <2>1 DEF IInv, TypeOK
    <3>2. q <= n
      BY <1>1 DEF Made
    <3> QED BY <3>1, <3>2
  <2>2. CASE d # c
    <3>1. q \in Made /\ calls[q].by = d
      BY <1>1, <2>2
    <3>2. pc'[d] = pc[d]
      BY <1>2, <2>2 DEF IInv, TypeOK
    <3> QED BY <3>1, <3>2 DEF OrderInv, LastInv
  <2> QED BY <2>1, <2>2
<1>6. ASSUME NEW s \in Seq(Seqs), InOrder(calls, s), \A q \in Seqs : On(s, q) => q \in Made
      PROVE  InOrder(calls', s)
  <2>1. \A i \in 1..Len(s) : s[i] \in Made
    BY <1>6, ElementOfSeq DEF On
  <2> QED BY <1>1, <1>6, <2>1 DEF InOrder
<1>7. QueuesInv'
  <2>1. InOrder(calls', c2s) /\ InOrder(calls', callRequest)
    BY <1>3, <1>6 DEF OrderInv, QueuesInv, IInv, TypeOK
  <2>2. \A p, q \in Seqs :
            On(callRequest, p) /\ On(c2s, q) /\ calls'[p].by = calls'[q].by => p < q
    BY <1>1, <1>3 DEF OrderInv, QueuesInv
  <2> QED BY <1>2, <2>1, <2>2 DEF QueuesInv
<1>8. AheadInv'
  BY <1>1, <1>2, <1>3 DEF OrderInv, AheadInv, Behind
<1>9. RanInv'
  BY <1>1, <1>2, <1>3, <1>4 DEF OrderInv, RanInv, Behind
<1>10. CallerOrder'
  <2>1. DOMAIN executed = 1..Len(executed)
    BY DEF IInv, TypeOK
  <2> QED BY <1>1, <1>2, <1>4, <2>1 DEF OrderInv, CallerOrder
<1> QED BY <1>5, <1>7, <1>8, <1>9, <1>10 DEF OrderInv

\* A caller writes its latest call, behind all its others.
LEMMA OrderWrite ==
    ASSUME IInv, ServeInv, OrderInv, NEW c \in Caller, WriteRequest(c)
    PROVE  OrderInv'
<1> DEFINE q == pc[c].seq
<1>1. /\ pc[c].at = "write" /\ (c2s' = c2s \/ c2s' = Append(c2s, q))
      /\ UNCHANGED <<calls, callRequest, serving, hpc, executed>>
  BY DEF WriteRequest, SendRequest, serverVars, objectVars
<1>2. \A d \in Caller : pc'[d].at = "write" => pc'[d] = pc[d]
  BY DEF WriteRequest, IInv, TypeOK
<1>3. CASE c2s' = c2s
  BY <1>1, <1>2, <1>3, OrderKept
<1>4. CASE c2s' = Append(c2s, q)
  <2>1. /\ q \in Made /\ q \in Seqs /\ hpc[q] = "none" /\ calls[q].by = c
        /\ ~On(c2s, q) /\ ~On(callRequest, q) /\ c2s \in Seq(Seqs) /\ Made \subseteq Seqs
    BY <1>1, Finite DEF IInv, PlaceInv, WriteInv, TypeOK
  <2>2. \A p \in Made : calls[p].by = c /\ p # q => p < q
    <3>1. \A p \in Made : calls[p].by = c => p <= q
      BY <1>1 DEF OrderInv, LastInv
    <3> QED BY <2>1, <3>1 DEF Made
  <2>3. /\ \A p : On(c2s', p) <=> On(c2s, p) \/ p = q
        /\ InOrder(calls, c2s) /\ (\A p : On(c2s, p) /\ calls[p].by = calls[q].by => p < q)
               => InOrder(calls, c2s')
    BY <1>4, <2>1, OnAppend
  <2>4. \A p : On(c2s, p) /\ calls[p].by = calls[q].by => p < q
    <3>1. \A p : On(c2s, p) => p \in Seqs
      BY <2>1, ElementOfSeq DEF On
    <3>2. \A p : On(c2s, p) => p \in Made /\ p # q
      BY <2>1, <3>1 DEF IInv, PlaceInv, WireInv
    <3> QED BY <2>1, <2>2, <3>2
  <2>5. InOrder(calls, c2s')
    BY <2>3, <2>4 DEF OrderInv, QueuesInv
  <2>6. \A p \in Seqs : On(callRequest, p) \/ p \in serving => p \in Made /\ p # q
    BY <2>1 DEF IInv, PlaceInv, QueueInv, HandlerInv, ServeInv, Active
  <2>7. \A i \in 1..Len(executed) : executed[i] \in Made /\ executed[i] # q
    BY <2>1, Finite DEF IInv, PlaceInv, HandlerInv, ServeInv
  <2>8. LastInv'
    BY <1>1, <1>2 DEF OrderInv, LastInv, Made
  <2>9. QueuesInv'
    BY <1>1, <2>1, <2>2, <2>3, <2>5, <2>6 DEF OrderInv, QueuesInv
  <2>10. AheadInv'
    BY <1>1, <2>1, <2>2, <2>3, <2>6 DEF OrderInv, AheadInv, Behind
  <2>11. RanInv'
    BY <1>1, <2>1, <2>2, <2>3, <2>7 DEF OrderInv, RanInv, Behind
  <2>12. CallerOrder'
    BY <1>1 DEF OrderInv, CallerOrder
  <2> QED BY <2>8, <2>9, <2>10, <2>11, <2>12 DEF OrderInv
<1> QED BY <1>1, <1>3, <1>4

\* RpcAgent.Run moves the oldest request on the wire to the end of the channel.
LEMMA OrderAgent ==
    ASSUME IInv, ServeInv, OrderInv, AgentRequest
    PROVE  OrderInv'
<1> DEFINE q == Head(c2s)
<1>1. /\ c2s # <<>> /\ c2s' = Tail(c2s) /\ UNCHANGED <<calls, pc, serving, executed>>
      /\ \/ UNCHANGED <<callRequest, hpc>>
         \/ hpc' = [hpc EXCEPT ![q] = "decode"] /\ UNCHANGED callRequest
         \/ callRequest' = Append(callRequest, q) /\ UNCHANGED hpc
  BY DEF AgentRequest, callerVars, objectVars
<1>2. c2s \in Seq(Seqs) /\ callRequest \in Seq(Seqs) /\ q \in Seqs
  BY <1>1, SeqTail DEF IInv, TypeOK
<1>3. /\ On(c2s, q) /\ \A p : On(c2s', p) => On(c2s, p)
      /\ InOrder(calls, c2s') /\ \A p : On(c2s', p) /\ calls[p].by = calls[q].by => q < p
  BY <1>1, <1>2, OnTail DEF OrderInv, QueuesInv
<1>4. hpc[q] = "none" /\ q \notin serving
  BY <1>2, <1>3 DEF IInv, PlaceInv, WireInv, ServeInv, Active
<1>5. /\ \A p : On(callRequest', p) => On(callRequest, p) \/ p = q
      /\ InOrder(calls, callRequest')
  <2>1. CASE UNCHANGED callRequest
    BY <2>1 DEF OrderInv, QueuesInv
  <2>2. CASE callRequest' = Append(callRequest, q)
    <3>1. /\ \A p : On(callRequest', p) <=> On(callRequest, p) \/ p = q
          /\ InOrder(calls, callRequest)
                 /\ (\A p : On(callRequest, p) /\ calls[p].by = calls[q].by => p < q)
             => InOrder(calls, callRequest')
      BY <1>2, <2>2, OnAppend
    <3>2. \A p : On(callRequest, p) => p \in Seqs
      BY <1>2, ElementOfSeq DEF On
    <3>3. \A p : On(callRequest, p) /\ calls[p].by = calls[q].by => p < q
      BY <1>2, <1>3, <3>2 DEF OrderInv, QueuesInv
    <3> QED BY <3>1, <3>3 DEF OrderInv, QueuesInv
  <2> QED BY <1>1, <2>1, <2>2
<1>6. \A p : Behind(p)' => Behind(p)
  <2>1. \A p : On(callRequest', p) \/ On(c2s', p) => On(callRequest, p) \/ On(c2s, p)
    BY <1>3, <1>5
  <2> QED BY <2>1 DEF Behind
<1>7. \A p \in serving : hpc'[p] = hpc[p]
  BY <1>1, <1>2, <1>4 DEF IInv, TypeOK
<1>8. LastInv'
  BY <1>1 DEF OrderInv, LastInv, Made
<1>9. \A p, r \in Seqs : On(callRequest', p) /\ On(c2s', r) /\ calls[p].by = calls[r].by => p < r
  BY <1>3, <1>5 DEF OrderInv, QueuesInv
<1>10. QueuesInv'
  BY <1>1, <1>3, <1>5, <1>9 DEF QueuesInv
<1>11. AheadInv'
  BY <1>1, <1>6 DEF OrderInv, AheadInv
<1>12. RanInv'
  BY <1>1, <1>6, <1>7 DEF OrderInv, RanInv
<1>13. CallerOrder'
  BY <1>1 DEF OrderInv, CallerOrder
<1> QED BY <1>8, <1>10, <1>11, <1>12, <1>13 DEF OrderInv

\* The one goroutine, idle, takes the oldest request of the channel.
LEMMA OrderTake ==
    ASSUME IInv, ServeInv, OrderInv, GoRouterNum = 1, TakeRequest
    PROVE  OrderInv'
<1> DEFINE q == Head(callRequest)
<1>1. /\ callRequest # <<>> /\ callRequest' = Tail(callRequest) /\ serving' = {q}
      /\ UNCHANGED <<calls, pc, c2s, executed>>
  <2>1. serving = {}
    BY OneServed DEF IInv, TakeRequest
  <2> QED BY <2>1 DEF TakeRequest, callerVars, netVars, objectVars
<1>2. callRequest \in Seq(Seqs) /\ q \in Seqs
  BY <1>1, SeqTail DEF IInv, TypeOK
<1>3. /\ On(callRequest, q) /\ \A p : On(callRequest', p) => On(callRequest, p)
      /\ InOrder(calls, callRequest')
      /\ \A p : On(callRequest', p) /\ calls[p].by = calls[q].by => q < p
  BY <1>1, <1>2, OnTail DEF OrderInv, QueuesInv
<1>4. LastInv'
  BY <1>1 DEF OrderInv, LastInv, Made
<1>5. QueuesInv'
  BY <1>1, <1>3 DEF OrderInv, QueuesInv
<1>6. AheadInv'
  BY <1>1, <1>3 DEF OrderInv, QueuesInv, AheadInv, Behind
<1>7. RanInv'
  BY <1>1, <1>3 DEF OrderInv, RanInv, Behind
<1>8. CallerOrder'
  BY <1>1 DEF OrderInv, CallerOrder
<1> QED BY <1>4, <1>5, <1>6, <1>7, <1>8 DEF OrderInv

\* A method runs after those its caller called before, and before the others.
LEMMA OrderInvoke ==
    ASSUME IInv, ServeInv, OrderInv, GoRouterNum = 1, NEW q \in Seqs, Invoke(q)
    PROVE  OrderInv'
<1> DEFINE n == Len(executed) + 1
<1>1. /\ UNCHANGED <<calls, pc, c2s, callRequest, serving>> /\ hpc[q] = "invoke"
      /\ hpc' = [hpc EXCEPT ![q] = "reply"] /\ executed' = Append(executed, q)
  BY DEF Invoke, callerVars, netVars
<1>2. /\ Len(executed) \in Nat /\ Len(executed') = n /\ executed'[n] = q
      /\ \A i \in 1..Len(executed) : executed'[i] = executed[i]
      /\ executed \in Seq(Seqs) /\ executed' \in Seq(Seqs)
  BY <1>1, SeqAppend DEF IInv, TypeOK
<1>3. \A i \in 1..Len(executed') : i = n \/ i \in 1..Len(executed)
  BY <1>2
<1>4. DOMAIN executed = 1..Len(executed) /\ DOMAIN executed' = 1..Len(executed')
  BY <1>2
<1>5. ~calls[q].muti => q \in serving
  BY <1>1 DEF ServeInv, Active
<1>6. hpc'[q] = "reply" /\ \A p \in Seqs : p # q => hpc'[p] = hpc[p]
  BY <1>1 DEF IInv, TypeOK
<1>7. \A i \in 1..Len(executed) : ~calls[executed[i]].muti /\ ~calls[q].muti
          /\ calls[executed[i]].by = calls[q].by => executed[i] < q
  BY <1>1, <1>5 DEF OrderInv, RanInv
<1>8. CallerOrder'
  <2> SUFFICES ASSUME NEW i \in 1..Len(executed'), NEW j \in 1..Len(executed'), i < j,
                      calls[executed'[i]].by = calls[executed'[j]].by,
                      ~calls[executed'[i]].muti, ~calls[executed'[j]].muti
               PROVE  executed'[i] < executed'[j]
    BY <1>1, <1>4 DEF CallerOrder
  <2>1. i \in 1..Len(executed)
    BY <1>2
  <2>2. CASE j = n
    BY <1>2, <1>7, <2>1, <2>2
  <2>3. CASE j \in 1..Len(executed)
    BY <1>2, <1>4, <2>1, <2>3 DEF OrderInv, CallerOrder
  <2> QED BY <1>3, <2>2, <2>3
<1>9. LastInv'
  BY <1>1 DEF OrderInv, LastInv, Made
<1>10. QueuesInv' /\ AheadInv'
  BY <1>1 DEF OrderInv, QueuesInv, AheadInv, Behind
<1>11. RanInv'
  <2> SUFFICES ASSUME NEW i \in 1..Len(executed'), NEW p \in Seqs,
                      Behind(p) \/ (p \in serving /\ hpc'[p] # "reply"),
                      ~calls[executed'[i]].muti, calls[executed'[i]].by = calls[p].by
               PROVE  executed'[i] < p
    BY <1>1 DEF RanInv, Behind
  <2>1. CASE i = n
    <3>1. q \in serving
      BY <1>2, <1>5, <2>1
    <3>2. Behind(p)
      BY <1>6, <3>1, OneServed DEF IInv
    <3> QED BY <1>2, <2>1, <3>1, <3>2 DEF OrderInv, AheadInv
  <2>2. CASE i \in 1..Len(executed)
    <3>1. Behind(p) \/ (p \in serving /\ hpc[p] # "reply")
      BY <1>6
    <3> QED BY <1>2, <2>2, <3>1 DEF OrderInv, RanInv
  <2> QED BY <1>3, <2>1, <2>2
<1> QED BY <1>8, <1>9, <1>10, <1>11 DEF OrderInv

\* The other steps of a handler take a request forward, or out of serving.
LEMMA OrderHandler ==
    ASSUME IInv, ServeInv, OrderInv, NEW q \in Seqs, Decode(q) \/ Reply(q)
    PROVE  OrderInv'
<1>1. /\ UNCHANGED <<calls, pc, c2s, callRequest, executed>>
  BY DEF Decode, Reply, callerVars, objectVars
<1>2. \A p \in Seqs : p \in serving' => p \in serving
  BY DEF Decode, Reply, HandlerEnds
<1>3. \A p \in Seqs : p \in serving' /\ hpc'[p] # "reply" => hpc[p] # "reply"
  <2>1. CASE Decode(q)
    <3>1. hpc[q] = "decode" /\ \A p \in Seqs : p # q => hpc'[p] = hpc[p]
      BY <2>1 DEF Decode, HandlerEnds, IInv, TypeOK
    <3> QED BY <3>1
  <2>2. CASE Reply(q)
    <3>1. serving' = serving \ {q} /\ \A p \in Seqs : p # q => hpc'[p] = hpc[p]
      BY <2>2 DEF Reply, HandlerEnds, IInv, TypeOK
    <3> QED BY <3>1
  <2> QED BY <2>1, <2>2
<1>4. LastInv' /\ QueuesInv' /\ CallerOrder'
  BY <1>1 DEF OrderInv, LastInv, QueuesInv, CallerOrder, Made
<1>5. AheadInv'
  BY <1>1, <1>2 DEF OrderInv, AheadInv, Behind
<1>6. RanInv'
  BY <1>1, <1>2, <1>3 DEF OrderInv, RanInv, Behind
<1> QED BY <1>4, <1>5, <1>6 DEF OrderInv

\* With one goroutine every step keeps the order of each caller.
LEMMA OrderStep ==
    ASSUME GoRouterNum = 1, IInv, ServeInv, OrderInv, [Next]_vars
    PROVE  OrderInv'
<1>1. ASSUME NEW c \in Caller, HandlerRpcResponeCB(c) PROVE OrderInv'
  BY <1>1, OrderKept DEF HandlerRpcResponeCB, callerVars, netVars, serverVars, objectVars
<1>2. CASE Connected
  BY <1>2, OrderKept DEF Connected, callerVars, objectVars
<1>3. CASE RunReadErr
  BY <1>3, OrderKept DEF RunReadErr, callerVars, serverVars, objectVars
<1>4. CASE Break
  BY <1>4, OrderKept DEF Break, callerVars, serverVars, objectVars
<1>5. CASE AgentReadErr
  BY <1>5, OrderKept DEF AgentReadErr, callerVars, objectVars
<1>6. CASE RunReply
  <2>1. UNCHANGED <<calls, callRequest, serving, hpc, executed, c2s>>
    BY <1>6 DEF RunReply, callerVars, serverVars, objectVars
  <2>2. pc' = pc \/ \E b : pc' = [pc EXCEPT ![b].at = "idle"]
    BY <1>6 DEF RunReply, callerVars
  <2>3. \A c \in Caller : pc'[c].at = "write" => pc'[c] = pc[c]
    BY <2>2 DEF IInv, TypeOK
  <2> QED BY <2>1, <2>3, OrderKept
<1>7. CASE UNCHANGED vars
  BY <1>7, OrderKept DEF vars, callerVars, netVars, serverVars, objectVars
<1> QED BY <1>1, <1>2, <1>3, <1>4, <1>5, <1>6, <1>7, OrderRegister, OrderWrite, OrderAgent,
           OrderTake, OrderInvoke, OrderHandler
        DEF Next, CallerStep, ClientStep, ServerStep, Handler

\* What has run stays run, and the answers stay answers, when more requests run.
LEMMA AnswerKept ==
    ASSUME TypeOK, NEW q \in Seqs,
           executed' = executed \/ (executed' = Append(executed, q)), UNCHANGED calls
    PROVE  /\ \A v : Ran(v) => Ran(v)'
           /\ \A p \in Seqs : \A v : AnswerOf(p, v) => AnswerOf(p, v)'
           /\ executed' = Append(executed, q) =>
                  Ran(q)' /\ \A v : Ran(v) => v = NoSeq \/ RanBefore(v, q)'
<1>1. executed \in Seq(Seqs) /\ DOMAIN executed = 1..Len(executed) /\ Len(executed) \in Nat
  BY DEF TypeOK
<1>2. CASE executed' = executed
  <2>1. \A v : Ran(v) => Ran(v)'
    BY <1>2 DEF Ran, On
  <2>2. \A p \in Seqs : \A v : AnswerOf(p, v) => AnswerOf(p, v)'
    BY <1>2 DEF AnswerOf, RanBefore
  <2>3. executed # Append(executed, q)
    <3>1. Len(Append(executed, q)) = Len(executed) + 1
      BY <1>1, SeqAppend
    <3>2. \A n \in Nat : n # n + 1
      OBVIOUS
    <3> QED BY <1>1, <3>1, <3>2
  <2> QED BY <1>2, <2>1, <2>2, <2>3
<1>3. CASE executed' = Append(executed, q)
  <2> DEFINE n == Len(executed) + 1
  <2>1. /\ Len(executed') = n /\ executed'[n] = q /\ executed' \in Seq(Seqs)
        /\ \A i \in 1..Len(executed) : executed'[i] = executed[i]
    BY <1>1, <1>3, SeqAppend
  <2>2. /\ DOMAIN executed' = 1..n /\ n \in 1..n /\ 1..Len(executed) \subseteq 1..n
        /\ \A i \in 1..Len(executed) : i < n
    BY <1>1, <2>1
  <2>3. \A v : On(executed, v) => On(executed', v)
    BY <1>1, <2>1, <2>2 DEF On
  <2>4. On(executed', q)
    BY <2>1, <2>2 DEF On
  <2>5. \A p, v : RanBefore(v, p) => RanBefore(v, p)'
    BY <1>1, <2>1, <2>2 DEF RanBefore
  <2>6. \A v : On(executed, v) => RanBefore(v, q)'
    BY <1>1, <2>1, <2>2 DEF RanBefore, On
  <2> QED BY <2>3, <2>4, <2>5, <2>6 DEF Ran, AnswerOf
<1> QED BY <1>2, <1>3

\* The steps that leave the handlers and what they computed alone.
LEMMA OwnKept ==
    ASSUME OwnInv, UNCHANGED <<calls, outcome, result, objectVars>>, s2c' \in {s2c, <<>>},
           \A q \in Seqs : hpc'[q] = hpc[q] \/ (hpc[q] = "none" /\ hpc'[q] = "decode")
    PROVE  OwnInv'
<1>1. UNCHANGED <<iparam, oParam, executed, overlapped>>
  BY DEF objectVars
<1>2. Sharers' = Sharers
  BY DEF Sharers
<1>3. \A v : (Ran(v) <=> Ran(v)') /\ \A q : AnswerOf(q, v) <=> AnswerOf(q, v)'
  BY <1>1 DEF Ran, AnswerOf, RanBefore, On
<1>4. Len(<<>>) = 0
  OBVIOUS
<1>5. KnownInv' /\ OutcomeInv' /\ AloneInv'
  BY <1>1, <1>2, <1>3 DEF OwnInv, KnownInv, KnownValue, OutcomeInv, AloneInv, Made
<1>6. ParamInv' /\ AnswerInv'
  BY <1>1, <1>3 DEF OwnInv, ParamInv, AnswerInv
<1>7. ValueInv'
  <2>1. CASE s2c' = s2c
    BY <1>1, <1>3, <2>1 DEF OwnInv, ValueInv
  <2>2. CASE s2c' = <<>>
    BY <1>4, <2>2 DEF ValueInv
  <2> QED BY <2>1, <2>2
<1>8. ReplyIsOwn'
  BY <1>1, <1>3 DEF OwnInv, ReplyIsOwn
<1> QED BY <1>5, <1>6, <1>7, <1>8 DEF OwnInv

\* A new call changes nothing of the calls that were made.
LEMMA OwnRegister ==
    ASSUME IInv, OwnInv, NEW c \in Caller, NEW x \in Mix,
           Register(c, x[1], x[2], x[3], x[4], x[5])
    PROVE  OwnInv'
<1>1. /\ Made \subseteq Made' /\ \A q \in Made : calls'[q] = calls[q]
  BY Registered DEF IInv
<1>2. UNCHANGED <<s2c, hpc, outcome, result, iparam, oParam, executed, overlapped>>
  BY DEF Register, clientVars, netVars, serverVars, objectVars
<1>3. Sharers' = Sharers /\ \A v : Ran(v) <=> Ran(v)'
  BY <1>2 DEF Sharers, Ran, On
<1>4. \A q \in Made : \A v : AnswerOf(q, v) <=> AnswerOf(q, v)'
  BY <1>1, <1>2 DEF AnswerOf, RanBefore
<1>5. \A q \in Seqs : hpc[q] # "none" => q \in Made
  BY DEF IInv, PlaceInv, HandlerInv
<1>6. \A i \in 1..Len(s2c) : ~s2c[i].err => s2c[i].seq \in Made
  <2>1. \A i \in 1..Len(s2c) : s2c[i].seq \in Seqs
    BY Finite DEF IInv
  <2> QED BY <1>5, <2>1 DEF IInv, PlaceInv, ReplyInv
<1>7. KnownInv' /\ OutcomeInv' /\ AloneInv'
  BY <1>1, <1>2, <1>3 DEF OwnInv, KnownInv, KnownValue, OutcomeInv, AloneInv
<1>8. ParamInv' /\ AnswerInv'
  BY <1>1, <1>2, <1>3, <1>4, <1>5 DEF OwnInv, ParamInv, AnswerInv
<1>9. ValueInv'
  BY <1>2, <1>4, <1>6 DEF OwnInv, ValueInv
<1>10. ReplyIsOwn'
  BY <1>2, <1>4 DEF OwnInv, OutcomeInv, ReplyIsOwn
<1> QED BY <1>7, <1>8, <1>9, <1>10 DEF OwnInv

\* Client.Run stores the value the reply carries.
LEMMA OwnReply ==
    ASSUME IInv, OwnInv, RunReply
    PROVE  OwnInv'
<1> DEFINE r == Head(s2c)
           R == [seq : Seqs, err : BOOLEAN, val : Seqs \cup {NoSeq}]
<1>1. /\ s2c # <<>> /\ s2c' = Tail(s2c)
      /\ UNCHANGED <<calls, hpc, iparam, oParam, executed, overlapped>>
  BY DEF RunReply, serverVars, objectVars, callerVars
<1>2. Sharers' = Sharers /\ \A v : (Ran(v) <=> Ran(v)') /\ \A q : AnswerOf(q, v) <=> AnswerOf(q, v)'
  BY <1>1 DEF Sharers, Ran, On, AnswerOf, RanBefore
<1>3. s2c \in Seq(R)
  BY DEF IInv, TypeOK
<1>4. /\ r \in R /\ r = s2c[1] /\ Len(s2c) \in Nat \ {0} /\ Len(s2c') = Len(s2c) - 1
      /\ \A i \in 1..Len(s2c) - 1 : s2c'[i] = s2c[i + 1]
  BY <1>1, <1>3, SeqTail
<1>5. \A i \in 1..Len(s2c') : i + 1 \in 1..Len(s2c) /\ s2c'[i] = s2c[i + 1]
  BY <1>4
<1>6. 1 \in 1..Len(s2c)
  BY <1>4
<1>7. KnownInv' /\ AloneInv' /\ ParamInv' /\ AnswerInv'
  BY <1>1, <1>2 DEF OwnInv, KnownInv, KnownValue, AloneInv, ParamInv, AnswerInv
<1>8. ValueInv'
  BY <1>1, <1>2, <1>5 DEF OwnInv, ValueInv
<1>9. OutcomeInv' /\ ReplyIsOwn'
  <2>1. CASE ~(~r.err /\ r.seq \in pending)
    <3>1. UNCHANGED <<outcome, result>>
      BY <2>1 DEF RunReply
    <3> QED BY <1>1, <1>2, <3>1 DEF OwnInv, OutcomeInv, ReplyIsOwn, Made
  <2>2. CASE ~r.err /\ r.seq \in pending
    <3> DEFINE v == Verdict(r.seq)
    <3>1. /\ outcome' = [outcome EXCEPT ![r.seq] = v]
          /\ result' = IF v = "lost" THEN result ELSE [result EXCEPT ![r.seq] = r.val]
      BY <2>2 DEF RunReply
    <3>2. /\ r.seq \notin overlapped => AnswerOf(r.seq, r.val)
          /\ r.seq \in Seqs /\ r.seq \in Made
      BY <1>4, <1>6, <2>2 DEF OwnInv, ValueInv, IInv, TypeOK, Made
    <3>3. outcome'[r.seq] = v /\ \A q \in Seqs : q # r.seq => outcome'[q] = outcome[q]
      BY <3>1, <3>2 DEF IInv, TypeOK
    <3>4. \A q \in Seqs : q # r.seq => result'[q] = result[q]
      BY <3>1 DEF IInv, TypeOK
    <3>5. v # "lost" => result'[r.seq] = r.val
      BY <3>1, <3>2 DEF IInv, TypeOK
    <3>6. OutcomeInv'
      BY <1>1, <3>2, <3>3 DEF OwnInv, OutcomeInv, Made
    <3>7. ASSUME NEW q \in Seqs, outcome'[q] \in {"callback", "strobe"}, q \notin overlapped
          PROVE  AnswerOf(q, result'[q])
      <4>1. CASE q = r.seq
        BY <3>2, <3>3, <3>5, <3>7, <4>1
      <4>2. CASE q # r.seq
        BY <3>3, <3>4, <3>7, <4>2 DEF OwnInv, ReplyIsOwn
      <4> QED BY <4>1, <4>2
    <3>8. ReplyIsOwn'
      <4>1. ASSUME NEW q \in Seqs, outcome'[q] \in {"callback", "strobe"}, q \notin overlapped'
            PROVE  AnswerOf(q, result[q])'
        <5>1. AnswerOf(q, result'[q])
          BY <1>1, <3>7, <4>1
        <5> QED BY <1>1, <5>1 DEF AnswerOf, RanBefore
      <4> QED BY <4>1 DEF ReplyIsOwn
    <3> QED BY <3>6, <3>8
  <2> QED BY <2>1, <2>2
<1> QED BY <1>7, <1>8, <1>9 DEF OwnInv

\* Decoding writes the object; whoever finds others at it counts as overlapped.
LEMMA OwnDecode ==
    ASSUME IInv, ServeInv, OwnInv, NEW q \in Seqs, Decode(q), Fate(q) # "noMethod"
    PROVE  OwnInv'
<1>1. /\ UNCHANGED <<calls, outcome, result, oParam, executed>> /\ hpc[q] = "decode"
      /\ s2c' = s2c \/ s2c' = Append(s2c, [seq |-> q, err |-> TRUE, val |-> NoSeq])
      /\ iparam' = IF calls[q].sent THEN q ELSE iparam
      /\ overlapped' = IF Sharers = {} THEN overlapped ELSE overlapped \cup Sharers \cup {q}
  BY DEF Decode, RequestHandle, callerVars, clientVars
<1>2. hpc'[q] = "invoke" /\ \A p \in Seqs : p # q => hpc'[p] = hpc[p]
  BY DEF Decode, IInv, TypeOK
<1>3. \A v : (Ran(v) <=> Ran(v)') /\ \A p : AnswerOf(p, v) <=> AnswerOf(p, v)'
  BY <1>1 DEF Ran, On, AnswerOf, RanBefore
<1>4. q \notin Sharers /\ Sharers' = Sharers \cup {q}
  BY <1>1, <1>2 DEF Sharers
<1>5. \A p \in Seqs : p \notin overlapped' => p \notin overlapped
  BY <1>1
<1>6. \A p \in Sharers' : p \notin overlapped' => Sharers = {} /\ p = q
  BY <1>1, <1>4
<1>7. ~On(executed, q)
  BY <1>1 DEF ServeInv, On
<1>8. KnownInv'
  <2>1. KnownValue(iparam) /\ KnownValue(oParam)
    BY DEF OwnInv, KnownInv
  <2>2. \A v : KnownValue(v) => KnownValue(v)'
    BY <1>1, <1>2, <1>3 DEF KnownValue
  <2>3. KnownValue(q)'
    BY <1>2 DEF KnownValue
  <2>4. KnownValue(iparam)' /\ KnownValue(oParam)'
    BY <1>1, <2>1, <2>2, <2>3 DEF KnownValue
  <2> QED BY <2>4 DEF KnownInv
<1>9. OutcomeInv' /\ AloneInv'
  BY <1>1, <1>4, <1>6 DEF OwnInv, OutcomeInv, AloneInv, Made
<1>10. ParamInv'
  <2> SUFFICES ASSUME NEW p \in Seqs, hpc'[p] = "invoke", p \notin overlapped'
               PROVE  Ran(oParam)' /\ IF calls'[p].sent THEN iparam' = p ELSE Ran(iparam)'
    BY DEF ParamInv
  <2>1. Sharers = {} /\ p = q
    BY <1>6 DEF Sharers
  <2>2. \A v : KnownValue(v) => Ran(v)
    BY <2>1 DEF KnownValue, Sharers
  <2>3. Ran(oParam) /\ Ran(iparam)
    BY <2>2 DEF OwnInv, KnownInv
  <2> QED BY <1>1, <1>3, <2>1, <2>3 DEF Ran
<1>11. AnswerInv'
  BY <1>1, <1>2, <1>3, <1>5 DEF OwnInv, AnswerInv
<1>12. ValueInv'
  <2>1. \A i \in 1..Len(s2c') : ~s2c'[i].err => i \in 1..Len(s2c) /\ s2c'[i] = s2c[i]
    <3>1. CASE s2c' = s2c
      BY <3>1
    <3>2. CASE s2c' = Append(s2c, [seq |-> q, err |-> TRUE, val |-> NoSeq])
      <4> DEFINE r == [seq |-> q, err |-> TRUE, val |-> NoSeq]
                 n == Len(s2c) + 1
                 R == [seq : Seqs, err : BOOLEAN, val : Seqs \cup {NoSeq}]
      <4>1. r \in R /\ s2c \in Seq(R) /\ r.err = TRUE
        BY DEF IInv, TypeOK
      <4>2. /\ Len(s2c) \in Nat /\ Len(s2c') = n /\ s2c'[n] = r
            /\ \A i \in 1..Len(s2c) : s2c'[i] = s2c[i]
        BY <3>2, <4>1, SeqAppend
      <4>3. \A i \in 1..Len(s2c') : i = n \/ i \in 1..Len(s2c)
        BY <4>2
      <4> QED BY <4>1, <4>2, <4>3
    <3> QED BY <1>1, <3>1, <3>2
  <2>2. \A i \in 1..Len(s2c) : s2c[i].seq \in Seqs
    BY Finite DEF IInv
  <2> QED BY <1>3, <1>5, <2>1, <2>2 DEF OwnInv, ValueInv
<1>13. ReplyIsOwn'
  BY <1>1, <1>3, <1>5 DEF OwnInv, ReplyIsOwn
<1> QED BY <1>8, <1>9, <1>10, <1>11, <1>12, <1>13 DEF OwnInv

\* The method's answer is its own where nobody overlapped.
LEMMA OwnInvoke ==
    ASSUME IInv, ServeInv, OwnInv, NEW q \in Seqs, Invoke(q)
    PROVE  OwnInv'
<1>1. /\ UNCHANGED <<calls, outcome, result, s2c, iparam, overlapped>> /\ hpc[q] = "invoke"
      /\ executed' = Append(executed, q)
      /\ oParam' = IF calls[q].assigned THEN iparam ELSE oParam
  BY DEF Invoke, callerVars, clientVars, netVars
<1>2. hpc'[q] = "reply" /\ \A p \in Seqs : p # q => hpc'[p] = hpc[p]
  BY DEF Invoke, IInv, TypeOK
<1>3. /\ \A v : Ran(v) => Ran(v)'
      /\ \A p \in Seqs : \A v : AnswerOf(p, v) => AnswerOf(p, v)'
      /\ Ran(q)' /\ \A v : Ran(v) => v = NoSeq \/ RanBefore(v, q)'
  BY <1>1, AnswerKept DEF IInv
<1>4. q \in Sharers /\ Sharers' = Sharers
  BY <1>1, <1>2 DEF Sharers
<1>5. \A p \in Sharers : p \notin overlapped => p = q
  BY <1>4 DEF OwnInv, AloneInv
<1>6. KnownInv'
  <2>1. KnownValue(iparam) /\ KnownValue(oParam)
    BY DEF OwnInv, KnownInv
  <2>2. \A v : KnownValue(v) => KnownValue(v)'
    BY <1>2, <1>3 DEF KnownValue
  <2>3. KnownValue(iparam)' /\ KnownValue(oParam)'
    BY <1>1, <2>1, <2>2 DEF KnownValue
  <2> QED BY <2>3 DEF KnownInv
<1>7. OutcomeInv' /\ AloneInv'
  BY <1>1, <1>4 DEF OwnInv, OutcomeInv, AloneInv, Made
<1>8. ParamInv'
  <2>1. \A p \in Seqs : hpc'[p] = "invoke" => p # q /\ p \in Sharers
    BY <1>2, <1>4 DEF Sharers
  <2> QED BY <1>1, <1>5, <2>1 DEF ParamInv
<1>9. AnswerInv'
  <2> SUFFICES ASSUME NEW p \in Seqs, hpc'[p] = "reply", p \notin overlapped'
               PROVE  AnswerOf(p, oParam)'
    BY DEF AnswerInv
  <2>1. p = q
    BY <1>1, <1>4, <1>5 DEF Sharers
  <2>2. Ran(oParam) /\ IF calls[q].sent THEN iparam = q ELSE Ran(iparam)
    BY <1>1, <2>1 DEF OwnInv, ParamInv
  <2>3. CASE calls[q].sent /\ calls[q].assigned
    BY <1>1, <2>1, <2>2, <2>3 DEF AnswerOf
  <2>4. CASE ~(calls[q].sent /\ calls[q].assigned)
    <3>1. Ran(oParam')
      BY <1>1, <2>2, <2>4
    <3>2. oParam' = NoSeq \/ RanBefore(oParam, q)'
      BY <1>3, <3>1 DEF RanBefore
    <3> QED BY <1>1, <2>1, <2>4, <3>2 DEF AnswerOf
  <2> QED BY <2>3, <2>4
<1>10. ValueInv'
  <2>1. \A i \in 1..Len(s2c) : s2c[i].seq \in Seqs
    BY Finite DEF IInv
  <2> QED BY <1>1, <1>3, <2>1 DEF OwnInv, ValueInv
<1>11. ReplyIsOwn'
  BY <1>1, <1>3 DEF OwnInv, ReplyIsOwn
<1> QED BY <1>6, <1>7, <1>8, <1>9, <1>10, <1>11 DEF OwnInv

\* The answer goes with the reply; without the method there is none.
LEMMA OwnEnd ==
    ASSUME IInv, ServeInv, OwnInv, NEW q \in Seqs,
           Reply(q) \/ (Decode(q) /\ Fate(q) = "noMethod")
    PROVE  OwnInv'
<1> DEFINE R == [seq : Seqs, err : BOOLEAN, val : Seqs \cup {NoSeq}]
<1>1. /\ UNCHANGED <<calls, outcome, result, iparam, oParam, executed, overlapped>>
      /\ hpc[q] \in {"decode", "reply"} /\ hpc' = [hpc EXCEPT ![q] = "end"]
  BY DEF Reply, Decode, HandlerEnds, callerVars, clientVars, objectVars
<1>2. hpc'[q] = "end" /\ \A p \in Seqs : p # q => hpc'[p] = hpc[p]
  BY <1>1 DEF IInv, TypeOK
<1>3. \A v : (Ran(v) <=> Ran(v)') /\ \A p : AnswerOf(p, v) <=> AnswerOf(p, v)'
  BY <1>1 DEF Ran, On, AnswerOf, RanBefore
<1>4. Sharers' = Sharers \ {q}
  BY <1>2 DEF Sharers
<1>5. \E e \in BOOLEAN, v \in Seqs \cup {NoSeq} :
          /\ s2c' = s2c \/ s2c' = Append(s2c, [seq |-> q, err |-> e, val |-> v])
          /\ ~e /\ q \notin overlapped => AnswerOf(q, v)
  <2>1. CASE Reply(q)
    <3>1. (Fate(q) \in {"retErr", "badParam"}) \in BOOLEAN /\ oParam \in Seqs \cup {NoSeq}
      BY DEF IInv, TypeOK
    <3>2. s2c' = s2c \/ s2c' = Append(s2c, [seq |-> q, err |-> Fate(q) \in {"retErr", "badParam"},
                                            val |-> oParam])
      BY <2>1 DEF Reply, RequestHandle
    <3>3. q \notin overlapped => AnswerOf(q, oParam)
      BY <2>1 DEF Reply, OwnInv, AnswerInv
    <3> QED BY <3>1, <3>2, <3>3
  <2>2. CASE Decode(q) /\ Fate(q) = "noMethod"
    <3>1. s2c' = s2c \/ s2c' = Append(s2c, [seq |-> q, err |-> TRUE, val |-> NoSeq])
      BY <2>2 DEF Decode, RequestHandle
    <3> QED BY <3>1, TRUE \in BOOLEAN
  <2> QED BY <2>1, <2>2
<1>6. KnownInv' /\ OutcomeInv'
  BY <1>1, <1>2, <1>3 DEF OwnInv, KnownInv, KnownValue, OutcomeInv, Made
<1>7. AloneInv'
  BY <1>1, <1>4 DEF OwnInv, AloneInv
<1>8. ParamInv' /\ AnswerInv'
  BY <1>1, <1>2, <1>3 DEF OwnInv, ParamInv, AnswerInv
<1>9. ValueInv'
  <2> PICK e \in BOOLEAN, v \in Seqs \cup {NoSeq} :
          /\ s2c' = s2c \/ s2c' = Append(s2c, [seq |-> q, err |-> e, val |-> v])
          /\ ~e /\ q \notin overlapped => AnswerOf(q, v)
    BY <1>5
  <2>1. CASE s2c' = s2c
    BY <1>1, <1>3, <2>1 DEF OwnInv, ValueInv
  <2>2. CASE s2c' = Append(s2c, [seq |-> q, err |-> e, val |-> v])
    <3> DEFINE r == [seq |-> q, err |-> e, val |-> v]
               n == Len(s2c) + 1
    <3>1. r \in R /\ s2c \in Seq(R) /\ r.err = e /\ r.seq = q /\ r.val = v
      BY DEF IInv, TypeOK
    <3>2. /\ Len(s2c) \in Nat /\ Len(s2c') = n /\ s2c'[n] = r
          /\ \A i \in 1..Len(s2c) : s2c'[i] = s2c[i]
      BY <2>2, <3>1, SeqAppend
    <3>3. \A i \in 1..Len(s2c') : i = n \/ i \in 1..Len(s2c)
      BY <3>2
    <3>4. ASSUME NEW i \in 1..Len(s2c'), ~s2c'[i].err, s2c'[i].seq \notin overlapped
          PROVE  AnswerOf(s2c'[i].seq, s2c'[i].val)
      <4>1. CASE i = n
        BY <3>1, <3>2, <3>4, <4>1
      <4>2. CASE i \in 1..Len(s2c)
        BY <3>2, <3>4, <4>2 DEF OwnInv, ValueInv
      <4> QED BY <3>3, <4>1, <4>2
    <3> QED BY <1>1, <3>4 DEF ValueInv, AnswerOf, RanBefore
  <2> QED BY <2>1, <2>2
<1>10. ReplyIsOwn'
  BY <1>1, <1>3 DEF OwnInv, ReplyIsOwn
<1> QED BY <1>6, <1>7, <1>8, <1>9, <1>10 DEF OwnInv

\* Every step keeps the values with their calls, with any number of goroutines.
LEMMA OwnStep ==
    ASSUME IInv, ServeInv, OwnInv, [Next]_vars
    PROVE  OwnInv'
<1>1. ASSUME NEW c \in Caller, CallerStep(c) PROVE OwnInv'
  BY <1>1, OwnKept
     DEF CallerStep, WriteRequest, HandlerRpcResponeCB, callerVars, clientVars, netVars, serverVars
<1>2. CASE Connected
  BY <1>2, OwnKept DEF Connected, callerVars
<1>3. CASE RunReadErr
  BY <1>3, OwnKept DEF RunReadErr, callerVars, serverVars
<1>4. CASE Break
  BY <1>4, OwnKept DEF Break, callerVars, clientVars, serverVars
<1>5. CASE AgentReadErr
  BY <1>5, OwnKept DEF AgentReadErr, callerVars, clientVars
<1>6. CASE UNCHANGED vars
  BY <1>6, OwnKept DEF vars, callerVars, clientVars, netVars, serverVars
<1>7. CASE AgentRequest
  <2>1. UNCHANGED <<calls, outcome, result, objectVars, s2c>> \/ s2c' = s2c
    BY <1>7 DEF AgentRequest
  <2>2. UNCHANGED <<calls, outcome, result, objectVars, s2c>>
    BY <1>7 DEF AgentRequest, callerVars, clientVars
  <2>3. Head(c2s) \in Seqs /\ hpc[Head(c2s)] = "none"
    <3>1. c2s # <<>> /\ c2s \in Seq(Seqs)
      BY <1>7 DEF AgentRequest, IInv, TypeOK
    <3> QED BY <3>1, SeqTail, OnTail DEF IInv, PlaceInv, WireInv
  <2>4. hpc' = hpc \/ hpc' = [hpc EXCEPT ![Head(c2s)] = "decode"]
    BY <1>7 DEF AgentRequest
  <2>5. \A q \in Seqs : hpc'[q] = hpc[q] \/ (hpc[q] = "none" /\ hpc'[q] = "decode")
    BY <2>3, <2>4 DEF IInv, TypeOK
  <2> QED BY <2>2, <2>5, OwnKept
<1>8. CASE TakeRequest
  <2>1. UNCHANGED <<calls, outcome, result, objectVars, s2c>>
    BY <1>8 DEF TakeRequest, callerVars, clientVars, netVars
  <2>2. Head(callRequest) \in Seqs /\ hpc[Head(callRequest)] = "none"
    <3>1. callRequest # <<>> /\ callRequest \in Seq(Seqs)
      BY <1>8 DEF TakeRequest, IInv, TypeOK
    <3> QED BY <3>1, SeqTail, OnTail DEF IInv, PlaceInv, QueueInv
  <2>3. hpc' = [hpc EXCEPT ![Head(callRequest)] = "decode"]
    BY <1>8 DEF TakeRequest
  <2>4. \A q \in Seqs : hpc'[q] = hpc[q] \/ (hpc[q] = "none" /\ hpc'[q] = "decode")
    BY <2>2, <2>3 DEF IInv, TypeOK
  <2> QED BY <2>1, <2>4, OwnKept
<1>9. ASSUME NEW q \in Seqs, Handler(q) PROVE OwnInv'
  BY <1>9, OwnDecode, OwnInvoke, OwnEnd DEF Handler
<1> QED BY <1>1, <1>2, <1>3, <1>4, <1>5, <1>6, <1>7, <1>8, <1>9, OwnRegister, OwnReply
        DEF Next, ClientStep, ServerStep

\* With one goroutine, and while no call asks for mutiCoroutine, the request
\* that decodes is alone.
LEMMA AloneStep ==
    ASSUME GoRouterNum = 1, IInv, ServeInv, OneAtATime, [Next]_vars
    PROVE  OneAtATime'
<1> SUFFICES ASSUME NoMuti' PROVE overlapped' = {}
  BY DEF OneAtATime, NoMuti
<1>1. ASSUME UNCHANGED <<calls, overlapped>> PROVE overlapped' = {}
  BY <1>1 DEF OneAtATime, NoMuti
<1>2. ASSUME NEW c \in Caller, NEW x \in Mix, Register(c, x[1], x[2], x[3], x[4], x[5])
      PROVE  overlapped' = {}
  <2>1. Made \subseteq Made' /\ \A q \in Made : calls'[q] = calls[q]
    BY <1>2, Registered DEF IInv
  <2>2. NoMuti
    BY <2>1 DEF NoMuti, Made
  <2> QED BY <1>2, <2>2 DEF OneAtATime, NoMuti, Register, serverVars, objectVars
<1>3. ASSUME NEW q \in Seqs, Decode(q) PROVE overlapped' = {}
  <2>1. UNCHANGED calls /\ hpc[q] = "decode"
    BY <1>3 DEF Decode, callerVars
  <2>2. NoMuti /\ overlapped = {}
    BY <2>1 DEF NoMuti, OneAtATime
  <2>3. \A p \in Seqs : hpc[p] \in Active => p \in serving
    BY <2>2 DEF NoMuti, IInv, PlaceInv, HandlerInv, ServeInv, Made, Active
  <2>4. \A p \in Seqs : hpc[p] \in Active => p = q
    BY <2>1, <2>3, OneServed DEF IInv, Active
  <2>5. Sharers = {}
    BY <2>1, <2>4 DEF Sharers, Active
  <2> QED BY <1>3, <2>2, <2>5 DEF Decode
<1>4. ASSUME NEW q \in Seqs, Invoke(q) \/ Reply(q) PROVE overlapped' = {}
  BY <1>1, <1>4 DEF Invoke, Reply, callerVars, objectVars
<1> QED BY <1>1, <1>2, <1>3, <1>4
        DEF Next, CallerStep, ClientStep, ServerStep, Handler, WriteRequest, HandlerRpcResponeCB,
            Connected, RunReply, RunReadErr, Break, AgentRequest, AgentReadErr, TakeRequest, vars,
            callerVars, serverVars, objectVars

\* Initially nothing is served and nothing has run.
LEMMA OwnInit == Init => ServeInv /\ OwnInv
<1> SUFFICES ASSUME Init PROVE ServeInv /\ OwnInv
  OBVIOUS
<1>1. ServeInv
  BY DEF Init, ServeInv, Active
<1>2. OwnInv
  BY DEF Init, OwnInv, KnownInv, KnownValue, Ran, OutcomeInv, AloneInv, ParamInv, AnswerInv,
         ValueInv, ReplyIsOwn, Sharers
<1> QED BY <1>1, <1>2

\* A call whose request overlapped no other is completed with its own value in
\* what it sent and the method assigned, and with nothing of a request that had
\* not run before it: for any number of goroutines of the called service, with
\* and without mutiCoroutine, for any callers, mix and number of calls and any
\* breaks of the connection.
THEOREM AnswersSafe == Spec => []ReplyIsOwn
<1> DEFINE Inv == IInv /\ ServeInv /\ OwnInv
<1>1. Init => Inv
  BY InitInv, OwnInit
<1>2. Inv /\ [Next]_vars => Inv'
  BY TypeStep, PlaceStep, ServeStep, OwnStep DEF IInv
<1>3. Inv => ReplyIsOwn
  BY DEF OwnInv
<1> QED BY <1>1, <1>2, <1>3, PTL DEF Spec

\* A service with one goroutine runs the requests of each caller in the order
\* the caller made them, those that ask for a goroutine of their own aside; when
\* no call asks for one, no two requests use the shared objects at a time, and
\* so every call that is completed has the answer AnswersSafe speaks of.
THEOREM ServingSafe == ASSUME GoRouterNum = 1 PROVE Spec => []ServingInv
<1>1. Init => SInv
  <2> SUFFICES ASSUME Init PROVE SInv
    OBVIOUS
  <2>1. OrderInv
    BY DEF Init, OrderInv, LastInv, QueuesInv, AheadInv, RanInv, CallerOrder, Behind, InOrder,
           On, Made
  <2>2. OneAtATime
    BY DEF Init, OneAtATime
  <2> QED BY InitInv, OwnInit, <2>1, <2>2 DEF SInv
<1>2. SInv /\ [Next]_vars => SInv'
  BY TypeStep, PlaceStep, ServeStep, OrderStep, AloneStep DEF SInv, IInv
<1>3. SInv /\ ReplyIsOwn => ServingInv
  BY DEF SInv, OrderInv, ServingInv
<1> QED BY AnswersSafe, <1>1, <1>2, <1>3, PTL DEF Spec

-----------------------------------------------------------------------------
(***************************************************************************)
(* The framing below the calls.  Read has to find the length where it      *)
(* looks for one, whatever bytes the messages hold: so the invariant says  *)
(* where on the stream, that is what arrived and what is under way, every  *)
(* message that is written and not read begins (Cuts), and that the reader *)
(* is at such a place.  It rests on the arithmetic of the length: Uint     *)
(* reads what Put wrote, in both byte orders.                              *)
(***************************************************************************)

\* The joined beginnings of s, as FlattenSeq computes them.
Joins(f, s, n) == f = [i \in 1..n |-> IF i = 1 THEN s[i] ELSE f[i - 1] \o s[i]]

\* FlattenSeq keeps the elements.
LEMMA FlattenType ==
    ASSUME NEW B, NEW s \in Seq(Seq(B))
    PROVE  FlattenSeq(s) \in Seq(B)
<1> DEFINE S == {n \in Nat : \E f : Joins(f, s, n)}
<1>1. 0 \in S
  <2>1. Joins([i \in 1..0 |-> 0], s, 0)
    BY DEF Joins
  <2> QED BY <2>1
<1>2. ASSUME NEW n \in Nat, n \in S PROVE n + 1 \in S
  <2>1. PICK f : Joins(f, s, n)
    BY <1>2
  <2> DEFINE g == [i \in 1..(n + 1) |-> IF i = n + 1 THEN (IF i = 1 THEN s[i] ELSE f[i - 1] \o s[i])
                                         ELSE f[i]]
  <2>2. \A i \in 1..(n + 1) : g[i] = IF i = 1 THEN s[i] ELSE g[i - 1] \o s[i]
    <3> SUFFICES ASSUME NEW i \in 1..(n + 1) PROVE g[i] = IF i = 1 THEN s[i] ELSE g[i - 1] \o s[i]
      OBVIOUS
    <3>1. \A j \in 1..n : f[j] = IF j = 1 THEN s[j] ELSE f[j - 1] \o s[j]
      BY <2>1 DEF Joins
    <3>2. \A j \in 1..n : g[j] = f[j]
      OBVIOUS
    <3>3. i - 1 \in 1..n \/ i = 1
      OBVIOUS
    <3>4. i \in 1..n \/ i = n + 1
      OBVIOUS
    <3>5. g[n + 1] = IF n + 1 = 1 THEN s[n + 1] ELSE f[(n + 1) - 1] \o s[n + 1]
      OBVIOUS
    <3> HIDE DEF g
    <3> QED BY <3>1, <3>2, <3>3, <3>4, <3>5
  <2>3. g = [i \in 1..(n + 1) |-> g[i]]
    OBVIOUS
  <2> HIDE DEF g
  <2>4. Joins(g, s, n + 1)
    BY <2>2, <2>3 DEF Joins
  <2> QED BY <2>4
<1> HIDE DEF S
<1>3. Nat \subseteq S
  BY <1>1, <1>2, InductionSet
<1>4. Len(s) \in Nat /\ \A i \in 1..Len(s) : s[i] \in Seq(B)
  OBVIOUS
<1>5. CASE Len(s) = 0
  <2>1. FlattenSeq(s) = s /\ s = <<>>
    BY <1>5 DEF FlattenSeq
  <2> QED BY <2>1
<1>6. CASE Len(s) # 0
  <2> DEFINE f == CHOOSE f : Joins(f, s, Len(s))
  <2>1. Joins(f, s, Len(s))
    <3>1. \E h : Joins(h, s, Len(s))
      BY <1>3, <1>4 DEF S
    <3> QED BY <3>1
  <2>2. FlattenSeq(s) = f[Len(s)]
    BY <1>6 DEF FlattenSeq, Joins
  <2> HIDE DEF f
  <2> DEFINE N == Len(s)
  <2>3. f = [i \in 1..N |-> IF i = 1 THEN s[i] ELSE f[i - 1] \o s[i]]
    BY <2>1 DEF Joins
  <2>4. \A i \in 1..N : f[i] = IF i = 1 THEN s[i] ELSE f[i - 1] \o s[i]
    BY <2>3
  <2> DEFINE U == {i \in Nat : i \in 1..N => f[i] \in Seq(B)}
  <2>5. 0 \in U
    OBVIOUS
  <2>6. ASSUME NEW i \in Nat, i \in U PROVE i + 1 \in U
    <3> SUFFICES ASSUME i + 1 \in 1..N PROVE f[i + 1] \in Seq(B)
      OBVIOUS
    <3>1. s[i + 1] \in Seq(B)
      BY <1>4
    <3>2. CASE i = 0
      BY <2>4, <3>1, <3>2
    <3>3. CASE i # 0
      <4>1. f[i] \in Seq(B)
        BY <1>4, <2>6, <3>3
      <4>2. f[i + 1] = f[i] \o s[i + 1]
        <5>1. (i + 1) - 1 = i /\ i + 1 # 1
          BY <3>3
        <5>2. f[i + 1] = IF i + 1 = 1 THEN s[i + 1] ELSE f[(i + 1) - 1] \o s[i + 1]
          BY <2>4
        <5> QED BY <5>1, <5>2
      <4> QED BY <3>1, <4>1, <4>2
    <3> QED BY <3>2, <3>3
  <2> HIDE DEF U
  <2>7. Nat \subseteq U
    BY <2>5, <2>6, InductionSet
  <2> QED BY <1>4, <1>6, <2>2, <2>7 DEF U
<1> QED BY <1>5, <1>6

\* What SetMsgLen lets lenMsgLen be.
Widths == {1, 2, 4}

\* The powers of the base.
LEMMA Powers ==
    /\ Base \in Nat \ {0} /\ Power(0) = 1 /\ Power(1) = Base /\ Power(2) = Base * Base
    /\ Power(3) = Base * Base * Base /\ Power(4) = Base * Base * Base * Base
    /\ \A n \in 0..4 : Power(n) \in Nat \ {0}
    /\ \A n \in 0..3 : Power(n + 1) = Power(n) * Base
    /\ \A n \in Widths : MaxLen(n) \in Nat
<1>1. Base \in Nat \ {0}
  BY ParserAssumption
<1>2. \A x, y \in Nat \ {0} : x * y \in Nat \ {0}
  OBVIOUS
<1>3. /\ Power(0) = 1 /\ Power(1) = Base /\ Power(2) = Base * Base
      /\ Power(3) = Base * Base * Base /\ Power(4) = Base * Base * Base * Base
  BY DEF Power
<1>4. Base * Base \in Nat \ {0}
  BY <1>1, <1>2
<1>5. Base * Base * Base \in Nat \ {0}
  BY <1>1, <1>2, <1>4
<1>6. Base * Base * Base * Base \in Nat \ {0}
  BY <1>1, <1>2, <1>5
<1>7. \A n \in 0..4 : n = 0 \/ n = 1 \/ n = 2 \/ n = 3 \/ n = 4
  OBVIOUS
<1>8. \A n \in 0..4 : Power(n) \in Nat \ {0}
  BY <1>1, <1>3, <1>4, <1>5, <1>6, <1>7
<1>9. \A n \in 0..3 : Power(n + 1) = Power(n) * Base
  <2>1. Power(0 + 1) = Power(0) * Base /\ Power(1 + 1) = Power(1) * Base
    BY <1>1, <1>3
  <2>2. Power(2 + 1) = Power(2) * Base /\ Power(3 + 1) = Power(3) * Base
    BY <1>3
  <2>3. \A n \in 0..3 : n = 0 \/ n = 1 \/ n = 2 \/ n = 3
    OBVIOUS
  <2> QED BY <2>1, <2>2, <2>3
<1>10. \A n \in Widths : MaxLen(n) \in Nat
  BY <1>8 DEF Widths, MaxLen
<1> QED BY <1>1, <1>3, <1>8, <1>9, <1>10

\* The digit of weight Power(k) of v.
Digit(v, k) == (v \div Power(k)) % Base

\* A quotient and a digit make the quotient before.
LEMMA DigitStep ==
    ASSUME NEW v \in Nat, NEW k \in 0..3
    PROVE  /\ v \div Power(k) = (v \div Power(k + 1)) * Base + Digit(v, k)
           /\ v \div Power(k) \in Nat /\ v \div Power(k + 1) \in Nat /\ Digit(v, k) \in Byte
<1>1. /\ Power(k) \in Nat \ {0} /\ Base \in Nat \ {0} /\ Power(k + 1) = Power(k) * Base
      /\ Power(k + 1) \in Nat \ {0}
  <2>1. k \in 0..4 /\ k + 1 \in 0..4
    OBVIOUS
  <2> QED BY <2>1, Powers
<1> DEFINE q == v \div Power(k)
<1>2. q \in Nat
  BY <1>1, DivMod
<1>3. q \div Base = v \div Power(k + 1)
  BY <1>1, DivTwice
<1> HIDE DEF q
<1>4. q \div Base \in Nat /\ q % Base \in 0..(Base - 1) /\ q = (q \div Base) * Base + (q % Base)
  BY <1>1, <1>2, DivMod
<1>5. Digit(v, k) = q % Base
  BY DEF Digit, q
<1> HIDE DEF Digit
<1> QED BY <1>2, <1>3, <1>4, <1>5 DEF q, Byte

\* Above the highest digit nothing is left.
LEMMA DivZero ==
    ASSUME NEW n \in 0..4, NEW v \in 0..(Power(n) - 1)
    PROVE  v \div Power(n) = 0
<1> DEFINE p == Power(n)
<1>1. p \in Nat \ {0}
  BY Powers
<1> HIDE DEF p
<1>2. v \in 0..(p - 1)
  BY DEF p
<1>3. (0 * p + v) \div p = 0
  BY <1>1, <1>2, DivUnique
<1>4. 0 * p + v = v
  BY <1>1, <1>2
<1> QED BY <1>3, <1>4 DEF p

\* Uint reads what Put has written.
LEMMA RoundTripOf ==
    ASSUME NEW n \in Widths, NEW v \in 0..MaxLen(n), littleEndian \in BOOLEAN
    PROVE  Put(v, n) \in Seq(Byte) /\ Len(Put(v, n)) = n /\ Uint(Put(v, n)) = v
<1> DEFINE w(i) == IF littleEndian THEN i - 1 ELSE n - i
           b == Put(v, n)
           at(k) == b[IF littleEndian THEN k + 1 ELSE Len(b) - k]
<1>1. v \in Nat /\ n \in 0..4 /\ n \in Nat
  BY Powers DEF Widths
<1>2. \A i \in 1..n : w(i) \in 0..(n - 1) /\ w(i) \in 0..3
  BY DEF Widths
<1>3. b = [i \in 1..n |-> Digit(v, w(i))]
  BY DEF Put, Digit
<1> HIDE DEF b, w
<1>4. \A i \in 1..n : Digit(v, w(i)) \in Byte
  BY <1>1, <1>2, DigitStep
<1>5. b \in Seq(Byte) /\ Len(b) = n
  BY <1>1, <1>3, <1>4
<1>6. \A k \in 0..(n - 1) : at(k) = Digit(v, k)
  <2> SUFFICES ASSUME NEW k \in 0..(n - 1) PROVE at(k) = Digit(v, k)
    OBVIOUS
  <2> DEFINE i == IF littleEndian THEN k + 1 ELSE n - k
  <2>1. i \in 1..n
    BY <1>1
  <2>2. w(i) = k
    BY <1>1 DEF w
  <2>3. b[i] = Digit(v, w(i))
    BY <1>3, <2>1
  <2>4. at(k) = b[i]
    BY <1>5
  <2> QED BY <2>2, <2>3, <2>4
<1>7. v \div Power(n) = 0
  <2>1. v \in 0..(Power(n) - 1)
    BY DEF MaxLen
  <2> QED BY <1>1, <2>1, DivZero
<1>8. \A k \in 0..3 : /\ v \div Power(k) = (v \div Power(k + 1)) * Base + Digit(v, k)
                      /\ v \div Power(k) \in Nat /\ v \div Power(k + 1) \in Nat
                      /\ Digit(v, k) \in Byte
  BY <1>1, DigitStep
<1>9. v \div Power(0) = v
  <2>1. v \div 1 = v
    BY <1>1
  <2> QED BY <2>1, Powers
<1> DEFINE q(k) == v \div Power(k)
           d(k) == Digit(v, k)
<1>10. /\ q(0) = v /\ q(n) = 0
       /\ q(0) = q(1) * Base + d(0) /\ q(1) = q(2) * Base + d(1) /\ q(2) = q(3) * Base + d(2)
       /\ q(3) = q(4) * Base + d(3)
  <2>1. /\ 0 \in 0..3 /\ 1 \in 0..3 /\ 2 \in 0..3 /\ 3 \in 0..3
        /\ 0 + 1 = 1 /\ 1 + 1 = 2 /\ 2 + 1 = 3 /\ 3 + 1 = 4
    OBVIOUS
  <2> HIDE DEF Digit
  <2> QED BY <1>7, <1>8, <1>9, <2>1
<1>11. /\ d(0) \in Byte /\ d(1) \in Byte /\ d(2) \in Byte /\ d(3) \in Byte
       /\ q(1) \in Nat /\ q(2) \in Nat /\ q(3) \in Nat
  BY <1>8
<1> HIDE DEF q, d, at
<1>12. d(0) \in Nat /\ d(1) \in Nat /\ d(2) \in Nat /\ d(3) \in Nat
  BY <1>11 DEF Byte
<1>13. \A k \in 0..(n - 1) : at(k) = d(k)
  BY <1>6 DEF d
<1>14. Uint(b) = v
  <2>1. CASE n = 1
    <3>1. Uint(b) = at(0)
      BY <1>5, <2>1 DEF Uint, at
    <3>2. at(0) = d(0)
      BY <1>13, <2>1
    <3>3. q(1) = 0
      BY <1>10, <2>1
    <3>4. v = 0 * Base + d(0)
      BY <1>10, <3>3
    <3> QED BY <1>12, <3>1, <3>2, <3>4, Powers
  <2>2. CASE n = 2
    <3>1. Uint(b) = at(0) + at(1) * Base
      BY <1>5, <2>2, Powers DEF Uint, at
    <3>2. at(0) = d(0) /\ at(1) = d(1)
      BY <1>13, <2>2
    <3>3. q(2) = 0
      BY <1>10, <2>2
    <3>4. q(1) = d(1)
      BY <1>10, <1>12, <3>3, Powers
    <3>5. v = d(1) * Base + d(0)
      BY <1>10, <3>4
    <3> QED BY <1>12, <3>1, <3>2, <3>5, Powers
  <2>3. CASE n = 4
    <3>1. Uint(b) = at(0) + at(1) * Power(1) + at(2) * Power(2) + at(3) * Power(3)
      BY <1>5, <2>3 DEF Uint, at
    <3>2. at(0) = d(0) /\ at(1) = d(1) /\ at(2) = d(2) /\ at(3) = d(3)
      BY <1>13, <2>3
    <3>3. q(4) = 0
      BY <1>10, <2>3
    <3>4. q(3) = d(3)
      BY <1>10, <1>12, <3>3, Powers
    <3>5. v = ((d(3) * Base + d(2)) * Base + d(1)) * Base + d(0)
      BY <1>10, <3>4
    <3>6. \A z, x, y, u, t \in Nat :
              ((u * z + y) * z + x) * z + t = t + x * z + y * (z * z) + u * (z * z * z)
      OBVIOUS
    <3>7. v = d(0) + d(1) * Base + d(2) * (Base * Base) + d(3) * (Base * Base * Base)
      BY <1>12, <3>5, <3>6, Powers
    <3> QED BY <3>1, <3>2, <3>7, Powers
  <2> QED BY <2>1, <2>2, <2>3 DEF Widths
<1> QED BY <1>5, <1>14 DEF b

\* What was written and has not been read.
Stream == arrived \o wire

\* The messages of ms after the k-th stand one behind the other on st, message m from
\* o[m - 1] to o[m]: its length in w bytes and its bytes.  What is before the
\* first byte of st has been read.
Cuts(o, st, ms, k, w) ==
    /\ o \in [k..Len(ms) -> Int] /\ o[Len(ms)] = Len(st)
    /\ \A i \in k..Len(ms) : -w <= o[i] /\ o[i] <= Len(st)
    /\ \A i, j \in k..Len(ms) : i <= j => o[i] <= o[j]
    /\ \A m \in (k + 1)..Len(ms) :
           /\ o[m] = o[m - 1] + w + Len(ms[m])
           /\ \A j \in 1..w : 1 <= o[m - 1] + j => st[o[m - 1] + j] = Put(Len(ms[m]), w)[j]
           /\ \A j \in 1..Len(ms[m]) : st[o[m - 1] + w + j] = ms[m][j]

\* They do, the first of them from x.
CutsFrom(x, st, ms, k, w) == \E o : Cuts(o, st, ms, k, w) /\ o[k] = x

\* The reader is in front of a message, or behind the length of one.
ReaderAt(r, w) == IF r = -1 THEN 0 ELSE -w
StreamInv ==
    CutsFrom(ReaderAt(rpc, lenMsgLen), Stream, written, Len(read), lenMsgLen)

\* What was read is the beginning of what was written, and what was written fits.
ReaderInv ==
    /\ Len(read) <= Len(written) /\ \A i \in 1..Len(read) : read[i] = written[i]
    /\ rpc # -1 => Len(read) < Len(written) /\ rpc = Len(written[Len(read) + 1])
    /\ ~failed /\ \A m \in 1..Len(written) : Fits(Len(written[m]))

\* The inductive invariant of the framing.
FrameIInv == ParserTypeOK /\ ReaderInv /\ StreamInv

\* One more message is written behind the others.
LEMMA CutsAppend ==
    ASSUME NEW o, NEW st \in Seq(Byte), NEW ms \in Seq(Seq(Byte)), NEW k \in 0..Len(ms),
           NEW w \in Widths, Cuts(o, st, ms, k, w), NEW msg \in Seq(Byte),
           NEW h \in Seq(Byte), h = Put(Len(msg), w), Len(h) = w
    PROVE  CutsFrom(o[k], st \o h \o msg, Append(ms, msg), k, w)
<1> DEFINE n == Len(ms)
           l == Len(st)
           c == Len(msg)
           st2 == st \o h \o msg
           ms2 == Append(ms, msg)
           p == [i \in k..(n + 1) |-> IF i = n + 1 THEN l + w + c ELSE o[i]]
<1>1. n \in Nat /\ l \in Nat /\ c \in Nat /\ w \in 1..4
  BY DEF Widths
<1>2. Len(ms2) = n + 1 /\ ms2[n + 1] = msg /\ \A i \in 1..n : ms2[i] = ms[i]
  OBVIOUS
<1>3. /\ Len(st2) = l + w + c /\ \A i \in 1..l : st2[i] = st[i]
      /\ \A j \in 1..w : st2[l + j] = h[j]
      /\ \A j \in 1..c : st2[l + w + j] = msg[j]
  <2> DEFINE a == st \o h
  <2>1. /\ a \in Seq(Byte) /\ Len(a) = l + w
        /\ \A i \in 1..(l + w) : a[i] = IF i <= l THEN st[i] ELSE h[i - l]
    BY ConcatProperties
  <2> HIDE DEF a
  <2>2. /\ Len(a \o msg) = (l + w) + c
        /\ \A i \in 1..((l + w) + c) :
              (a \o msg)[i] = IF i <= l + w THEN a[i] ELSE msg[i - (l + w)]
    BY <2>1, ConcatProperties
  <2> DEFINE b == a \o msg
  <2>3. /\ Len(b) = (l + w) + c
        /\ \A i \in 1..((l + w) + c) : b[i] = IF i <= l + w THEN a[i] ELSE msg[i - (l + w)]
    BY <2>2
  <2>4. st2 = b
    BY DEF a
  <2> HIDE DEF b, l, c, st2
  <2>5. Len(b) = l + w + c
    BY <1>1, <2>3
  <2>6. ASSUME NEW i \in 1..l PROVE b[i] = st[i]
    <3>1. i \in 1..((l + w) + c) /\ i <= l + w /\ i \in 1..(l + w) /\ i <= l
      BY <1>1
    <3> QED BY <2>1, <2>3, <3>1
  <2>7. ASSUME NEW j \in 1..w PROVE b[l + j] = h[j]
    <3>1. /\ l + j \in 1..((l + w) + c) /\ l + j <= l + w /\ l + j \in 1..(l + w)
          /\ ~(l + j <= l) /\ (l + j) - l = j
      BY <1>1
    <3> QED BY <2>1, <2>3, <3>1
  <2>8. ASSUME NEW j \in 1..c PROVE b[l + w + j] = msg[j]
    <3>1. /\ l + w + j \in 1..((l + w) + c) /\ ~(l + w + j <= l + w)
          /\ (l + w + j) - (l + w) = j
      BY <1>1
    <3> QED BY <2>3, <3>1
  <2> QED BY <2>4, <2>5, <2>6, <2>7, <2>8
<1>4. /\ o \in [k..n -> Int] /\ o[n] = l
      /\ \A i \in k..n : -w <= o[i] /\ o[i] <= l
      /\ \A i, j \in k..n : i <= j => o[i] <= o[j]
      /\ \A m \in (k + 1)..n :
             /\ o[m] = o[m - 1] + w + Len(ms[m])
             /\ \A j \in 1..w : 1 <= o[m - 1] + j => st[o[m - 1] + j] = Put(Len(ms[m]), w)[j]
             /\ \A j \in 1..Len(ms[m]) : st[o[m - 1] + w + j] = ms[m][j]
  BY DEF Cuts
<1> HIDE DEF n, l, c, st2, ms2
<1>5. k \in 0..n
  BY DEF n
<1>5a. /\ \A i \in k..(n + 1) : i \in k..n \/ i = n + 1
       /\ \A i \in k..n : i \in k..(n + 1) /\ i # n + 1
       /\ n + 1 \in k..(n + 1) /\ \A i \in k..n : o[i] \in Int
  <2>1. \A i \in k..n : o[i] \in Int
    BY <1>4
  <2> QED BY <1>1, <1>5, <2>1
<1>6. /\ p \in [k..(n + 1) -> Int] /\ p[n + 1] = l + w + c /\ \A i \in k..n : p[i] = o[i]
  <2>1. l + w + c \in Int
    BY <1>1
  <2>2. p[n + 1] = l + w + c /\ \A i \in k..n : p[i] = o[i]
    BY <1>5a
  <2>3. \A i \in k..(n + 1) : p[i] \in Int
    BY <1>5a, <2>1, <2>2
  <2>4. p = [i \in k..(n + 1) |-> p[i]]
    OBVIOUS
  <2> HIDE DEF p
  <2> QED BY <2>2, <2>3, <2>4
<1> HIDE DEF p
<1>7. \A i \in k..(n + 1) : -w <= p[i] /\ p[i] <= l + w + c
  <2>1. -w <= l + w + c
    BY <1>1
  <2>2. \A i \in k..n : -w <= o[i] /\ o[i] <= l + w + c
    <3> SUFFICES ASSUME NEW i \in k..n PROVE -w <= o[i] /\ o[i] <= l + w + c
      OBVIOUS
    <3>1. -w <= o[i] /\ o[i] <= l /\ o[i] \in Int
      BY <1>4, <1>5a
    <3> QED BY <1>1, <3>1
  <2>3. l + w + c <= l + w + c
    BY <1>1
  <2> QED BY <1>5a, <1>6, <2>1, <2>2, <2>3
<1>8. ASSUME NEW m \in (k + 1)..(n + 1)
      PROVE  /\ p[m] = p[m - 1] + w + Len(ms2[m])
             /\ \A j \in 1..w : 1 <= p[m - 1] + j => st2[p[m - 1] + j] = Put(Len(ms2[m]), w)[j]
             /\ \A j \in 1..Len(ms2[m]) : st2[p[m - 1] + w + j] = ms2[m][j]
  <2>1. CASE m = n + 1
    <3>1. m - 1 = n /\ p[m - 1] = l /\ ms2[m] = msg /\ p[m] = l + w + c
      BY <1>1, <1>2, <1>4, <1>5, <1>6, <2>1
    <3> QED BY <1>3, <3>1 DEF c
  <2>2. CASE m # n + 1
    <3>1. m \in (k + 1)..n /\ m - 1 \in k..n /\ m \in k..n /\ m \in 1..n
      BY <1>1, <1>5, <2>2
    <3>2. ms2[m] = ms[m] /\ p[m] = o[m] /\ p[m - 1] = o[m - 1] /\ o[m - 1] \in Int
      BY <1>2, <1>4, <1>6, <3>1
    <3> DEFINE q == o[m - 1]
               d == Len(ms[m])
    <3>3. d \in Nat
      BY <3>1 DEF n
    <3>4. q \in Int /\ -w <= q /\ q + w + d <= l
      BY <1>4, <3>1, <3>2
    <3>5. \A j \in 1..w : 1 <= q + j => q + j \in 1..l /\ st2[q + j] = st[q + j]
      <4> HIDE DEF q, d
      <4>1. \A j \in 1..w : 1 <= q + j => q + j \in 1..l
        BY <1>1, <3>3, <3>4
      <4> QED BY <1>3, <4>1
    <3>6. \A j \in 1..d : q + w + j \in 1..l /\ st2[q + w + j] = st[q + w + j]
      <4> HIDE DEF q, d
      <4>1. \A j \in 1..d : q + w + j \in 1..l
        BY <1>1, <3>3, <3>4
      <4> QED BY <1>3, <4>1
    <3>7. \A j \in 1..w : 1 <= q + j => st2[q + j] = Put(Len(ms2[m]), w)[j]
      <4>1. \A j \in 1..w : 1 <= q + j => st[q + j] = Put(Len(ms[m]), w)[j]
        BY <1>4, <3>1
      <4> QED BY <3>2, <3>5, <4>1
    <3>8. \A j \in 1..Len(ms2[m]) : st2[q + w + j] = ms2[m][j]
      <4>1. \A j \in 1..d : st[q + w + j] = ms[m][j]
        BY <1>4, <3>1
      <4>2. ms2[m] = ms[m]
        BY <3>2
      <4> HIDE DEF q
      <4> QED BY <3>6, <4>1, <4>2
    <3>9. p[m] = p[m - 1] + w + Len(ms2[m])
      BY <1>4, <3>1, <3>2
    <3> QED BY <3>2, <3>7, <3>8, <3>9
  <2> QED BY <2>1, <2>2
<1>9. p[k] = o[k]
  BY <1>5, <1>6
<1>9a. ASSUME NEW i \in k..(n + 1), NEW j \in k..(n + 1), i <= j
       PROVE  p[i] <= p[j]
  <2>1. CASE j = n + 1
    BY <1>6, <1>7, <2>1
  <2>2. CASE j # n + 1
    <3>1. i \in k..n /\ j \in k..n
      BY <1>1, <1>5, <1>9a, <2>2
    <3> QED BY <1>4, <1>6, <1>9a, <3>1
  <2> QED BY <2>1, <2>2
<1>10. Cuts(p, st2, ms2, k, w)
  BY <1>2, <1>3, <1>6, <1>7, <1>8, <1>9a DEF Cuts
<1> QED BY <1>9, <1>10 DEF st2, ms2, CutsFrom

\* Bytes taken from the front: the k-th cut, or the one behind it, comes to 0 or -w.
LEMMA CutsDrop ==
    ASSUME NEW o, NEW st \in Seq(Byte), NEW ms \in Seq(Seq(Byte)), NEW k \in 0..Len(ms),
           NEW w \in Widths, Cuts(o, st, ms, k, w), NEW k2 \in k..Len(ms), NEW c \in 0..Len(st),
           NEW st2 \in Seq(Byte), Len(st2) = Len(st) - c, \A i \in 1..Len(st2) : st2[i] = st[c + i],
           \A i \in k2..Len(ms) : -w <= o[i] - c
    PROVE  CutsFrom(o[k2] - c, st2, ms, k2, w)
<1> DEFINE n == Len(ms)
           l == Len(st)
           p == [i \in k2..n |-> o[i] - c]
<1>1. n \in Nat /\ l \in Nat /\ w \in 1..4 /\ k \in 0..n /\ k2 \in k..n /\ c \in 0..l
  BY DEF Widths
<1>2. /\ o \in [k..n -> Int] /\ o[n] = l
      /\ \A i \in k..n : -w <= o[i] /\ o[i] <= l
      /\ \A i, j \in k..n : i <= j => o[i] <= o[j]
      /\ \A m \in (k + 1)..n :
             /\ o[m] = o[m - 1] + w + Len(ms[m])
             /\ \A j \in 1..w : 1 <= o[m - 1] + j => st[o[m - 1] + j] = Put(Len(ms[m]), w)[j]
             /\ \A j \in 1..Len(ms[m]) : st[o[m - 1] + w + j] = ms[m][j]
  BY DEF Cuts
<1>3. /\ Len(st2) = l - c /\ \A i \in 1..(l - c) : st2[i] = st[c + i]
      /\ \A i \in k2..n : -w <= o[i] - c
  OBVIOUS
<1>4. \A m \in 1..n : Len(ms[m]) \in Nat
  OBVIOUS
<1> HIDE DEF n, l
<1>5. \A i \in k2..n : i \in k..n /\ o[i] \in Int
  BY <1>1, <1>2
<1>6. p \in [k2..n -> Int] /\ \A i \in k2..n : p[i] = o[i] - c
  BY <1>1, <1>5
<1> HIDE DEF p
<1>7. \A i \in k2..n : -w <= p[i] /\ p[i] <= l - c
  <2> SUFFICES ASSUME NEW i \in k2..n PROVE -w <= p[i] /\ p[i] <= l - c
    OBVIOUS
  <2> DEFINE a == o[i]
  <2>1. a \in Int /\ i \in k..n
    BY <1>5
  <2>2. a <= l /\ -w <= a - c /\ p[i] = a - c
    BY <1>2, <1>3, <1>6, <2>1
  <2>3. c \in Int /\ l \in Int
    BY <1>1
  <2> HIDE DEF a
  <2> QED BY <2>1, <2>2, <2>3
<1>8. p[n] = l - c
  BY <1>1, <1>2, <1>6
<1>9. ASSUME NEW m \in (k2 + 1)..n
      PROVE  /\ p[m] = p[m - 1] + w + Len(ms[m])
             /\ \A j \in 1..w : 1 <= p[m - 1] + j => st2[p[m - 1] + j] = Put(Len(ms[m]), w)[j]
             /\ \A j \in 1..Len(ms[m]) : st2[p[m - 1] + w + j] = ms[m][j]
  <2>1. m \in (k + 1)..n /\ m - 1 \in k2..n /\ m \in k2..n /\ m \in 1..n
    BY <1>1
  <2> DEFINE q == o[m - 1]
             d == Len(ms[m])
  <2>2. d \in Nat /\ q \in Int /\ p[m - 1] = q - c /\ p[m] = o[m] - c /\ o[m] = q + w + d
    BY <1>2, <1>4, <1>5, <1>6, <2>1
  <2>3. -w <= q - c /\ q + w + d <= l
    BY <1>2, <1>3, <1>5, <2>1, <2>2
  <2>4. /\ \A j \in 1..w : 1 <= q + j => st[q + j] = Put(d, w)[j]
        /\ \A j \in 1..d : st[q + w + j] = ms[m][j]
    BY <1>2, <2>1
  <2> HIDE DEF q, d
  <2>5. \A j \in 1..w : 1 <= (q - c) + j =>
            /\ (q - c) + j \in 1..(l - c) /\ c + ((q - c) + j) = q + j /\ 1 <= q + j
    BY <1>1, <2>2, <2>3
  <2>6. \A j \in 1..d : /\ (q - c) + w + j \in 1..(l - c) /\ c + ((q - c) + w + j) = q + w + j
    BY <1>1, <2>2, <2>3
  <2>7. \A j \in 1..w : 1 <= (q - c) + j => st2[(q - c) + j] = Put(d, w)[j]
    BY <1>3, <2>4, <2>5
  <2>8. \A j \in 1..d : st2[(q - c) + w + j] = ms[m][j]
    BY <1>3, <2>4, <2>6
  <2>9. o[m] - c = (q - c) + w + d
    BY <1>1, <2>2
  <2> QED BY <2>2, <2>7, <2>8, <2>9 DEF d
<1>9a. ASSUME NEW i \in k2..n, NEW j \in k2..n, i <= j
       PROVE  p[i] <= p[j]
  <2> DEFINE a == o[i]
             b == o[j]
  <2>1. a \in Int /\ b \in Int /\ i \in k..n /\ j \in k..n
    BY <1>5
  <2>2. a <= b
    BY <1>2, <1>9a, <2>1
  <2>3. p[i] = a - c /\ p[j] = b - c
    BY <1>6
  <2>4. c \in Int
    BY <1>1
  <2> HIDE DEF a, b
  <2> QED BY <2>1, <2>2, <2>3, <2>4
<1>10. Cuts(p, st2, ms, k2, w)
  BY <1>3, <1>6, <1>7, <1>8, <1>9, <1>9a DEF Cuts, n
<1>11. p[k2] = o[k2] - c
  BY <1>1, <1>6
<1> QED BY <1>10, <1>11 DEF CutsFrom

\* Nothing was written, so there is nothing to read.
LEMMA SetsStart ==
    ASSUME ParserTypeOK, written = <<>>, FrameIInv
    PROVE  read = <<>> /\ rpc = -1 /\ Stream = <<>> /\ arrived = <<>> /\ wire = <<>>
<1>1. /\ Len(written) = 0 /\ Len(read) <= Len(written) /\ read \in Seq(Seq(Byte))
      /\ arrived \in Seq(Byte) /\ wire \in Seq(Byte)
  BY DEF ParserTypeOK, FrameIInv, ReaderInv
<1>2. Len(read) = 0 /\ read = <<>>
  BY <1>1
<1>3. rpc = -1
  BY <1>1, <1>2 DEF FrameIInv, ReaderInv
<1>4. PICK o : Cuts(o, Stream, written, 0, lenMsgLen) /\ o[0] = 0
  BY <1>2, <1>3 DEF FrameIInv, StreamInv, CutsFrom, ReaderAt
<1>5. Len(Stream) = 0
  BY <1>1, <1>4 DEF Cuts
<1>6. arrived = <<>> /\ wire = <<>>
  BY <1>1, <1>5 DEF Stream
<1> QED BY <1>2, <1>3, <1>6 DEF Stream

\* A connection before its first message.
NoMessageYet ==
    /\ ParserTypeOK /\ written = <<>> /\ read = <<>> /\ rpc = -1
    /\ arrived = <<>> /\ wire = <<>> /\ ~failed

\* It satisfies the invariant.
LEMMA EmptyFrame == NoMessageYet => FrameIInv
<1> SUFFICES ASSUME NoMessageYet PROVE FrameIInv
  OBVIOUS
<1>0. /\ ParserTypeOK /\ written = <<>> /\ read = <<>> /\ rpc = -1
      /\ arrived = <<>> /\ wire = <<>> /\ ~failed
  BY DEF NoMessageYet
<1>1. Len(written) = 0 /\ Len(read) = 0 /\ Stream = <<>> /\ Len(Stream) = 0 /\ lenMsgLen \in 0..4
  BY <1>0 DEF Stream, ParserTypeOK
<1> DEFINE o == [i \in 0..0 |-> 0]
<1>2. o \in [0..0 -> Int] /\ o[0] = 0
  OBVIOUS
<1> HIDE DEF o
<1>3. Cuts(o, Stream, written, 0, lenMsgLen)
  <2>1. \A i \in 0..0 : i = 0
    OBVIOUS
  <2>2. \A m \in (0 + 1)..0 : FALSE
    OBVIOUS
  <2>3. -lenMsgLen <= 0 /\ 0 <= 0 /\ o[0] <= o[0]
    BY <1>1, <1>2
  <2> QED BY <1>1, <1>2, <2>1, <2>2, <2>3 DEF Cuts
<1>4. StreamInv
  BY <1>0, <1>1, <1>2, <1>3 DEF StreamInv, CutsFrom, ReaderAt
<1>5. ReaderInv
  BY <1>0, <1>1 DEF ReaderInv
<1> QED BY <1>0, <1>4, <1>5 DEF FrameIInv

\* NewMsgParser makes such a connection.
LEMMA FrameInitInv == ParserInit => FrameIInv
<1> SUFFICES ASSUME ParserInit PROVE FrameIInv
  OBVIOUS
<1>1. MaxLen(2) \in Nat /\ MaxLen(2) >= 1
  <2>1. Base \in Nat /\ Base >= 2
    BY ParserAssumption
  <2>2. Power(2) = Base * Base /\ MaxLen(2) = Base * Base - 1
    BY Powers DEF MaxLen
  <2>3. Base * Base >= 2 * Base /\ Base * Base \in Nat
    BY <2>1
  <2> DEFINE q == Base * Base
  <2>4. q \in Nat /\ q >= 2 * Base /\ MaxLen(2) = q - 1
    BY <2>2, <2>3
  <2> HIDE DEF q
  <2> QED BY <2>1, <2>4
<1>2. 0 \in 0..MaxSets
  BY ParserAssumption
<1>3. ParserTypeOK
  <2>1. /\ lenMsgLen = 2 /\ minMsgLen = 1 /\ maxMsgLen = MaxLen(2) /\ littleEndian = FALSE
        /\ sets = 0 /\ wire = <<>> /\ arrived = <<>> /\ rpc = -1
        /\ written = <<>> /\ read = <<>> /\ failed = FALSE
    BY DEF ParserInit
  <2>2. 1 \in 0..MaxLen(2) /\ MaxLen(2) \in 0..MaxLen(2) /\ -1 \in -1..MaxLen(2)
    BY <1>1
  <2>3. <<>> \in Seq(Byte) /\ <<>> \in Seq(Seq(Byte)) /\ 2 \in {1, 2, 4}
    OBVIOUS
  <2> QED BY <1>2, <2>1, <2>2, <2>3 DEF ParserTypeOK
<1> QED BY <1>3, EmptyFrame DEF ParserInit, NoMessageYet

\* The parser is set up, before the first message.
LEMMA SetMsgLenStep ==
    ASSUME FrameIInv, NEW n \in LenArgs, NEW min \in MinArgs, NEW max \in MaxArgs,
           SetMsgLen(n, min, max)
    PROVE  FrameIInv'
<1> DEFINE l == IF n \in {1, 2, 4} THEN n ELSE lenMsgLen
<1>1. /\ written = <<>> /\ sets < MaxSets /\ sets' = sets + 1 /\ lenMsgLen' = l
      /\ minMsgLen' = AtMost(IF min # 0 THEN min ELSE minMsgLen, MaxLen(l))
      /\ maxMsgLen' = AtMost(IF max # 0 THEN max ELSE maxMsgLen, MaxLen(l))
      /\ UNCHANGED <<littleEndian, wire, arrived, rpc, written, read, failed>>
  BY DEF SetMsgLen
<1>2. ParserTypeOK /\ ~failed
  BY DEF FrameIInv, ReaderInv
<1>3. /\ lenMsgLen \in Widths /\ MaxLen(lenMsgLen) \in Nat /\ minMsgLen \in Nat /\ maxMsgLen \in Nat
      /\ sets \in 0..MaxSets
  <2>1. lenMsgLen \in Widths /\ MaxLen(lenMsgLen) \in Nat
    BY <1>2, Powers DEF ParserTypeOK, Widths
  <2> QED BY <1>2, <2>1 DEF ParserTypeOK
<1>4. min \in Nat /\ max \in Nat /\ MaxSets \in Nat
  BY ParserAssumption
<1>5. l \in Widths
  BY <1>3 DEF Widths
<1>6. MaxLen(l) \in Nat
  BY <1>5, Powers
<1> HIDE DEF l
<1>7. \A x, y \in Nat : AtMost(x, y) \in 0..y
  BY DEF AtMost
<1>8. minMsgLen' \in 0..MaxLen(l) /\ maxMsgLen' \in 0..MaxLen(l)
  BY <1>1, <1>3, <1>4, <1>6, <1>7
<1>9. read = <<>> /\ rpc = -1 /\ arrived = <<>> /\ wire = <<>>
  BY <1>1, <1>2, SetsStart
<1>10. ParserTypeOK'
  <2>1. sets' \in 0..MaxSets
    BY <1>1, <1>3, <1>4
  <2>2. -1 \in -1..MaxLen(l)
    BY <1>6
  <2>3. MaxLen(lenMsgLen') = MaxLen(lenMsgLen)'
    BY DEF MaxLen, Power
  <2> QED BY <1>1, <1>2, <1>5, <1>8, <1>9, <2>1, <2>2, <2>3 DEF ParserTypeOK, Widths
<1>11. /\ written' = <<>> /\ read' = <<>> /\ rpc' = -1
       /\ arrived' = <<>> /\ wire' = <<>> /\ ~failed'
  BY <1>1, <1>2, <1>9
<1>12. NoMessageYet'
  BY <1>10, <1>11 DEF NoMessageYet
<1> QED BY <1>12, EmptyFrame, PTL

\* SetByteOrder, too, is for the time before the first message.
LEMMA SetByteOrderStep ==
    ASSUME FrameIInv, NEW little \in BOOLEAN, SetByteOrder(little)
    PROVE  FrameIInv'
<1>1. /\ written = <<>> /\ littleEndian' = little
      /\ UNCHANGED <<lenMsgLen, minMsgLen, maxMsgLen, sets, wire, arrived, rpc, written, read,
                     failed>>
  BY DEF SetByteOrder
<1>2. ParserTypeOK /\ ~failed
  BY DEF FrameIInv, ReaderInv
<1>3. read = <<>> /\ rpc = -1 /\ arrived = <<>> /\ wire = <<>>
  BY <1>1, <1>2, SetsStart
<1>4. ParserTypeOK'
  BY <1>1, <1>2 DEF ParserTypeOK
<1>5. NoMessageYet'
  BY <1>1, <1>2, <1>3, <1>4 DEF NoMessageYet
<1> QED BY <1>5, EmptyFrame, PTL

\* The steps after that leave the set-up alone, and with it what Cuts says.
LEMMA SameSetup ==
    ASSUME UNCHANGED setup
    PROVE  /\ UNCHANGED <<lenMsgLen, minMsgLen, maxMsgLen, littleEndian, sets>>
           /\ \A x, st, ms, k, w : CutsFrom(x, st, ms, k, w)' <=> CutsFrom(x, st, ms, k, w)
           /\ \A x : Fits(x)' <=> Fits(x)
<1>1. UNCHANGED <<lenMsgLen, minMsgLen, maxMsgLen, littleEndian, sets>>
  BY DEF setup
<1>2. \A x : Fits(x)' <=> Fits(x)
  BY <1>1 DEF Fits
<1>3. \A v, n : Put(v, n)' = Put(v, n)
  BY <1>1 DEF Put, Power
<1>4. ASSUME NEW o, NEW st, NEW ms, NEW k, NEW w
      PROVE  Cuts(o, st, ms, k, w)' <=> Cuts(o, st, ms, k, w)
  BY <1>3 DEF Cuts
<1>5. ASSUME NEW x, NEW st, NEW ms, NEW k, NEW w
      PROVE  CutsFrom(x, st, ms, k, w)' <=> CutsFrom(x, st, ms, k, w)
  BY <1>4 DEF CutsFrom
<1> QED BY <1>1, <1>2, <1>5

\* What the steps of the reader and the writer have to establish.
LEMMA NextFrame ==
    ASSUME UNCHANGED setup, ParserTypeOK', ReaderInv',
           NEW x, NEW st, NEW ms, NEW k, NEW w, CutsFrom(x, st, ms, k, w), x = ReaderAt(rpc', w),
           st = Stream', ms = written', k = Len(read'), w = lenMsgLen'
    PROVE  FrameIInv'
<1>1. CutsFrom(x, st, ms, k, w)'
  BY SameSetup
<1>2. x = ReaderAt(rpc', lenMsgLen')
  OBVIOUS
<1>3. StreamInv'
  BY <1>1, <1>2 DEF StreamInv, ReaderAt
<1> QED BY <1>3 DEF FrameIInv

\* What the invariant says of a state, in names that do not change.
LEMMA FrameTypes ==
    ASSUME FrameIInv
    PROVE  /\ ParserTypeOK /\ lenMsgLen \in Widths /\ lenMsgLen \in 1..4
           /\ MaxLen(lenMsgLen) \in Nat /\ minMsgLen \in Nat
           /\ maxMsgLen \in 0..MaxLen(lenMsgLen) /\ rpc \in -1..MaxLen(lenMsgLen)
           /\ wire \in Seq(Byte) /\ arrived \in Seq(Byte) /\ Stream \in Seq(Byte)
           /\ written \in Seq(Seq(Byte)) /\ read \in Seq(Seq(Byte))
           /\ Len(read) \in 0..Len(written) /\ Len(written) \in Nat
           /\ littleEndian \in BOOLEAN /\ sets \in 0..MaxSets
<1>1. ParserTypeOK /\ ReaderInv
  BY DEF FrameIInv
<1>2. lenMsgLen \in Widths /\ lenMsgLen \in 1..4 /\ MaxLen(lenMsgLen) \in Nat
  <2>1. lenMsgLen \in Widths
    BY <1>1 DEF ParserTypeOK, Widths
  <2>2. MaxLen(lenMsgLen) \in Nat
    BY <2>1, Powers
  <2> QED BY <2>1, <2>2 DEF Widths
<1>3. /\ maxMsgLen \in 0..MaxLen(lenMsgLen) /\ rpc \in -1..MaxLen(lenMsgLen) /\ wire \in Seq(Byte)
      /\ arrived \in Seq(Byte) /\ written \in Seq(Seq(Byte)) /\ read \in Seq(Seq(Byte))
      /\ littleEndian \in BOOLEAN /\ sets \in 0..MaxSets /\ minMsgLen \in 0..MaxLen(lenMsgLen)
  BY <1>1 DEF ParserTypeOK
<1>4. Stream \in Seq(Byte)
  BY <1>3 DEF Stream
<1>5. Len(read) \in 0..Len(written) /\ Len(written) \in Nat
  BY <1>1, <1>3 DEF ReaderInv
<1>6. minMsgLen \in Nat
  BY <1>2, <1>3
<1> QED BY <1>1, <1>2, <1>3, <1>4, <1>5, <1>6

\* The accepted message goes behind the others.
LEMMA WriteStep ==
    ASSUME FrameIInv, NEW args \in Args, Write(args)
    PROVE  FrameIInv'
<1>m. PICK msg : msg = FlattenSeq(args)
  OBVIOUS
<1>p. PICK k, w, st, h, ms :
      k = Len(read) /\ w = lenMsgLen /\ st = Stream /\ h = Put(Len(msg), w) /\ ms = written
  OBVIOUS
<1>1. /\ Fits(Len(msg)) /\ written' = Append(ms, msg) /\ wire' = (wire \o h) \o msg
      /\ UNCHANGED <<setup, arrived, rpc, read, failed>>
  BY <1>m, <1>p DEF Write
<1>2. msg \in Seq(Byte) /\ Len(msg) \in Nat
  <2>1. args \in Seq(Seq(Byte))
    BY ParserAssumption
  <2>2. FlattenSeq(args) \in Seq(Byte)
    BY <2>1, FlattenType
  <2> QED BY <1>m, <2>2
<1>3. /\ w \in Widths /\ w \in 1..4 /\ MaxLen(w) \in Nat /\ maxMsgLen \in 0..MaxLen(w)
      /\ wire \in Seq(Byte) /\ arrived \in Seq(Byte) /\ st \in Seq(Byte)
      /\ ms \in Seq(Seq(Byte)) /\ k \in 0..Len(ms) /\ littleEndian \in BOOLEAN
  BY <1>p, FrameTypes
<1>4. h \in Seq(Byte) /\ Len(h) = w
  <2>1. Len(msg) \in 0..MaxLen(w)
    BY <1>1, <1>2, <1>3 DEF Fits
  <2>2. Put(Len(msg), w) \in Seq(Byte) /\ Len(Put(Len(msg), w)) = w
    BY <1>3, <2>1, RoundTripOf
  <2> QED BY <1>p, <2>2
<1>5. PICK o : Cuts(o, st, ms, k, w) /\ o[k] = ReaderAt(rpc, w)
  BY <1>p DEF FrameIInv, StreamInv, CutsFrom
<1>6. CutsFrom(o[k], st \o h \o msg, Append(ms, msg), k, w)
  <2>1. h = Put(Len(msg), w) /\ Len(h) = w /\ h \in Seq(Byte) /\ msg \in Seq(Byte)
    BY <1>p, <1>2, <1>4
  <2>2. w \in Widths /\ st \in Seq(Byte) /\ ms \in Seq(Seq(Byte)) /\ k \in 0..Len(ms)
    BY <1>3
  <2>3. Cuts(o, st, ms, k, w)
    BY <1>5
  <2> QED BY <2>1, <2>2, <2>3, CutsAppend
<1>7. st \o h \o msg = Stream'
  <2>1. Stream' = arrived \o ((wire \o h) \o msg)
    BY <1>1 DEF Stream
  <2>2. (arrived \o wire) \o h \o msg = arrived \o ((wire \o h) \o msg)
    <3>1. arrived \in Seq(Byte) /\ wire \in Seq(Byte) /\ h \in Seq(Byte) /\ msg \in Seq(Byte)
      BY <1>2, <1>3, <1>4
    <3> QED BY <3>1, SMTT(30)
  <2>3. st = arrived \o wire
    BY <1>p DEF Stream
  <2> QED BY <2>1, <2>2, <2>3
<1>8. ParserTypeOK'
  <2>1. ParserTypeOK
    BY FrameTypes
  <2>2. wire' \in Seq(Byte) /\ written' \in Seq(Seq(Byte))
    BY <1>1, <1>2, <1>3, <1>4
  <2>3. MaxLen(lenMsgLen)' = MaxLen(lenMsgLen)
    BY <1>1 DEF setup, MaxLen, Power
  <2> QED BY <1>1, <2>1, <2>2, <2>3 DEF ParserTypeOK, setup
<1>9. ReaderInv'
  <2>1. /\ Len(read) <= Len(ms) /\ \A i \in 1..Len(read) : read[i] = ms[i]
        /\ rpc # -1 => Len(read) < Len(ms) /\ rpc = Len(ms[Len(read) + 1])
        /\ ~failed /\ \A m \in 1..Len(ms) : Fits(Len(ms[m]))
    BY <1>p DEF FrameIInv, ReaderInv
  <2>2. /\ Len(Append(ms, msg)) = Len(ms) + 1 /\ Append(ms, msg)[Len(ms) + 1] = msg
        /\ \A i \in 1..Len(ms) : Append(ms, msg)[i] = ms[i]
    BY <1>2, <1>3
  <2>3. Len(ms) \in Nat /\ Len(read) \in Nat
    BY <1>3
  <2>4. \A m \in 1..(Len(ms) + 1) : Fits(Len(Append(ms, msg)[m]))
    BY <1>1, <2>1, <2>2, <2>3
  <2>5. (\A m \in 1..Len(written) : Fits(Len(written[m])))'
    BY <1>1, <2>2, <2>4 DEF Fits, setup
  <2>6. Len(read) <= Len(ms) + 1 /\ \A i \in 1..Len(read) : read[i] = Append(ms, msg)[i]
    BY <2>1, <2>2, <2>3
  <2>7. rpc # -1 => Len(read) < Len(ms) + 1 /\ rpc = Len(Append(ms, msg)[Len(read) + 1])
    BY <2>1, <2>2, <2>3
  <2>8. failed' = failed /\ read' = read /\ rpc' = rpc /\ written' = Append(ms, msg)
    BY <1>1
  <2>9. Len(read') <= Len(written') /\ \A i \in 1..Len(read') : read'[i] = written'[i]
    BY <2>2, <2>6, <2>8
  <2>10. rpc' # -1 => Len(read') < Len(written') /\ rpc' = Len(written'[Len(read') + 1])
    BY <2>2, <2>7, <2>8
  <2>1a. ~failed'
    BY <2>1, <2>8
  <2> QED BY <2>5, <2>9, <2>10, <2>1a DEF ReaderInv
<1>10. UNCHANGED setup /\ k = Len(read') /\ w = lenMsgLen' /\ rpc' = rpc
  BY <1>1, <1>p DEF setup
<1>11. PICK x, sx, mx : x = o[k] /\ sx = st \o h \o msg /\ mx = Append(ms, msg)
  OBVIOUS
<1>12. CutsFrom(x, sx, mx, k, w) /\ sx = Stream' /\ mx = written'
  BY <1>1, <1>6, <1>7, <1>11
<1>13. x = ReaderAt(rpc', w)
  BY <1>5, <1>10, <1>11
<1> QED BY <1>8, <1>9, <1>10, <1>12, <1>13, NextFrame

\* A byte arrives: nothing moves for the reader.
LEMMA ArriveStep ==
    ASSUME FrameIInv, Arrive
    PROVE  FrameIInv'
<1>1. /\ wire # <<>> /\ wire' = Tail(wire) /\ arrived' = Append(arrived, Head(wire))
      /\ UNCHANGED <<setup, rpc, written, read, failed>>
  BY DEF Arrive
<1>2. wire \in Seq(Byte) /\ arrived \in Seq(Byte) /\ ParserTypeOK
  BY FrameTypes
<1>3. Stream' = Stream /\ wire' \in Seq(Byte) /\ arrived' \in Seq(Byte)
  <2>1. \A a, b \in Seq(Byte) : b # <<>> =>
            /\ Append(a, Head(b)) \o Tail(b) = a \o b
            /\ Tail(b) \in Seq(Byte) /\ Append(a, Head(b)) \in Seq(Byte)
    OBVIOUS
  <2> QED BY <1>1, <1>2, <2>1 DEF Stream
<1>4. ParserTypeOK'
  <2>1. MaxLen(lenMsgLen)' = MaxLen(lenMsgLen)
    BY <1>1 DEF setup, MaxLen, Power
  <2> QED BY <1>1, <1>2, <1>3, <2>1 DEF ParserTypeOK, setup
<1>5. ReaderInv'
  BY <1>1, SameSetup DEF FrameIInv, ReaderInv
<1> PICK x, k, w, st, ms :
      x = ReaderAt(rpc, w) /\ k = Len(read) /\ w = lenMsgLen /\ st = Stream /\ ms = written
  OBVIOUS
<1>6. CutsFrom(x, st, ms, k, w)
  BY DEF FrameIInv, StreamInv
<1>7. /\ UNCHANGED setup /\ k = Len(read') /\ w = lenMsgLen' /\ st = Stream' /\ ms = written'
      /\ x = ReaderAt(rpc', w)
  BY <1>1, <1>3 DEF setup
<1> QED BY <1>4, <1>5, <1>6, <1>7, NextFrame

\* Bytes that have arrived are read: the stream goes on behind them.
LEMMA StreamDrop ==
    ASSUME NEW c \in Nat, arrived \in Seq(Byte), wire \in Seq(Byte), Len(arrived) >= c,
           arrived' = SubSeq(arrived, c + 1, Len(arrived)), wire' = wire
    PROVE  /\ Stream' \in Seq(Byte) /\ Len(Stream') = Len(Stream) - c
           /\ \A i \in 1..Len(Stream') : Stream'[i] = Stream[c + i]
           /\ arrived' \in Seq(Byte)
<1>1. PICK a, v, b : a = arrived /\ v = wire /\ b = arrived'
  OBVIOUS
<1>2. /\ a \in Seq(Byte) /\ v \in Seq(Byte) /\ Len(a) \in Nat /\ Len(v) \in Nat /\ Len(a) >= c
      /\ b = SubSeq(a, c + 1, Len(a)) /\ Stream = a \o v /\ Stream' = b \o v
  BY <1>1 DEF Stream
<1>3. b \in Seq(Byte) /\ Len(b) = Len(a) - c /\ \A i \in 1..Len(b) : b[i] = a[c + i]
  BY <1>2
<1>4. /\ b \o v \in Seq(Byte) /\ Len(b \o v) = Len(b) + Len(v) /\ Len(a \o v) = Len(a) + Len(v)
      /\ \A i \in 1..(Len(b) + Len(v)) :
             (b \o v)[i] = IF i <= Len(b) THEN b[i] ELSE v[i - Len(b)]
      /\ \A i \in 1..(Len(a) + Len(v)) :
             (a \o v)[i] = IF i <= Len(a) THEN a[i] ELSE v[i - Len(a)]
  <2>1. a \in Seq(Byte) /\ v \in Seq(Byte) /\ b \in Seq(Byte)
    BY <1>2, <1>3
  <2>2. /\ b \o v \in Seq(Byte) /\ Len(b \o v) = Len(b) + Len(v)
        /\ \A i \in 1..(Len(b) + Len(v)) :
               (b \o v)[i] = IF i <= Len(b) THEN b[i] ELSE v[i - Len(b)]
    BY <2>1, ConcatProperties
  <2>3. /\ Len(a \o v) = Len(a) + Len(v)
        /\ \A i \in 1..(Len(a) + Len(v)) :
               (a \o v)[i] = IF i <= Len(a) THEN a[i] ELSE v[i - Len(a)]
    BY <2>1, ConcatProperties
  <2> QED BY <2>2, <2>3
<1>5. ASSUME NEW i \in 1..(Len(b) + Len(v))
      PROVE  (b \o v)[i] = (a \o v)[c + i]
  <2> DEFINE la == Len(a)
             lb == Len(b)
             lv == Len(v)
  <2>0. la \in Nat /\ lv \in Nat /\ lb = la - c /\ la >= c /\ i \in 1..(lb + lv)
    BY <1>2, <1>3
  <2> HIDE DEF la, lb, lv
  <2>1. c + i \in 1..(la + lv) /\ (i <= lb <=> c + i <= la)
    BY <2>0
  <2>2. (c + i) - la = i - lb
    BY <2>0
  <2>3. i <= Len(b) => i \in 1..Len(b)
    BY <1>3
  <2>4. (b \o v)[i] = IF i <= lb THEN b[i] ELSE v[i - lb]
    BY <1>4 DEF lb
  <2>5. (a \o v)[c + i] = IF c + i <= la THEN a[c + i] ELSE v[(c + i) - la]
    BY <1>4, <2>1 DEF la, lv
  <2>6. i <= lb => b[i] = a[c + i]
    BY <1>3, <2>3 DEF lb
  <2> QED BY <2>1, <2>2, <2>4, <2>5, <2>6
<1>6. Len(b \o v) = Len(a \o v) - c
  <2> DEFINE la == Len(a)
             lb == Len(b)
             lv == Len(v)
             x == Len(b \o v)
             y == Len(a \o v)
  <2>1. la \in Nat /\ lv \in Nat /\ lb = la - c /\ x = lb + lv /\ y = la + lv
    BY <1>2, <1>3, <1>4
  <2> HIDE DEF la, lb, lv, x, y
  <2>2. x = y - c
    BY <2>1
  <2> QED BY <2>2 DEF x, y
<1> QED BY <1>1, <1>2, <1>3, <1>4, <1>5, <1>6

\* What the length in front of the reader says.
LEMMA ReadLenStep ==
    ASSUME FrameIInv, ReadLen
    PROVE  FrameIInv'
<1>p. PICK k, w, st, ms, b :
      /\ k = Len(read) /\ w = lenMsgLen /\ st = Stream /\ ms = written /\ b = SubSeq(arrived, 1, w)
  OBVIOUS
<1>1. /\ rpc = -1 /\ Len(arrived) >= w /\ failed' = ~Fits(Uint(b))
      /\ rpc' = (IF Fits(Uint(b)) THEN Uint(b) ELSE -1)
      /\ arrived' = SubSeq(arrived, w + 1, Len(arrived))
      /\ UNCHANGED <<setup, wire, written, read>>
  BY <1>p DEF ReadLen
<1>2. /\ w \in Widths /\ w \in 1..4 /\ MaxLen(w) \in Nat /\ maxMsgLen \in 0..MaxLen(w)
      /\ minMsgLen \in Nat /\ wire \in Seq(Byte) /\ arrived \in Seq(Byte) /\ st \in Seq(Byte)
      /\ ms \in Seq(Seq(Byte)) /\ k \in 0..Len(ms) /\ Len(ms) \in Nat /\ littleEndian \in BOOLEAN
  BY <1>p, FrameTypes
<1>3. PICK o : Cuts(o, st, ms, k, w) /\ o[k] = 0
  BY <1>p, <1>1 DEF FrameIInv, StreamInv, CutsFrom, ReaderAt
<1>4. /\ o[Len(ms)] = Len(st) /\ \A i, j \in k..Len(ms) : i <= j => o[i] <= o[j]
      /\ o \in [k..Len(ms) -> Int]
      /\ \A m \in (k + 1)..Len(ms) :
             \A j \in 1..w : 1 <= o[m - 1] + j => st[o[m - 1] + j] = Put(Len(ms[m]), w)[j]
  BY <1>3 DEF Cuts
<1>5. /\ Len(st) \in Nat /\ Len(arrived) \in w..Len(st)
      /\ \A i \in 1..Len(arrived) : st[i] = arrived[i]
  <2>1. /\ Len(st) = Len(arrived) + Len(wire) /\ Len(arrived) \in Nat /\ Len(wire) \in Nat
        /\ \A i \in 1..Len(arrived) : st[i] = arrived[i]
    BY <1>2, <1>p DEF Stream
  <2> QED BY <1>1, <1>2, <2>1
<1>6. k < Len(ms) /\ k + 1 \in (k + 1)..Len(ms) /\ (k + 1) - 1 = k
  <2>1. k # Len(ms)
    BY <1>2, <1>3, <1>4, <1>5
  <2> QED BY <1>2, <2>1
<1> DEFINE d == Len(ms[k + 1])
<1>7. d \in Nat /\ Fits(d) /\ d \in 0..MaxLen(w)
  <2>1. ms[k + 1] \in Seq(Byte)
    BY <1>2, <1>6
  <2>2. Fits(d)
    BY <1>2, <1>6, <1>p DEF FrameIInv, ReaderInv
  <2> QED BY <1>2, <2>1, <2>2 DEF Fits
<1>8. Uint(b) = d
  <2>1. Put(d, w) \in Seq(Byte) /\ Len(Put(d, w)) = w /\ Uint(Put(d, w)) = d
    BY <1>2, <1>7, RoundTripOf
  <2>2. b \in Seq(Byte) /\ Len(b) = w /\ \A j \in 1..w : b[j] = arrived[j]
    BY <1>2, <1>5, <1>p
  <2>3. \A j \in 1..w : st[j] = Put(d, w)[j]
    <3> SUFFICES ASSUME NEW j \in 1..w PROVE st[j] = Put(d, w)[j]
      OBVIOUS
    <3>1. 1 <= 0 + j /\ 0 + j = j
      BY <1>2
    <3>2. 1 <= o[k] + j => st[o[k] + j] = Put(d, w)[j]
      BY <1>4, <1>6
    <3> QED BY <1>3, <3>1, <3>2
  <2>4. \A j \in 1..w : b[j] = Put(d, w)[j]
    <3>1. \A j \in 1..w : j \in 1..Len(arrived)
      BY <1>2, <1>5
    <3> QED BY <1>5, <2>2, <2>3, <3>1
  <2>5. b = Put(d, w)
    <3> DEFINE q == Put(d, w)
    <3>1. q \in Seq(Byte) /\ b \in Seq(Byte) /\ Len(q) = Len(b) /\ \A j \in 1..Len(b) : b[j] = q[j]
      BY <2>1, <2>2, <2>4
    <3> HIDE DEF q
    <3>2. b = q
      BY <3>1
    <3> QED BY <3>2 DEF q
  <2> QED BY <2>1, <2>5
<1> HIDE DEF d
<1>9. failed' = FALSE /\ rpc' = d
  BY <1>1, <1>7, <1>8
<1>10. PICK st2 : st2 = Stream'
  OBVIOUS
<1>11. /\ st2 \in Seq(Byte) /\ Len(st2) = Len(st) - w /\ \A i \in 1..Len(st2) : st2[i] = st[w + i]
       /\ arrived' \in Seq(Byte)
  BY <1>1, <1>2, <1>5, <1>10, <1>p, StreamDrop
<1>12. \A i \in k..Len(ms) : -w <= o[i] - w
  <2> SUFFICES ASSUME NEW i \in k..Len(ms) PROVE -w <= o[i] - w
    OBVIOUS
  <2>1. k \in k..Len(ms) /\ k <= i
    BY <1>2
  <2>1a. o[i] \in Int
    BY <1>4
  <2>2. 0 <= o[i]
    BY <1>3, <1>4, <2>1
  <2> QED BY <1>2, <2>1a, <2>2
<1>13. CutsFrom(o[k] - w, st2, ms, k, w)
  <2>1. k \in k..Len(ms) /\ w \in 0..Len(st)
    BY <1>2, <1>5
  <2> QED BY <1>2, <1>3, <1>11, <1>12, <2>1, CutsDrop
<1>14. PICK x : x = o[k] - w
  OBVIOUS
<1>15. x = ReaderAt(rpc', w)
  BY <1>2, <1>3, <1>7, <1>9, <1>14 DEF ReaderAt
<1>16. ParserTypeOK'
  <2>1. ParserTypeOK
    BY FrameTypes
  <2>2. MaxLen(lenMsgLen)' = MaxLen(lenMsgLen)
    BY <1>1 DEF setup, MaxLen, Power
  <2>3. rpc' \in -1..MaxLen(lenMsgLen)
    BY <1>2, <1>7, <1>9, <1>p
  <2> QED BY <1>1, <1>9, <1>11, <2>1, <2>2, <2>3 DEF ParserTypeOK, setup
<1>17. ReaderInv'
  <2>1. /\ Len(read) <= Len(ms) /\ \A i \in 1..Len(read) : read[i] = ms[i]
        /\ \A m \in 1..Len(ms) : Fits(Len(ms[m]))
    BY <1>p DEF FrameIInv, ReaderInv
  <2>2. read' = read /\ written' = ms /\ ~failed'
    BY <1>1, <1>9, <1>p
  <2>3. (\A m \in 1..Len(written) : Fits(Len(written[m])))'
    BY <1>1, <2>1, <1>p DEF Fits, setup
  <2>4. Len(read') < Len(written') /\ rpc' = Len(written'[Len(read') + 1])
    BY <1>6, <1>9, <2>2, <1>p DEF d
  <2> QED BY <2>1, <2>2, <2>3, <2>4 DEF ReaderInv
<1>18. UNCHANGED setup /\ k = Len(read') /\ w = lenMsgLen' /\ st2 = Stream' /\ ms = written'
  BY <1>1, <1>10, <1>p DEF setup
<1>19. CutsFrom(x, st2, ms, k, w)
  BY <1>13, <1>14
<1> QED BY <1>15, <1>16, <1>17, <1>18, <1>19, NextFrame

\* The message behind the length is there and is the next one.
LEMMA ReadDataStep ==
    ASSUME FrameIInv, ReadData
    PROVE  FrameIInv'
<1>p. PICK k, w, c, st, ms, b :
      /\ k = Len(read) /\ w = lenMsgLen /\ c = rpc /\ st = Stream /\ ms = written
      /\ b = SubSeq(arrived, 1, c)
  OBVIOUS
<1>1. /\ ~failed /\ c # -1 /\ Len(arrived) >= c /\ read' = Append(read, b)
      /\ arrived' = SubSeq(arrived, c + 1, Len(arrived)) /\ rpc' = -1
      /\ UNCHANGED <<setup, wire, written, failed>>
  BY <1>p DEF ReadData
<1>2. /\ w \in Widths /\ w \in 1..4 /\ MaxLen(w) \in Nat /\ c \in -1..MaxLen(w)
      /\ wire \in Seq(Byte) /\ arrived \in Seq(Byte) /\ st \in Seq(Byte) /\ read \in Seq(Seq(Byte))
      /\ ms \in Seq(Seq(Byte)) /\ k \in 0..Len(ms) /\ Len(ms) \in Nat
  BY <1>p, FrameTypes
<1>3. c \in Nat
  BY <1>1, <1>2
<1>4. /\ Len(read) <= Len(ms) /\ \A i \in 1..k : read[i] = ms[i]
      /\ k < Len(ms) /\ c = Len(ms[k + 1]) /\ \A m \in 1..Len(ms) : Fits(Len(ms[m]))
  BY <1>1, <1>p DEF FrameIInv, ReaderInv
<1>5. PICK o : Cuts(o, st, ms, k, w) /\ o[k] = -w
  BY <1>p, <1>1 DEF FrameIInv, StreamInv, CutsFrom, ReaderAt
<1>6. /\ \A i, j \in k..Len(ms) : i <= j => o[i] <= o[j]
      /\ o \in [k..Len(ms) -> Int]
      /\ \A m \in (k + 1)..Len(ms) :
             /\ o[m] = o[m - 1] + w + Len(ms[m])
             /\ \A j \in 1..Len(ms[m]) : st[o[m - 1] + w + j] = ms[m][j]
  BY <1>5 DEF Cuts
<1>7. /\ Len(st) \in Nat /\ Len(arrived) \in c..Len(st) /\ c \in 0..Len(st)
      /\ \A i \in 1..Len(arrived) : st[i] = arrived[i]
  <2>1. /\ Len(st) = Len(arrived) + Len(wire) /\ Len(arrived) \in Nat /\ Len(wire) \in Nat
        /\ \A i \in 1..Len(arrived) : st[i] = arrived[i]
    BY <1>2, <1>p DEF Stream
  <2> QED BY <1>1, <1>3, <2>1
<1>8. k + 1 \in (k + 1)..Len(ms) /\ (k + 1) - 1 = k /\ k + 1 \in k..Len(ms)
  BY <1>2, <1>4
<1>9. o[k + 1] = c
  <2>1. o[k + 1] = o[k] + w + c
    BY <1>4, <1>6, <1>8
  <2> QED BY <1>2, <1>3, <1>5, <2>1
<1>10. b = ms[k + 1]
  <2>1. b \in Seq(Byte) /\ Len(b) = c /\ \A j \in 1..c : b[j] = arrived[j]
    BY <1>2, <1>3, <1>7, <1>p
  <2>2. \A j \in 1..c : st[j] = ms[k + 1][j]
    <3> SUFFICES ASSUME NEW j \in 1..c PROVE st[j] = ms[k + 1][j]
      OBVIOUS
    <3>1. st[o[k] + w + j] = ms[k + 1][j]
      BY <1>4, <1>6, <1>8
    <3>2. (-w) + w + j = j
      BY <1>2, <1>3
    <3> QED BY <1>5, <3>1, <3>2
  <2>3. \A j \in 1..c : b[j] = ms[k + 1][j]
    <3>1. \A j \in 1..c : j \in 1..Len(arrived)
      BY <1>3, <1>7
    <3> QED BY <1>7, <2>1, <2>2, <3>1
  <2>4. ms[k + 1] \in Seq(Byte)
    BY <1>2, <1>8
  <2> QED BY <1>4, <2>1, <2>3, <2>4
<1>11. PICK st2 : st2 = Stream'
  OBVIOUS
<1>12. /\ st2 \in Seq(Byte) /\ Len(st2) = Len(st) - c /\ \A i \in 1..Len(st2) : st2[i] = st[c + i]
       /\ arrived' \in Seq(Byte)
  BY <1>1, <1>2, <1>3, <1>7, <1>11, <1>p, StreamDrop
<1>13. \A i \in (k + 1)..Len(ms) : -w <= o[i] - c
  <2> SUFFICES ASSUME NEW i \in (k + 1)..Len(ms) PROVE -w <= o[i] - c
    OBVIOUS
  <2>1. i \in k..Len(ms) /\ k + 1 <= i /\ o[i] \in Int
    BY <1>2, <1>6
  <2>2. c <= o[i]
    BY <1>6, <1>8, <1>9, <2>1
  <2> QED BY <1>2, <1>3, <2>1, <2>2
<1>14. CutsFrom(o[k + 1] - c, st2, ms, k + 1, w)
  BY <1>2, <1>5, <1>7, <1>8, <1>12, <1>13, CutsDrop
<1>15. PICK x, k2 : x = o[k + 1] - c /\ k2 = k + 1
  OBVIOUS
<1>16. x = ReaderAt(rpc', w) /\ CutsFrom(x, st2, ms, k2, w)
  BY <1>1, <1>3, <1>9, <1>14, <1>15 DEF ReaderAt
<1>17. /\ read' \in Seq(Seq(Byte)) /\ Len(read') = k + 1 /\ read'[k + 1] = b
       /\ \A i \in 1..k : read'[i] = read[i]
  <2>1. b \in Seq(Byte) /\ Len(read) = k
    BY <1>2, <1>8, <1>10, <1>p
  <2>2. read \in Seq(Seq(Byte)) /\ read' = Append(read, b)
    BY <1>1, <1>2
  <2>3. /\ Append(read, b) \in Seq(Seq(Byte)) /\ Len(Append(read, b)) = Len(read) + 1
        /\ Append(read, b)[Len(read) + 1] = b
        /\ \A i \in 1..Len(read) : Append(read, b)[i] = read[i]
    BY <2>1, <2>2, SeqAppend
  <2> QED BY <2>1, <2>2, <2>3
<1>18. ParserTypeOK'
  <2>1. ParserTypeOK
    BY FrameTypes
  <2>2. MaxLen(lenMsgLen)' = MaxLen(lenMsgLen)
    BY <1>1 DEF setup, MaxLen, Power
  <2>3. rpc' \in -1..MaxLen(lenMsgLen)
    BY <1>1, <1>2, <1>p
  <2> QED BY <1>1, <1>12, <1>17, <2>1, <2>2, <2>3 DEF ParserTypeOK, setup
<1>19. ReaderInv'
  <2>1. written' = ms /\ ~failed' /\ rpc' = -1
    BY <1>1, <1>p
  <2>2. (\A m \in 1..Len(written) : Fits(Len(written[m])))'
    BY <1>1, <1>4, <1>p DEF Fits, setup
  <2>3. Len(read') <= Len(written')
    BY <1>2, <1>4, <1>17, <2>1
  <2>4. \A i \in 1..Len(read') : read'[i] = written'[i]
    <3>1. \A i \in 1..(k + 1) : i \in 1..k \/ i = k + 1
      BY <1>2
    <3> QED BY <1>4, <1>10, <1>17, <2>1, <3>1
  <2> QED BY <2>1, <2>2, <2>3, <2>4 DEF ReaderInv
<1>20. UNCHANGED setup /\ k2 = Len(read') /\ w = lenMsgLen' /\ st2 = Stream' /\ ms = written'
  BY <1>1, <1>11, <1>15, <1>17, <1>p DEF setup
<1> QED BY <1>16, <1>18, <1>19, <1>20, NextFrame

\* Every step keeps the invariant.
LEMMA FrameNextInv == FrameIInv /\ [ParserNext]_parserVars => FrameIInv'
<1> SUFFICES ASSUME FrameIInv, [ParserNext]_parserVars PROVE FrameIInv'
  OBVIOUS
<1>1. ASSUME NEW n \in LenArgs, NEW min \in MinArgs, NEW max \in MaxArgs, SetMsgLen(n, min, max)
      PROVE  FrameIInv'
  BY <1>1, SetMsgLenStep
<1>2. ASSUME NEW little \in BOOLEAN, SetByteOrder(little)
      PROVE  FrameIInv'
  BY <1>2, SetByteOrderStep
<1>3. ASSUME NEW args \in Args, Write(args)
      PROVE  FrameIInv'
  BY <1>3, WriteStep
<1>4. CASE Arrive
  BY <1>4, ArriveStep
<1>5. CASE ReadLen
  BY <1>5, ReadLenStep
<1>6. CASE ReadData
  BY <1>6, ReadDataStep
<1>7. CASE UNCHANGED parserVars
  <2>1. UNCHANGED setup
    BY <1>7 DEF parserVars
  <2>2. UNCHANGED <<lenMsgLen, minMsgLen, maxMsgLen, littleEndian, sets, wire, arrived, rpc,
                    written, read, failed>>
    BY <1>7 DEF parserVars, setup
  <2>3. ParserTypeOK'
    BY <2>2 DEF FrameIInv, ParserTypeOK, MaxLen, Power
  <2>4. ReaderInv'
    BY <2>2 DEF FrameIInv, ReaderInv, Fits
  <2> PICK x, k, w, st, ms :
        x = ReaderAt(rpc, w) /\ k = Len(read) /\ w = lenMsgLen /\ st = Stream /\ ms = written
    OBVIOUS
  <2>5. CutsFrom(x, st, ms, k, w)
    BY DEF FrameIInv, StreamInv
  <2>6. /\ k = Len(read') /\ w = lenMsgLen' /\ st = Stream' /\ ms = written'
        /\ x = ReaderAt(rpc', w)
    BY <2>2 DEF Stream
  <2> QED BY <2>1, <2>3, <2>4, <2>5, <2>6, NextFrame
<1> QED BY <1>1, <1>2, <1>3, <1>4, <1>5, <1>6, <1>7 DEF ParserNext

\* A message that is written and not read has bytes on the stream.
LEMMA FrameHolds == FrameIInv => FrameInv
<1> SUFFICES ASSUME FrameIInv PROVE FrameInv
  OBVIOUS
<1>1. ParserTypeOK /\ ReaderInv
  BY DEF FrameIInv
<1>2. read \in Seq(Seq(Byte)) /\ written \in Seq(Seq(Byte)) /\ lenMsgLen \in 1..4
  BY FrameTypes
<1>3. RoundTrip
  BY <1>1, <1>2 DEF RoundTrip, ReaderInv, IsPrefix
<1>4. NothingLost
  <2> SUFFICES ASSUME wire = <<>>, arrived = <<>>, rpc = -1 PROVE read = written
    BY <1>1 DEF NothingLost, ReaderInv
  <2>p. PICK k, w, st, ms : k = Len(read) /\ w = lenMsgLen /\ st = Stream /\ ms = written
    OBVIOUS
  <2>1. PICK o : Cuts(o, st, ms, k, w) /\ o[k] = 0
    BY <2>p DEF FrameIInv, StreamInv, CutsFrom, ReaderAt
  <2>2. /\ o[Len(ms)] = Len(st) /\ \A i, j \in k..Len(ms) : i <= j => o[i] <= o[j]
        /\ o \in [k..Len(ms) -> Int]
        /\ \A m \in (k + 1)..Len(ms) : o[m] = o[m - 1] + w + Len(ms[m])
    BY <2>1 DEF Cuts
  <2>3. Len(st) = 0
    BY <2>p DEF Stream
  <2>4. k \in 0..Len(ms) /\ Len(ms) \in Nat /\ w \in 1..4
    BY <2>p, FrameTypes
  <2>5. k = Len(ms)
    <3> SUFFICES ASSUME k # Len(ms) PROVE FALSE
      OBVIOUS
    <3>1. /\ k + 1 \in (k + 1)..Len(ms) /\ k + 1 \in k..Len(ms) /\ Len(ms) \in k..Len(ms)
          /\ k + 1 <= Len(ms) /\ (k + 1) - 1 = k /\ k + 1 \in 1..Len(ms)
      BY <2>4
    <3>2. o[k + 1] <= 0
      BY <2>2, <2>3, <3>1
    <3>3. o[k + 1] = o[k] + w + Len(ms[k + 1])
      BY <2>2, <3>1
    <3>4. Len(ms[k + 1]) \in Nat
      BY <1>2, <2>p, <3>1
    <3> QED BY <2>1, <2>4, <3>2, <3>3, <3>4
  <2>6. Len(read) = Len(written) /\ \A i \in 1..Len(read) : read[i] = written[i]
    BY <1>1, <2>5, <2>p DEF ReaderInv
  <2> QED BY <1>2, <2>6, SeqEqual
<1> QED BY <1>1, <1>3, <1>4 DEF FrameInv

\* For every base, every width, bounds and byte order that the setters can leave,
\* and any messages: Read returns what Write accepted, whole and in order, and
\* never refuses the length of one; when the stream is read up, all of it is.
THEOREM FrameSafe == ParserSpec => []FrameInv
BY FrameInitInv, FrameNextInv, FrameHolds, PTL DEF ParserSpec

=============================================================================
