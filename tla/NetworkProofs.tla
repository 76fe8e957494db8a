---------------------------- MODULE NetworkProofs ----------------------------
(***************************************************************************)
(* Safety of the network package: network.TCPConn for any number of        *)
(* goroutines, any frames and any capacity of writeChan, that it           *)
(* implements Pipe, of network.TCPServer and network.TCPClient for any     *)
(* finite set of connections or goroutines and any limit, and of a node    *)
(* that takes its routes from any cluster configuration.                   *)
(***************************************************************************)
EXTENDS TCPConn, TCPServer, TCPClient, NodeSetup, ProofLemmas

(***************************************************************************)
(* The connection.  None of the properties is inductive alone: they need   *)
(* who holds the mutex, that closeFlag is still unset in doWrite (so       *)
(* nothing follows the sentinel or the close of the channel), and where    *)
(* each accepted frame is.                                                 *)
(***************************************************************************)

\* The mutex is held by the one goroutine that is inside a call.
LockInv == \A t \in Thread : pc[t] # "idle" => lock = t

\* doWrite and its send run with closeFlag unset and room in the channel.
CallInv ==
    \A t \in Thread :
        /\ pc[t] \in {"doWrite", "send"} => ~closeFlag
        /\ pc[t] = "send" => Len(writeChan) < PendingWriteNum

\* A closed channel and a queued sentinel both mean closeFlag, and exclude each other.
FlagInv ==
    /\ chanClosed => closeFlag
    /\ \A i \in 1..Len(writeChan) :
           writeChan[i] = Nil => i = Len(writeChan) /\ closeFlag

\* 1 while the writer holds a frame it has taken but not yet written.
InHand == IF wpc = "write" THEN 1 ELSE 0

\* The writer is still in its loop.
Looping == wpc \in {"recv", "write"}

\* The last item of the channel is the nil of Close.
SentinelQueued == Len(writeChan) > 0 /\ writeChan[Len(writeChan)] = Nil

\* What conn.Write took is a prefix of what was accepted.
PrefixInv ==
    /\ Len(wire) <= Len(accepted)
    /\ \A i \in 1..Len(wire) : wire[i] = accepted[i]
    /\ wpc = "write" => /\ Len(wire) < Len(accepted)
                        /\ cur = accepted[Len(wire) + 1]

\* While the writer loops, the channel holds exactly the accepted frames that
\* are neither written nor in its hand, and perhaps the sentinel.
FlowInv ==
    Looping =>
        /\ \A i \in 1..Len(writeChan) : writeChan[i] # Nil =>
               /\ Len(wire) + InHand + i <= Len(accepted)
               /\ writeChan[i] = accepted[Len(wire) + InHand + i]
        /\ SentinelQueued => Len(accepted) + 1 = Len(wire) + InHand + Len(writeChan)
        /\ ~SentinelQueued => Len(accepted) = Len(wire) + InHand + Len(writeChan)

\* A writer that left its loop without an error left nothing behind.
EndInv == ~Looping /\ ~failed => closeFlag /\ Len(wire) = Len(accepted)

IInv == /\ TypeOK /\ NoChannelPanic /\ LockInv /\ CallInv /\ FlagInv
        /\ PrefixInv /\ FlowInv /\ EndInv

-----------------------------------------------------------------------------
(***************************************************************************)
(* Every variable keeps its type, and writeChan never holds more than its  *)
(* capacity: doWrite tests the length before it sends.                     *)
(***************************************************************************)
LEMMA TypeStep == TypeOK /\ LockInv /\ CallInv /\ FlagInv /\ PrefixInv /\ [Next]_vars => TypeOK'
<1> SUFFICES ASSUME TypeOK, CallInv, FlagInv, PrefixInv, [Next]_vars
             PROVE  TypeOK'
  OBVIOUS
<1> USE NilAssumption, CapAssumption, FreeAssumption DEF TypeOK, writerVars, history
<1>1. ASSUME NEW t \in Thread, NEW m \in Msg, Write(t, m) PROVE TypeOK'
  BY <1>1 DEF Write, Enter
<1>2. ASSUME NEW t \in Thread, Close(t) PROVE TypeOK'
  BY <1>2 DEF Close, Enter
<1>3. ASSUME NEW t \in Thread, Destroy(t) PROVE TypeOK'
  BY <1>3 DEF Destroy, Enter
<1>4. ASSUME NEW t \in Thread, DoWrite(t) PROVE TypeOK'
  BY <1>4 DEF DoWrite
<1>5. ASSUME NEW t \in Thread, Send(t) PROVE TypeOK'
  <2>1. Len(writeChan) < PendingWriteNum
    BY <1>5 DEF Send, CallInv
  <2>2. writeChan' \in Seq(Msg \cup {Nil}) /\ Len(writeChan') <= PendingWriteNum
    BY <1>5, <2>1 DEF Send
  <2>3. accepted' \in Seq(Msg)
    BY <1>5 DEF Send
  <2> QED BY <1>5, <2>2, <2>3 DEF Send, Leave
<1>6. ASSUME NEW t \in Thread, DoDestroy(t) PROVE TypeOK'
  BY <1>6 DEF DoDestroy
<1>7. ASSUME NEW t \in Thread, CloseChan(t) PROVE TypeOK'
  BY <1>7 DEF CloseChan, Leave
<1>8. CASE Recv
  <2>1. CASE writeChan = <<>>
    BY <1>8, <2>1 DEF Recv
  <2>2. CASE writeChan # <<>>
    <3>1. /\ Head(writeChan) \in Msg \cup {Nil}
          /\ Tail(writeChan) \in Seq(Msg \cup {Nil})
          /\ Len(Tail(writeChan)) = Len(writeChan) - 1
      BY <2>2, HeadTailProperties
    <3>2. Len(writeChan) \in Nat
      BY LenProperties
    <3>3. cur' = Head(writeChan) /\ writeChan' = Tail(writeChan)
      BY <1>8, <2>2 DEF Recv
    <3>4. Len(writeChan') <= PendingWriteNum
      BY <3>1, <3>2, <3>3
    <3>5. /\ wpc' \in {"closing", "write"}
          /\ UNCHANGED <<chanClosed, closeFlag, lock, pc, arg, connOpen, stalled, sent,
                         accepted, wire, failed, destroyed, panicked>>
      BY <1>8, <2>2 DEF Recv
    <3> QED BY <3>1, <3>3, <3>4, <3>5
  <2> QED BY <2>1, <2>2
<1>9. CASE ConnWrite
  BY <1>9 DEF ConnWrite, PrefixInv
<1>10. CASE ConnWriteErr
  BY <1>10 DEF ConnWriteErr
<1>11. CASE ConnClose
  BY <1>11 DEF ConnClose
<1>12. CASE SetCloseFlag
  BY <1>12 DEF SetCloseFlag
<1>13. CASE PeerStalls
  BY <1>13 DEF PeerStalls
<1>14. CASE UNCHANGED vars
  BY <1>14 DEF vars
<1> QED BY <1>1, <1>2, <1>3, <1>4, <1>5, <1>6, <1>7, <1>8, <1>9, <1>10, <1>11, <1>12,
           <1>13, <1>14 DEF Next, Call, Held, Writer, CloseAgain

-----------------------------------------------------------------------------
(***************************************************************************)
(* Mutual exclusion of the calls, and what it protects: closeFlag cannot   *)
(* be set, nor the room in the channel taken, between doWrite's tests and  *)
(* its send.                                                               *)
(***************************************************************************)
LEMMA LockStep == TypeOK /\ LockInv /\ [Next]_vars => LockInv'
<1> SUFFICES ASSUME TypeOK, LockInv, [Next]_vars
             PROVE  LockInv'
  OBVIOUS
<1> USE FreeAssumption DEF TypeOK, LockInv, writerVars, history
<1>1. ASSUME NEW t \in Thread, Call(t) PROVE LockInv'
  BY <1>1 DEF Call, Write, Close, CloseAgain, Destroy, Enter, vars
<1>2. ASSUME NEW t \in Thread, Held(t) PROVE LockInv'
  BY <1>2 DEF Held, DoWrite, Send, DoDestroy, CloseChan, Leave
<1>3. CASE Writer \/ PeerStalls \/ UNCHANGED vars
  BY <1>3 DEF Writer, Recv, ConnWrite, ConnWriteErr, ConnClose, SetCloseFlag, PeerStalls, vars
<1> QED BY <1>1, <1>2, <1>3 DEF Next

\* Every step keeps what the goroutines inside a call know.
LEMMA CallStep ==
    TypeOK /\ LockInv /\ CallInv /\ FlagInv /\ NoChannelPanic /\ [Next]_vars
        => CallInv' /\ NoChannelPanic'
<1> SUFFICES ASSUME TypeOK, LockInv, CallInv, FlagInv, NoChannelPanic, [Next]_vars
             PROVE  CallInv' /\ NoChannelPanic'
  OBVIOUS
<1> USE FreeAssumption, CapAssumption
    DEF TypeOK, LockInv, CallInv, FlagInv, NoChannelPanic, writerVars, history
<1>1. ASSUME NEW t \in Thread, Call(t) PROVE CallInv' /\ NoChannelPanic'
  BY <1>1 DEF Call, Write, Close, CloseAgain, Destroy, Enter, vars
<1>2. ASSUME NEW t \in Thread, DoWrite(t) PROVE CallInv' /\ NoChannelPanic'
  BY <1>2, LenProperties DEF DoWrite
<1>3. ASSUME NEW t \in Thread, Send(t) PROVE CallInv' /\ NoChannelPanic'
  BY <1>3 DEF Send, Leave
<1>4. ASSUME NEW t \in Thread, DoDestroy(t) PROVE CallInv' /\ NoChannelPanic'
  BY <1>4 DEF DoDestroy
<1>5. ASSUME NEW t \in Thread, CloseChan(t) PROVE CallInv' /\ NoChannelPanic'
  BY <1>5 DEF CloseChan, Leave
<1>6. CASE Recv
  <2>1. Len(writeChan') <= Len(writeChan)
    BY <1>6, HeadTailProperties, LenProperties DEF Recv
  <2>2. Len(writeChan) \in Nat /\ Len(writeChan') \in Nat
    BY <1>6, HeadTailProperties, LenProperties DEF Recv
  <2> QED BY <1>6, <2>1, <2>2 DEF Recv
<1>7. CASE ConnWrite \/ ConnWriteErr \/ ConnClose \/ PeerStalls \/ UNCHANGED vars
  BY <1>7 DEF ConnWrite, ConnWriteErr, ConnClose, PeerStalls, vars
<1>8. CASE SetCloseFlag
  BY <1>8 DEF SetCloseFlag
<1> QED BY <1>1, <1>2, <1>3, <1>4, <1>5, <1>6, <1>7, <1>8 DEF Next, Held, Writer

\* Every step keeps the close flag ahead of the channel and the sentinel last.
LEMMA FlagStep ==
    TypeOK /\ LockInv /\ CallInv /\ FlagInv /\ [Next]_vars => FlagInv'
<1> SUFFICES ASSUME TypeOK, LockInv, CallInv, FlagInv, [Next]_vars
             PROVE  FlagInv'
  OBVIOUS
<1> USE DEF TypeOK, FlagInv, writerVars, history
<1>1. ASSUME NEW t \in Thread, Call(t) PROVE FlagInv'
  BY <1>1 DEF Call, Write, Close, CloseAgain, Destroy, Enter, vars
<1>2. ASSUME NEW t \in Thread, DoWrite(t) \/ DoDestroy(t) PROVE FlagInv'
  BY <1>2 DEF DoWrite, DoDestroy
<1>3. ASSUME NEW t \in Thread, Send(t) PROVE FlagInv'
  <2>1. ~closeFlag
    BY <1>3 DEF Send, CallInv
  <2>2. /\ Len(writeChan') = Len(writeChan) + 1
        /\ Len(writeChan) \in Nat
        /\ writeChan'[Len(writeChan) + 1] = arg[t]
        /\ \A i \in 1..Len(writeChan) : writeChan'[i] = writeChan[i]
    BY <1>3 DEF Send
  <2>3. \A i \in 1..Len(writeChan) : writeChan[i] # Nil
    BY <2>1
  <2>4. closeFlag' = (arg[t] = Nil) /\ chanClosed' = chanClosed
    BY <1>3, <2>1 DEF Send
  <2>5. ~chanClosed'
    BY <2>1, <2>4
  <2>6. ASSUME NEW i \in 1..Len(writeChan'), writeChan'[i] = Nil
        PROVE  i = Len(writeChan') /\ closeFlag'
    <3>1. i \notin 1..Len(writeChan)
      BY <2>2, <2>3, <2>6
    <3>2. i = Len(writeChan) + 1
      BY <2>2, <3>1
    <3> QED BY <2>2, <2>4, <2>6, <3>2
  <2> QED BY <2>5, <2>6
<1>4. ASSUME NEW t \in Thread, CloseChan(t) PROVE FlagInv'
  BY <1>4 DEF CloseChan
<1>5. CASE Recv
  <2>1. CASE writeChan = <<>>
    BY <1>5, <2>1 DEF Recv
  <2>2. CASE writeChan # <<>>
    <3>1. /\ Len(writeChan') = Len(writeChan) - 1
          /\ \A i \in 1..Len(writeChan') : writeChan'[i] = writeChan[i + 1]
      BY <1>5, <2>2, HeadTailProperties DEF Recv
    <3>2. Len(writeChan) \in Nat
      BY LenProperties
    <3> QED BY <1>5, <3>1, <3>2 DEF Recv
  <2> QED BY <2>1, <2>2
<1>6. CASE ConnWrite \/ ConnWriteErr \/ ConnClose \/ PeerStalls \/ UNCHANGED vars
  BY <1>6 DEF ConnWrite, ConnWriteErr, ConnClose, PeerStalls, vars
<1>7. CASE SetCloseFlag
  BY <1>7 DEF SetCloseFlag
<1> QED BY <1>1, <1>2, <1>3, <1>4, <1>5, <1>6, <1>7 DEF Next, Held, Writer

-----------------------------------------------------------------------------
(***************************************************************************)
(* Where the accepted frames are.  Only Send, Recv and the two outcomes of *)
(* conn.Write move a frame; the other actions leave the sequences alone.   *)
(***************************************************************************)
Flow == PrefixInv /\ FlowInv /\ EndInv

\* Every step keeps written, held, queued and accepted frames together.
LEMMA FlowStep ==
    TypeOK /\ LockInv /\ CallInv /\ FlagInv /\ Flow /\ [Next]_vars => Flow'
<1> SUFFICES ASSUME TypeOK, LockInv, CallInv, FlagInv, Flow, [Next]_vars
             PROVE  Flow'
  OBVIOUS
<1>0. Len(writeChan) \in Nat /\ Len(accepted) \in Nat /\ Len(wire) \in Nat
  BY LenProperties DEF TypeOK
<1>1. ASSUME UNCHANGED <<writeChan, accepted, wire, wpc, cur, failed>>, closeFlag => closeFlag'
      PROVE  Flow'
  BY <1>1 DEF Flow, PrefixInv, FlowInv, EndInv, InHand, Looping, SentinelQueued
<1>2. ASSUME NEW t \in Thread, Call(t) PROVE Flow'
  BY <1>1, <1>2 DEF Call, Write, Close, CloseAgain, Destroy, writerVars, vars
<1>3. ASSUME NEW t \in Thread, DoWrite(t) \/ DoDestroy(t) \/ CloseChan(t) PROVE Flow'
  BY <1>1, <1>3 DEF DoWrite, DoDestroy, CloseChan, writerVars
<1>4. ASSUME NEW t \in Thread, Send(t) PROVE Flow'
  <2>1. ~closeFlag /\ arg[t] \in Msg \cup {Nil}
    BY <1>4 DEF Send, CallInv, TypeOK
  <2>2. /\ Len(writeChan') = Len(writeChan) + 1
        /\ writeChan'[Len(writeChan) + 1] = arg[t]
        /\ \A i \in 1..Len(writeChan) : writeChan'[i] = writeChan[i]
    BY <1>4 DEF Send, TypeOK
  <2>3. \A i \in 1..Len(writeChan) : writeChan[i] # Nil
    BY <2>1 DEF FlagInv
  <2>4. UNCHANGED <<wire, wpc, cur, failed>>
    BY <1>4 DEF Send, writerVars
  <2>5. Looping => Len(accepted) = Len(wire) + InHand + Len(writeChan)
    <3>1. ~SentinelQueued
      BY <1>0, <2>3 DEF SentinelQueued
    <3> QED BY <3>1 DEF Flow, FlowInv
  <2>6. CASE arg[t] = Nil
    <3>1. accepted' = accepted
      BY <1>4, <2>6 DEF Send
    <3>2. PrefixInv' /\ EndInv'
      BY <2>1, <2>4, <3>1 DEF Flow, PrefixInv, EndInv, Looping
    <3>3. FlowInv'
      <4> SUFFICES ASSUME Looping PROVE FlowInv'
        BY <2>4 DEF FlowInv, Looping
      <4>1. InHand \in Nat /\ InHand' = InHand
        BY <2>4 DEF InHand
      <4>2. /\ SentinelQueued'
            /\ Len(accepted') + 1 = Len(wire') + InHand' + Len(writeChan')
        BY <1>0, <2>2, <2>4, <2>5, <2>6, <3>1, <4>1 DEF SentinelQueued
      <4>3. ASSUME NEW i \in 1..Len(writeChan'), writeChan'[i] # Nil
            PROVE  /\ Len(wire') + InHand' + i <= Len(accepted')
                   /\ writeChan'[i] = accepted'[Len(wire') + InHand' + i]
        <5>1. i \in 1..Len(writeChan)
          BY <1>0, <2>2, <2>6, <4>3
        <5>2. /\ Len(wire) + InHand + i <= Len(accepted)
              /\ writeChan[i] = accepted[Len(wire) + InHand + i]
          BY <2>3, <5>1 DEF Flow, FlowInv
        <5> QED BY <2>2, <2>4, <3>1, <4>1, <5>1, <5>2
      <4> QED BY <4>2, <4>3 DEF FlowInv
    <3> QED BY <3>2, <3>3 DEF Flow
  <2>7. CASE arg[t] # Nil
    <3>1. /\ Len(accepted') = Len(accepted) + 1
          /\ accepted'[Len(accepted) + 1] = arg[t]
          /\ \A i \in 1..Len(accepted) : accepted'[i] = accepted[i]
      BY <1>4, <2>1, <2>7 DEF Send, TypeOK
    <3>2. PrefixInv'
      BY <1>0, <2>4, <3>1 DEF Flow, PrefixInv
    <3>3. EndInv'
      BY <2>1, <2>4 DEF Flow, EndInv, Looping
    <3>4. FlowInv'
      <4> SUFFICES ASSUME Looping PROVE FlowInv'
        BY <2>4 DEF FlowInv, Looping
      <4>1. InHand \in Nat /\ InHand' = InHand
        BY <2>4 DEF InHand
      <4>2. /\ ~SentinelQueued'
            /\ Len(accepted') = Len(wire') + InHand' + Len(writeChan')
        BY <1>0, <2>2, <2>4, <2>5, <2>7, <3>1, <4>1 DEF SentinelQueued
      <4>3. ASSUME NEW i \in 1..Len(writeChan') 
            PROVE  /\ Len(wire') + InHand' + i <= Len(accepted')
                   /\ writeChan'[i] = accepted'[Len(wire') + InHand' + i]
        <5>1. CASE i \in 1..Len(writeChan)
          <6>1. /\ Len(wire) + InHand + i \in 1..Len(accepted)
                /\ writeChan[i] = accepted[Len(wire) + InHand + i]
            BY <1>0, <2>3, <4>1, <5>1 DEF Flow, FlowInv
          <6> QED BY <1>0, <2>2, <2>4, <3>1, <4>1, <5>1, <6>1
        <5>2. CASE i = Len(writeChan) + 1
          BY <1>0, <2>2, <2>4, <2>5, <3>1, <4>1, <5>2
        <5> QED BY <1>0, <2>2, <5>1, <5>2
      <4> QED BY <4>2, <4>3 DEF FlowInv
    <3> QED BY <3>2, <3>3, <3>4 DEF Flow
  <2> QED BY <2>6, <2>7
<1>5. CASE Recv
  <2>1. UNCHANGED <<accepted, wire, failed, closeFlag>> /\ wpc = "recv"
    BY <1>5 DEF Recv, history
  <2>2. CASE writeChan = <<>>
    <3>1. wpc' = "closing" /\ chanClosed
      BY <1>5, <2>2 DEF Recv
    <3>2. Len(accepted) = Len(wire)
      BY <1>0, <2>1, <2>2 DEF Flow, FlowInv, InHand, Looping, SentinelQueued
    <3> QED BY <2>1, <3>1, <3>2 DEF Flow, PrefixInv, FlowInv, EndInv, Looping, FlagInv
  <2>3. CASE writeChan # <<>>
    <3>0. /\ cur' = Head(writeChan) /\ writeChan' = Tail(writeChan)
          /\ wpc' = IF Head(writeChan) = Nil THEN "closing" ELSE "write"
          /\ writeChan \in Seq(Msg \cup {Nil})
      BY <1>5, <2>3 DEF Recv, TypeOK
    <3>1. /\ Len(writeChan') = Len(writeChan) - 1
          /\ \A i \in 1..Len(writeChan') : writeChan'[i] = writeChan[i + 1]
          /\ Head(writeChan) = writeChan[1]
          /\ Len(writeChan) > 0
      <4>1. Len(writeChan) > 0 /\ Head(writeChan) = writeChan[1]
        BY <1>0, <2>3, <3>0, EmptySeq
      <4> QED BY <2>3, <3>0, <4>1, HeadTailProperties
    <3>2. CASE writeChan[1] = Nil
      <4>1. Len(writeChan) = 1 /\ closeFlag
        BY <1>0, <3>1, <3>2 DEF FlagInv
      <4>2. Len(accepted) = Len(wire)
        <5>1. Looping /\ InHand = 0 /\ SentinelQueued
          BY <2>1, <3>2, <4>1 DEF Looping, InHand, SentinelQueued
        <5> QED BY <1>0, <4>1, <5>1 DEF Flow, FlowInv
      <4>3. wpc' = "closing"
        BY <3>0, <3>1, <3>2
      <4> QED BY <2>1, <4>1, <4>2, <4>3 DEF Flow, PrefixInv, FlowInv, EndInv, Looping
    <3>3. CASE writeChan[1] # Nil
      <4>1. wpc' = "write"
        BY <3>0, <3>1, <3>3
      <4>2. Len(wire) + 1 <= Len(accepted) /\ writeChan[1] = accepted[Len(wire) + 1]
        BY <1>0, <2>1, <3>1, <3>3 DEF Flow, FlowInv, InHand, Looping, SentinelQueued
      <4>3. PrefixInv' /\ EndInv'
        BY <1>0, <2>1, <3>0, <3>1, <4>1, <4>2 DEF Flow, PrefixInv, EndInv, Looping
      <4>4. FlowInv'
        <5>1. Looping /\ Looping' /\ InHand = 0 /\ InHand' = 1
          BY <2>1, <4>1 DEF Looping, InHand
        <5>2. ASSUME NEW i \in 1..Len(writeChan'), writeChan'[i] # Nil
              PROVE  /\ Len(wire') + InHand' + i <= Len(accepted')
                     /\ writeChan'[i] = accepted'[Len(wire') + InHand' + i]
          <6>1. i + 1 \in 1..Len(writeChan) /\ writeChan[i + 1] # Nil
            BY <1>0, <3>1, <5>2
          <6>2. /\ Len(wire) + 0 + (i + 1) <= Len(accepted)
                /\ writeChan[i + 1] = accepted[Len(wire) + 0 + (i + 1)]
            BY <5>1, <6>1 DEF Flow, FlowInv
          <6> QED BY <1>0, <2>1, <3>1, <5>1, <6>1, <6>2
        <5>3. SentinelQueued' <=> SentinelQueued
          <6>1. CASE Len(writeChan) = 1
            BY <3>1, <3>3, <6>1 DEF SentinelQueued
          <6>2. CASE Len(writeChan) # 1
            <7>1. /\ Len(writeChan') \in 1..Len(writeChan')
                  /\ Len(writeChan') + 1 = Len(writeChan)
              BY <1>0, <3>1, <6>2
            <7>2. writeChan'[Len(writeChan')] = writeChan[Len(writeChan)]
              BY <3>1, <7>1
            <7> QED BY <1>0, <7>1, <7>2 DEF SentinelQueued
          <6> QED BY <6>1, <6>2
        <5>4. Len(wire') + InHand' + Len(writeChan') = Len(wire) + InHand + Len(writeChan)
          BY <1>0, <2>1, <3>1, <5>1
        <5> QED BY <2>1, <5>1, <5>2, <5>3, <5>4 DEF Flow, FlowInv
      <4> QED BY <4>3, <4>4 DEF Flow
    <3> QED BY <3>2, <3>3
  <2> QED BY <2>2, <2>3
<1>6. CASE ConnWrite
  <2>1. /\ wpc = "write" /\ wpc' = "recv"
        /\ UNCHANGED <<writeChan, accepted, failed, closeFlag>>
        /\ Len(wire) < Len(accepted) /\ cur = accepted[Len(wire) + 1]
        /\ wire' = Append(wire, cur) /\ wire \in Seq(Msg)
    BY <1>6 DEF ConnWrite, Flow, PrefixInv, TypeOK
  <2>2. /\ Len(wire') = Len(wire) + 1
        /\ wire'[Len(wire) + 1] = cur
        /\ \A i \in 1..Len(wire) : wire'[i] = wire[i]
    BY <2>1
  <2>3. PrefixInv'
    BY <1>0, <2>1, <2>2 DEF Flow, PrefixInv
  <2>4. FlowInv'
    BY <1>0, <2>1, <2>2 DEF Flow, FlowInv, InHand, Looping, SentinelQueued
  <2>5. EndInv'
    BY <2>1 DEF EndInv, Looping
  <2> QED BY <2>3, <2>4, <2>5 DEF Flow
<1>7. CASE ConnWriteErr
  BY <1>7 DEF ConnWriteErr, Flow, PrefixInv, FlowInv, EndInv, Looping
<1>8. CASE ConnClose \/ SetCloseFlag
  BY <1>8 DEF ConnClose, SetCloseFlag, history, Flow, PrefixInv, FlowInv, EndInv, Looping
<1>9. CASE PeerStalls \/ UNCHANGED vars
  BY <1>1, <1>9 DEF PeerStalls, writerVars, vars
<1> QED BY <1>2, <1>3, <1>4, <1>5, <1>6, <1>7, <1>8, <1>9 DEF Next, Held, Writer

-----------------------------------------------------------------------------
\* A new connection satisfies the invariant.
LEMMA IInvInit == Init => IInv
<1> SUFFICES ASSUME Init PROVE IInv
  OBVIOUS
<1> USE CapAssumption DEF Init
<1>1. TypeOK
  <2>1. <<>> \in Seq(Msg \cup {Nil}) /\ <<>> \in Seq(Msg) /\ Len(<<>>) <= PendingWriteNum
    OBVIOUS
  <2>2. pc \in [Thread -> {"idle", "doWrite", "send", "doDestroy", "closeChan"}]
    OBVIOUS
  <2>3. arg \in [Thread -> Msg \cup {Nil}]
    OBVIOUS
  <2> QED BY <2>1, <2>2, <2>3 DEF TypeOK
<1>2. NoChannelPanic /\ LockInv /\ CallInv /\ FlagInv
  BY DEF NoChannelPanic, LockInv, CallInv, FlagInv
<1>3. PrefixInv /\ FlowInv /\ EndInv
  BY DEF PrefixInv, FlowInv, EndInv, InHand, Looping, SentinelQueued
<1> QED BY <1>1, <1>2, <1>3 DEF IInv

\* Every step of the specification keeps the invariant.
LEMMA IInvStep == IInv /\ [Next]_vars => IInv'
  BY TypeStep, LockStep, CallStep, FlagStep, FlowStep DEF IInv, Flow

(***************************************************************************)
(* The inductive invariant holds in every reachable state.                 *)
(***************************************************************************)
THEOREM Invariance == Spec => []IInv
  BY IInvInit, IInvStep, PTL DEF Spec

(***************************************************************************)
(* Type correctness; in particular writeChan never exceeds its capacity.   *)
(***************************************************************************)
THEOREM TypeCorrect == Spec => []TypeOK
<1>1. IInv => TypeOK
  BY DEF IInv
<1> QED BY <1>1, Invariance, PTL

(***************************************************************************)
(* No interleaving of Write, Close, Destroy and the writer sends on or     *)
(* closes a closed writeChan.                                              *)
(***************************************************************************)
THEOREM NeverPanics == Spec => []NoChannelPanic
<1>1. IInv => NoChannelPanic
  BY DEF IInv
<1> QED BY <1>1, Invariance, PTL

(***************************************************************************)
(* A goroutine about to send in doWrite, holding the mutex, finds room in  *)
(* an open channel.                                                        *)
(***************************************************************************)
THEOREM SendNeverBlocks == Spec => []SendHasRoom
<1>1. IInv => SendHasRoom
  BY DEF IInv, CallInv, FlagInv, SendHasRoom
<1> QED BY <1>1, Invariance, PTL

(***************************************************************************)
(* A writer that ends without a failed conn.Write has written everything   *)
(* that Write accepted.                                                    *)
(***************************************************************************)
THEOREM CloseFlushes == Spec => []GracefulFlush
<1>1. IInv => GracefulFlush
  <2> SUFFICES ASSUME IInv, wpc \in {"closing", "setFlag", "done"}, ~failed
               PROVE  wire = accepted
    BY DEF GracefulFlush
  <2>1. wire \in Seq(Msg) /\ accepted \in Seq(Msg)
    BY DEF IInv, TypeOK
  <2>2. Len(wire) = Len(accepted) /\ \A i \in 1..Len(wire) : wire[i] = accepted[i]
    BY DEF IInv, EndInv, PrefixInv, Looping
  <2> QED BY <2>1, <2>2, SeqEqual
<1> QED BY <1>1, Invariance, PTL

-----------------------------------------------------------------------------
(***************************************************************************)
(* TCPConn implements Pipe: Send of a frame is Accept, conn.Write is       *)
(* Deliver, a step that sets closeFlag is Shut, and the rest stutters.     *)
(***************************************************************************)
LEMMA PipeStep ==
    IInv /\ [Next]_vars => [AbstractPipe!PipeNext]_(AbstractPipe!pipeVars)
<1> SUFFICES ASSUME IInv, [Next]_vars
             PROVE  AbstractPipe!PipeNext \/ UNCHANGED <<accepted, wire, closeFlag>>
  BY DEF AbstractPipe!pipeVars
<1> USE DEF AbstractPipe!PipeNext
<1>1. ASSUME NEW t \in Thread, Call(t) PROVE UNCHANGED <<accepted, wire, closeFlag>>
  BY <1>1 DEF Call, Write, Close, CloseAgain, Destroy, writerVars, vars
<1>2. ASSUME NEW t \in Thread, DoWrite(t) \/ DoDestroy(t)
      PROVE  UNCHANGED <<accepted, wire, closeFlag>>
  BY <1>2 DEF DoWrite, DoDestroy, writerVars
<1>3. ASSUME NEW t \in Thread, Send(t) PROVE AbstractPipe!PipeNext
  <2>1. ~closeFlag /\ wire' = wire /\ arg[t] \in Msg \cup {Nil}
    BY <1>3 DEF IInv, CallInv, TypeOK, Send, writerVars
  <2>2. CASE arg[t] = Nil
    BY <1>3, <2>1, <2>2 DEF Send, AbstractPipe!Shut
  <2>3. CASE arg[t] # Nil
    <3>1. accepted' = Append(accepted, arg[t]) /\ arg[t] \in Msg
      BY <1>3, <2>1, <2>3 DEF Send
    <3>2. closeFlag' = closeFlag
      BY <1>3, <2>1, <2>3 DEF Send, IInv, TypeOK
    <3> QED BY <2>1, <3>1, <3>2 DEF AbstractPipe!Accept
  <2> QED BY <2>2, <2>3
<1>4. ASSUME NEW t \in Thread, CloseChan(t)
      PROVE  AbstractPipe!PipeNext \/ UNCHANGED <<accepted, wire, closeFlag>>
  BY <1>4 DEF CloseChan, writerVars, AbstractPipe!Shut
<1>5. CASE ConnWrite
  BY <1>5 DEF ConnWrite, IInv, PrefixInv, AbstractPipe!Deliver
<1>6. CASE SetCloseFlag
  BY <1>6 DEF SetCloseFlag, history, AbstractPipe!Shut
<1>7. CASE Recv \/ ConnWriteErr \/ ConnClose \/ PeerStalls \/ UNCHANGED vars
  BY <1>7 DEF Recv, ConnWriteErr, ConnClose, PeerStalls, history, writerVars, vars
<1> QED BY <1>1, <1>2, <1>3, <1>4, <1>5, <1>6, <1>7 DEF Next, Held, Writer

(***************************************************************************)
(* Every behaviour of the connection is a behaviour of an ordered pipe     *)
(* that accepts nothing after closeFlag.                                   *)
(***************************************************************************)
THEOREM ImplementsPipe == Spec => PipePromise
<1>1. Init => AbstractPipe!PipeInit
  BY DEF Init, AbstractPipe!PipeInit
<1>2. Spec => AbstractPipe!PipeSpec
  BY <1>1, PipeStep, Invariance, PTL DEF Spec, AbstractPipe!PipeSpec
<1> QED BY <1>2 DEF PipePromise

-----------------------------------------------------------------------------
(***************************************************************************)
(* The server.                                                             *)
(***************************************************************************)

\* The agents counted in wgConns.
Counted == {c \in Conn : agent[c] \in {"run", "close", "delete", "onclose"}}

\* The wait groups count run from its Add on, and every agent up to its Done.
WaitInv ==
    /\ wgLn = IF runPc \in {"accept", "lock", "serve"} THEN 1 ELSE 0
    /\ wgConns = Cardinality(Counted)

\* run holds a connection between Accept and its goroutine: one that is open
\* or was hung up, has no agent, and is in conns once it is registered.
HeldInv ==
    /\ runPc \in {"lock", "serve"} => held # {}
    /\ runPc \notin {"lock", "serve"} => held = {}
    /\ \A c \in held : agent[c] = "none" /\ sock[c] \in {"open", "closed"}
    /\ runPc = "lock" => \A c \in held : c \notin conns
    /\ runPc = "serve" => held \subseteq conns

\* What Close has passed: the listener is shut first, so that run, which may
\* count itself late, cannot accept; the map goes when run is out of the way.
ClosingInv ==
    /\ closePc # "idle" => ~lnOpen /\ runPc # "new"
    /\ runPc = "new" => ~lnOpen /\ \A c \in Conn : agent[c] = "none"
    /\ closePc \in {"lock", "waitConns", "returned"} => runPc \in {"add", "accept", "exited"}
    /\ connsNil <=> runPc = "new" \/ closePc \in {"waitConns", "returned"}

\* conns holds the connections that have an agent, up to its Delete, and the
\* one run is about to give one; only Close takes others out, closing them.
ConnsInv ==
    /\ Cardinality(conns) <= MaxConnNum
    /\ \A c \in conns : agent[c] \in {"run", "close", "delete"} \/ c \in held
    /\ \A c \in Conn : agent[c] \in {"run", "close", "delete"} =>
           c \in conns \/ (connsNil /\ sock[c] = "closed")
    /\ \A c \in Conn : sock[c] \in {"none", "backlog"} => agent[c] = "none"

ServerIInv == ServerInv /\ WaitInv /\ HeldInv /\ ClosingInv /\ ConnsInv

\* The agents in Run.
Running == {c \in Conn : agent[c] = "run"}

\* Every step of the server keeps the invariant.
LEMMA ServerStep == ServerIInv /\ [ServerNext]_serverVars => ServerIInv'
<1> SUFFICES ASSUME ServerIInv, [ServerNext]_serverVars
             PROVE  ServerIInv'
  OBVIOUS
<1> USE ServerAssumption
    DEF ServerIInv, ServerInv, ServerTypeOK, NoNilMapWrite, AgentsBounded, CloseIsComplete,
        WaitInv, HeldInv, ClosingInv, ConnsInv, AgentPc
<1>a. /\ Counted \in SUBSET Conn /\ Running \in SUBSET Conn /\ Running = {c \in Conn : agent[c] = "run"}
      /\ IsFiniteSet(conns) /\ Cardinality(conns) \in Nat /\ Cardinality(Conn) \in Nat
      /\ IsFiniteSet(Running) /\ Cardinality(Running) \in Nat
  BY FS_Subset, FS_CardinalityType DEF Counted, Running
<1>b. /\ UNCHANGED agent => UNCHANGED <<Counted, Running>>
      /\ Running' = {c \in Conn : agent'[c] = "run"}
  BY DEF Counted, Running
<1>1. ASSUME NEW c \in Conn, Dial(c) \/ Hangup(c) PROVE ServerIInv'
  <2>1. CASE Dial(c)
    BY <2>1, <1>a, <1>b DEF Dial
  <2>2. CASE Hangup(c)
    BY <2>2, <1>a, <1>b DEF Hangup
  <2> QED BY <1>1, <2>1, <2>2
<1>2. ASSUME NEW c \in Conn, RunReturns(c) PROVE ServerIInv'
  <2>1. Counted' = Counted
    BY <1>2 DEF RunReturns, AgentGo, Counted
  <2>2. Running' \in SUBSET Running
    BY <1>2 DEF RunReturns, AgentGo, Running
  <2>3. Cardinality(Running') <= Cardinality(Running) /\ Cardinality(Running') \in Nat
    BY <1>a, <2>2, FS_Subset, FS_CardinalityType
  <2>4. Cardinality(Running') <= MaxConnNum
    BY <1>a, <2>3
  <2> QED BY <1>2, <1>b, <2>1, <2>4 DEF RunReturns, AgentGo
<1>3. ASSUME NEW c \in Conn, AgentConnClose(c) \/ WriterCloses(c) PROVE ServerIInv'
  <2>1. Counted' = Counted /\ Running' = Running
    BY <1>3 DEF AgentConnClose, WriterCloses, AgentGo, Counted, Running
  <2> QED BY <1>3, <1>a, <1>b, <2>1 DEF AgentConnClose, WriterCloses, AgentGo
<1>4. ASSUME NEW c \in Conn, Delete(c) PROVE ServerIInv'
  <2>1. Counted' = Counted /\ Running' = Running
    BY <1>4 DEF Delete, AgentGo, Counted, Running
  <2>2. conns' \in SUBSET conns
    BY <1>4 DEF Delete
  <2>3. Cardinality(conns') <= Cardinality(conns) /\ Cardinality(conns') \in Nat
    BY <1>a, <2>2, FS_Subset, FS_CardinalityType
  <2>4. Cardinality(conns') <= MaxConnNum
    BY <1>a, <2>3
  <2> QED BY <1>4, <1>a, <1>b, <2>1, <2>4 DEF Delete, AgentGo
<1>5. ASSUME NEW c \in Conn, OnClose(c) PROVE ServerIInv'
  <2>1. c \in Counted /\ Counted' = Counted \ {c} /\ Running' = Running
    BY <1>5 DEF OnClose, AgentGo, Counted, Running
  <2>2. Cardinality(Counted') = wgConns - 1 /\ wgConns # 0
    BY <1>a, <2>1, CountDown
  <2> QED BY <1>5, <1>a, <1>b, <2>1, <2>2 DEF OnClose, AgentGo
<1>6. CASE Start \/ RunBegin \/ AcceptErr
  <2>1. CASE Start
    BY <2>1, <1>a, <1>b DEF Start
  <2>2. CASE RunBegin
    BY <2>2, <1>a, <1>b DEF RunBegin
  <2>3. CASE AcceptErr
    BY <2>3, <1>a, <1>b DEF AcceptErr
  <2> QED BY <1>6, <2>1, <2>2, <2>3
<1>7. ASSUME NEW c \in Conn, Accept(c) PROVE ServerIInv'
  <2>1. held' = {c} /\ Cardinality(held') = 1
    BY <1>7, FS_Singleton DEF Accept
  <2> QED BY <1>7, <1>b, <2>1 DEF Accept
<1>8. ASSUME NEW c \in Conn, Register(c) PROVE ServerIInv'
  <2>1. ~connsNil /\ held = {c} /\ c \notin conns
    <3>1. IsFiniteSet(held)
      BY FS_Subset
    <3>2. Cardinality(held) = 1
      BY <3>1, <1>8, FS_EmptySet, FS_CardinalityType DEF Register
    <3>3. held = {c}
      BY <3>1, <3>2, <1>8, FS_Singleton DEF Register
    <3> QED BY <1>8, <3>3 DEF Register
  <2>2. CASE Cardinality(conns) >= MaxConnNum
    <3>1. /\ sock' = [sock EXCEPT ![c] = "closed"] /\ held' = {} /\ runPc' = "accept"
          /\ UNCHANGED <<conns, nilWrite, lnOpen, wgLn, wgConns, connsNil, agent, closePc>>
      BY <1>8, <2>2, <1>a DEF Register
    <3> QED BY <1>8, <1>a, <1>b, <2>1, <3>1, FS_EmptySet DEF Register
  <2>3. CASE Cardinality(conns) < MaxConnNum
    <3>1. /\ conns' = conns \cup {c} /\ ~nilWrite' /\ runPc' = "serve"
          /\ UNCHANGED <<sock, held, lnOpen, wgLn, wgConns, connsNil, agent, closePc>>
      BY <1>8, <2>1, <2>3, <1>a DEF Register
    <3>2. Cardinality(conns') = Cardinality(conns) + 1
      BY <1>a, <2>1, <3>1, FS_AddElement
    <3>3. Cardinality(conns') <= MaxConnNum
      BY <1>a, <2>3, <3>2
    <3> QED BY <1>8, <1>a, <1>b, <2>1, <3>1, <3>3 DEF Register
  <2> QED BY <1>8, <2>2, <2>3 DEF Register
<1>9. ASSUME NEW c \in Conn, Serve(c) PROVE ServerIInv'
  <2>1. c \in Conn \ Counted /\ Counted' = Counted \cup {c}
    BY <1>9 DEF Serve, Counted
  <2>2. Cardinality(Counted') = wgConns + 1 /\ wgConns + 1 \in 0..Cardinality(Conn)
    BY <1>a, <2>1, CountUp
  <2>3. Running' \in SUBSET conns
    BY <1>9 DEF Serve, Running
  <2>4. Cardinality(Running') <= Cardinality(conns) /\ Cardinality(Running') \in Nat
    BY <1>a, <2>3, FS_Subset, FS_CardinalityType
  <2>5. Cardinality(Running') <= MaxConnNum
    BY <1>a, <2>4
  <2>6. held' = {} /\ Cardinality(held') = 0
    BY <1>9, FS_EmptySet DEF Serve
  <2>7. held = {c}
    <3>1. IsFiniteSet(held)
      BY FS_Subset
    <3>2. Cardinality(held) = 1
      BY <3>1, <1>9, FS_EmptySet, FS_CardinalityType DEF Serve
    <3> QED BY <3>1, <3>2, <1>9, FS_Singleton DEF Serve
  <2> QED BY <1>9, <1>a, <1>b, <2>1, <2>2, <2>5, <2>6, <2>7 DEF Serve
<1>10. CASE CloseListener \/ WaitLn
  <2>1. CASE CloseListener
    BY <2>1, <1>a, <1>b DEF CloseListener
  <2>2. CASE WaitLn
    BY <2>2, <1>a, <1>b DEF WaitLn
  <2> QED BY <1>10, <2>1, <2>2
<1>11. CASE CloseConns
  BY <1>11, <1>a, <1>b, FS_EmptySet DEF CloseConns
<1>12. CASE WaitConns
  <2>1. Counted = {}
    BY <1>12, <1>a, FS_EmptySet, FS_Subset DEF WaitConns
  <2>2. \A c \in Conn : agent[c] \in {"none", "done"}
    BY <2>1 DEF Counted
  <2> QED BY <1>12, <1>b, <2>2 DEF WaitConns
<1>13. CASE UNCHANGED serverVars
  BY <1>13, <1>a, <1>b DEF serverVars
<1> QED BY <1>1, <1>2, <1>3, <1>4, <1>5, <1>6, <1>7, <1>8, <1>9, <1>10, <1>11, <1>12, <1>13
        DEF ServerNext, RunStep, Cleanup, CloseStep

(***************************************************************************)
(* Whatever order run, the agents and Close take: run never writes to the  *)
(* map that Close dropped, no more agents than the limit are in Run, and   *)
(* when Close returns no agent is left and no connection will get one.     *)
(***************************************************************************)
THEOREM ServerSafe == ServerSpec => []ServerInv
<1>1. ServerInit => ServerIInv
  <2> SUFFICES ASSUME ServerInit PROVE ServerIInv
    OBVIOUS
  <2>1. /\ Cardinality(Counted) = 0 /\ Cardinality({c \in Conn : agent[c] = "run"}) = 0
    <3>1. Counted = {} /\ {c \in Conn : agent[c] = "run"} = {}
      BY DEF ServerInit, Counted
    <3> QED BY <3>1, FS_EmptySet
  <2>2. Cardinality({}) = 0 /\ Cardinality(Conn) \in Nat
    BY ServerAssumption, FS_EmptySet, FS_CardinalityType
  <2>3. ServerTypeOK
    <3>1. lnOpen \in BOOLEAN /\ connsNil \in BOOLEAN /\ nilWrite \in BOOLEAN
      BY DEF ServerInit
    <3>2. held \subseteq Conn /\ Cardinality(held) <= 1 /\ wgConns \in 0..Cardinality(Conn)
      BY <2>2 DEF ServerInit
    <3> QED BY <3>1, <3>2 DEF ServerInit, ServerTypeOK, AgentPc
  <2>4. NoNilMapWrite /\ AgentsBounded /\ CloseIsComplete
    BY <2>1, ServerAssumption DEF ServerInit, NoNilMapWrite, AgentsBounded, CloseIsComplete
  <2>5. WaitInv /\ HeldInv /\ ClosingInv /\ ConnsInv
    BY <2>1, <2>2, ServerAssumption DEF ServerInit, WaitInv, HeldInv, ClosingInv, ConnsInv
  <2> QED BY <2>3, <2>4, <2>5 DEF ServerIInv, ServerInv
<1>2. ServerIInv => ServerInv
  BY DEF ServerIInv
<1> QED BY <1>1, <1>2, ServerStep, PTL DEF ServerSpec

-----------------------------------------------------------------------------
(***************************************************************************)
(* The client.                                                             *)
(***************************************************************************)

\* The goroutines of connect counted in wg.
Alive == {g \in Worker : connectPc[g] # "none"}

\* The owner's state decides the map and the flag: the map exists from Start to
\* Close, and a goroutine that finds the flag unset runs while it exists.
OwnerInv ==
    /\ clientConnsNil <=> user # "running"
    /\ user = "running" => ~clientCloseFlag
    /\ user = "waiting" => clientCloseFlag

ClientIInv == ClientInv /\ OwnerInv

\* Every step of the client keeps the invariant.
LEMMA ClientSteps == ClientIInv /\ [ClientNext]_clientVars => ClientIInv'
<1> SUFFICES ASSUME ClientIInv, [ClientNext]_clientVars
             PROVE  ClientIInv'
  OBVIOUS
<1> USE ClientAssumption
    DEF ClientIInv, ClientInv, ClientTypeOK, NeverFatal, RunningIsTracked, StoppedIsQuiet,
        OwnerInv, userVars
<1>a. /\ Alive \in SUBSET Worker /\ wg = Cardinality(Alive)
      /\ IsFiniteSet(Alive) /\ wg \in Nat /\ Cardinality(Worker) \in Nat
      /\ Alive' = {g \in Worker : connectPc'[g] # "none"}
  BY FS_Subset, FS_CardinalityType DEF Alive
\* A goroutine moves within connect, or leaves it.
<1>moves. ASSUME NEW g \in Worker, NEW l \in {"dial", "lock", "run", "close", "delete", "onclose", "sleep"},
                 connectPc[g] # "none", connectPc' = [connectPc EXCEPT ![g] = l]
          PROVE  Cardinality({h \in Worker : connectPc'[h] # "none"}) = wg
  <2>1. Alive' = Alive
    BY <1>moves DEF Alive
  <2> QED BY <1>a, <2>1
<1>ends. ASSUME NEW g \in Worker, connectPc[g] # "none", connectPc' = [connectPc EXCEPT ![g] = "none"]
         PROVE  Cardinality({h \in Worker : connectPc'[h] # "none"}) = wg - 1
  <2>1. Alive' = Alive \ {g} /\ g \in Alive
    BY <1>ends DEF Alive
  <2> QED BY <1>a, <2>1, CountDown
<1>1. CASE ClientStart
  <2>1. \A g \in Worker : connectPc[g] = "none"
    BY <1>1 DEF ClientStart
  <2>2. wg = 0
    <3>1. Alive = {}
      BY <2>1 DEF Alive
    <3> QED BY <1>a, <3>1, FS_EmptySet
  <2>3. wg' = Cardinality({g \in Worker : connectPc'[g] # "none"})
    <3>1. {g \in Worker : connectPc'[g] # "none"} = Worker
      BY <1>1 DEF ClientStart
    <3>2. wg' = Cardinality(Worker)
      BY <1>1, <1>a, <2>2 DEF ClientStart
    <3> QED BY <3>1, <3>2
  <2>4. AutoReconnect' \in BOOLEAN /\ fatal' = FALSE
    BY <1>1 DEF ClientStart
  <2>5. clientConnsNil' = FALSE /\ clientCloseFlag' = FALSE /\ user' = "running"
    BY <1>1 DEF ClientStart
  <2>6. ClientTypeOK' /\ NeverFatal'
    <3>1. clientConnsNil' \in BOOLEAN /\ clientCloseFlag' \in BOOLEAN /\ fatal' \in BOOLEAN /\ ~fatal'
      BY <2>4, <2>5
    <3>2. starts' \in 0..MaxStarts
      BY <1>1 DEF ClientStart
    <3> QED BY <1>1, <2>3, <2>4, <3>1, <3>2 DEF ClientStart
  <2>7. RunningIsTracked' /\ StoppedIsQuiet'
    BY <1>1 DEF ClientStart
  <2>8. OwnerInv'
    BY <2>5
  <2> QED BY <2>6, <2>7, <2>8
<1>2. ASSUME NEW g \in Worker, DialOk(g) PROVE ClientIInv'
  BY <1>2, <1>moves DEF DialOk, Go
<1>3. ASSUME NEW g \in Worker, DialErr(g) PROVE ClientIInv'
  BY <1>3, <1>ends DEF DialErr, Go
<1>4. ASSUME NEW g \in Worker, Insert(g) PROVE ClientIInv'
  <2>1. CASE clientCloseFlag
    <3>1. /\ connectPc[g] = "lock" /\ connectPc' = [connectPc EXCEPT ![g] = "none"] /\ wg' = wg - 1
          /\ clientSock' = [clientSock EXCEPT ![g] = "closed"]
          /\ UNCHANGED <<clientConns, fatal, clientConnsNil, clientCloseFlag, userVars>>
      BY <1>4, <2>1 DEF Insert, Go
    <3>2. wg' = Cardinality({h \in Worker : connectPc'[h] # "none"})
      BY <3>1, <1>ends
    <3> QED BY <3>1, <3>2
  <2>2. CASE ~clientCloseFlag
    <3>1. user = "running" /\ ~clientConnsNil
      BY <1>4, <2>2 DEF Insert, Go
    <3> QED BY <1>4, <2>2, <3>1, <1>moves DEF Insert, Go
  <2> QED BY <2>1, <2>2
<1>5. ASSUME NEW g \in Worker, ClientRunReturns(g) \/ ClientConnClose(g) PROVE ClientIInv'
  BY <1>5, <1>moves DEF ClientRunReturns, ClientConnClose, Go
<1>6. ASSUME NEW g \in Worker, ClientDelete(g) PROVE ClientIInv'
  BY <1>6, <1>moves DEF ClientDelete, Go
<1>7. ASSUME NEW g \in Worker, ClientOnClose(g) PROVE ClientIInv'
  <2>1. CASE AutoReconnect
    BY <1>7, <2>1, <1>moves DEF ClientOnClose, Go
  <2>2. CASE ~AutoReconnect
    BY <1>7, <2>2, <1>ends DEF ClientOnClose, Go
  <2> QED BY <2>1, <2>2
<1>8. ASSUME NEW g \in Worker, Reconnect(g) PROVE ClientIInv'
  BY <1>8, <1>moves DEF Reconnect, Go
<1>9. ASSUME NEW g \in Worker, ServerHangup(g) PROVE ClientIInv'
  BY <1>9, <1>a DEF ServerHangup, Alive
<1>10. CASE ClientClose
  BY <1>10, <1>a DEF ClientClose, Alive
<1>11. CASE ClientWait
  <2>1. Alive = {}
    BY <1>11, <1>a, FS_EmptySet DEF ClientWait
  <2>2. \A g \in Worker : connectPc[g] = "none"
    BY <2>1 DEF Alive
  <2> QED BY <1>11, <1>a, <2>2 DEF ClientWait, Alive
<1>12. CASE UNCHANGED clientVars
  BY <1>12, <1>a DEF clientVars, Alive
<1> QED BY <1>1, <1>2, <1>3, <1>4, <1>5, <1>6, <1>7, <1>8, <1>9, <1>10, <1>11, <1>12
        DEF ClientNext, Connect

(***************************************************************************)
(* However dialling, running and cleaning up interleave with Close and a   *)
(* later Start: no goroutine writes to the map that Close dropped, Start   *)
(* finds it dropped, Close can reach every connection in use, and when it  *)
(* returns no goroutine of connect is left.                                *)
(***************************************************************************)
THEOREM ClientSafe == ClientSpec => []ClientInv
<1>1. ClientInit => ClientIInv
  <2> SUFFICES ASSUME ClientInit PROVE ClientIInv
    OBVIOUS
  <2>1. wg = Cardinality({g \in Worker : connectPc[g] # "none"})
    <3>1. {g \in Worker : connectPc[g] # "none"} = {}
      BY DEF ClientInit
    <3> QED BY <3>1, FS_EmptySet DEF ClientInit
  <2>2. ClientTypeOK
    <3>1. /\ clientConnsNil \in BOOLEAN /\ clientCloseFlag \in BOOLEAN
          /\ AutoReconnect \in BOOLEAN /\ fatal \in BOOLEAN
      BY DEF ClientInit
    <3> QED BY <2>1, <3>1, ClientAssumption DEF ClientInit, ClientTypeOK
  <2>3. NeverFatal /\ RunningIsTracked /\ StoppedIsQuiet /\ OwnerInv
    BY DEF ClientInit, NeverFatal, RunningIsTracked, StoppedIsQuiet, OwnerInv
  <2> QED BY <2>2, <2>3 DEF ClientIInv, ClientInv
<1>2. ClientIInv => ClientInv
  BY DEF ClientIInv
<1> QED BY <1>1, <1>2, ClientSteps, PTL DEF ClientSpec

-----------------------------------------------------------------------------
(***************************************************************************)
(* A node and the cluster's configuration.  The tables stand for the nodes *)
(* of the list that the loop of InitCfg has passed: who they are, which    *)
(* services are configured here, and for each service the last of them     *)
(* that lists it.                                                          *)
(***************************************************************************)
\* A service has no route while no node of L below k lists it, and else a route
\* to one that does.
Routed(m, L, k, s) ==
    \/ m[s] = <<>> /\ \A i \in 1..(k - 1) : ~Listed(L[i].ServiceList, s)
    \/ \E i \in 1..(k - 1) : Listed(L[i].ServiceList, s) /\ m[s] = <<L[i].NodeId>>

\* The names that a node of this process lists are in its table.
Configured(S, L, k) ==
    \A i \in 1..(k - 1) : L[i].NodeId = CurrentNodeId =>
        \A s \in ServiceName : Listed(L[i].ServiceList, s) => s \in S

NodesBelow(L, k) == {L[i].NodeId : i \in 1..(k - 1)}

LoadInv ==
    phase \in {"load", "connect", "ready"} =>
        /\ localSubnetName \in SubNet /\ next \in 1..(Len(NodeList) + 1)
        /\ localSubNetMapNode = NodesBelow(NodeList, next)
        /\ Configured(localNodeMapService, NodeList, next)
        /\ \A s \in ServiceName : Routed(localSubNetMapService, NodeList, next, s)

FreshInv ==
    phase \in {"read", "analyse"} =>
        /\ next = 1 /\ localSubNetMapNode = {} /\ localNodeMapService = {}
        /\ \A s \in ServiceName : localSubNetMapService[s] = <<>>

ClientsInv ==
    /\ phase \notin {"connect", "ready"} => DOMAIN mapRpc = {}
    /\ phase \in {"connect", "ready"} =>
           DOMAIN mapRpc \subseteq localSubNetMapNode /\ next = Len(NodeList) + 1
    /\ phase = "ready" => localSubNetMapNode \subseteq DOMAIN mapRpc
    /\ \A n \in DOMAIN mapRpc : mapRpc[n] = "localhost" <=> n = CurrentNodeId

ClusterIInv == ClusterTypeOK /\ LoadInv /\ FreshInv /\ ClientsInv

\* A list of bounded length is a list.
LEMMA BoundedIsSeq ==
    ASSUME NEW S, NEW n \in Nat
    PROVE  BoundedSeq(S, n) \subseteq Seq(S)
<1> SUFFICES ASSUME NEW s \in BoundedSeq(S, n) PROVE s \in Seq(S)
  OBVIOUS
<1>1. PICK m \in 0..n : s \in [1..m -> S]
  BY DEF BoundedSeq, SeqOf
<1>2. m \in Nat
  BY <1>1
<1>3. s = [i \in 1..m |-> s[i]] /\ \A i \in 1..m : s[i] \in S
  BY <1>1
<1> QED BY <1>2, <1>3

\* The files are lists of nodes.
LEMMA FilesType == \A f \in Files : f \in [SubNet -> Seq(NodeInfo)]
<1> SUFFICES ASSUME NEW f \in Files PROVE f \in [SubNet -> Seq(NodeInfo)]
  OBVIOUS
<1>1. f \in [SubNet -> UNION {BoundedSeq(NodeInfo, MaxNodes[sn]) : sn \in SubNet}]
  BY DEF Files
<1>2. ASSUME NEW sn \in SubNet PROVE BoundedSeq(NodeInfo, MaxNodes[sn]) \subseteq Seq(NodeInfo)
  <2>1. MaxNodes[sn] \in Nat
    BY ClusterAssumption
  <2> QED BY <2>1, BoundedIsSeq
<1>3. UNION {BoundedSeq(NodeInfo, MaxNodes[sn]) : sn \in SubNet} \subseteq Seq(NodeInfo)
  BY <1>2
<1> QED BY <1>1, <1>3

\* A node of a list, and its entries.
LEMMA NodeType ==
    ASSUME NEW node \in NodeInfo
    PROVE  /\ node.NodeId \in NodeId
           /\ \A s : Listed(node.ServiceList, s) =>
                  s \in {e.name : e \in ToSet(node.ServiceList)}
           /\ {e.name : e \in ToSet(node.ServiceList)} \subseteq ServiceName
<1>1. node.NodeId \in NodeId /\ node.ServiceList \in BoundedSeq(ServiceEntry, MaxServices)
  BY DEF NodeInfo
<1>2. node.ServiceList \in Seq(ServiceEntry)
  BY <1>1, ClusterAssumption, BoundedIsSeq
<1>3. ToSet(node.ServiceList) \subseteq ServiceEntry
  BY <1>2 DEF ToSet
<1>4. \A e \in ServiceEntry : e.name \in ServiceName
  BY DEF ServiceEntry
<1>5. \A s : Listed(node.ServiceList, s) => s \in {e.name : e \in ToSet(node.ServiceList)}
  BY DEF Listed
<1> QED BY <1>1, <1>3, <1>4, <1>5

\* The program starts with empty tables.
LEMMA ClusterInitInv == ClusterInit => ClusterIInv
<1> SUFFICES ASSUME ClusterInit PROVE ClusterIInv
  OBVIOUS
<1>1. ClusterTypeOK
  <2>1. file \in [SubNet -> Seq(NodeInfo)] /\ localSubNetMapService \in [ServiceName -> Seq(NodeId)]
    BY DEF ClusterInit
  <2>2. DOMAIN mapRpc = {}
    BY DEF ClusterInit
  <2>3. err \in BOOLEAN /\ next \in Nat /\ phase = "read" /\ localSubnetName = NoSubNet
    BY DEF ClusterInit
  <2>4. /\ mapSubNetInfo = {} /\ todo = {} /\ localSubNetMapNode = {}
        /\ localNodeMapService = {}
    BY DEF ClusterInit
  <2> QED BY <2>1, <2>2, <2>3, <2>4 DEF ClusterTypeOK
<1>2. LoadInv /\ FreshInv /\ ClientsInv
  BY DEF ClusterInit, LoadInv, FreshInv, ClientsInv
<1> QED BY <1>1, <1>2 DEF ClusterIInv

\* However often a service was listed before, one node is on its list.
LEMMA LastOnly ==
    ASSUME NEW l, NEW n
    PROVE  AddService(l, n) = <<n>>
<1>1. AddService(l, n) = Append(<<>>, n)
  BY DEF AddService
<1> QED BY <1>1

\* What the loop of InitCfg adds to the tables for one node of the list.
LEMMA LoadStep ==
    ASSUME ClusterIInv, LoadNode
    PROVE  ClusterIInv'
<1> DEFINE L == NodeList
           node == NodeList[next]
           m == localSubNetMapService
<1>1. /\ ClusterTypeOK /\ LoadInv /\ FreshInv /\ ClientsInv
      /\ phase = "load" /\ next <= Len(NodeList) /\ next' = next + 1
      /\ localSubNetMapNode' = localSubNetMapNode \cup {node.NodeId}
      /\ localNodeMapService' = IF node.NodeId = CurrentNodeId
                                THEN localNodeMapService
                                     \cup {e.name : e \in ToSet(node.ServiceList)}
                                ELSE localNodeMapService
      /\ localSubNetMapService' = [s \in ServiceName |->
                                      IF Listed(node.ServiceList, s)
                                      THEN AddService(m[s], node.NodeId)
                                      ELSE m[s]]
      /\ UNCHANGED <<file, phase, err, mapSubNetInfo, todo, localSubnetName, mapRpc>>
  BY DEF LoadNode, ClusterIInv
<1>2. /\ localSubnetName \in SubNet /\ next \in 1..(Len(L) + 1)
      /\ localSubNetMapNode = NodesBelow(L, next)
      /\ Configured(localNodeMapService, L, next)
      /\ \A s \in ServiceName : Routed(m, L, next, s)
  BY <1>1 DEF LoadInv
<1>3. L \in Seq(NodeInfo) /\ NodeList' = NodeList
  BY <1>1, <1>2 DEF NodeList, ClusterTypeOK
<1>4. next \in 1..Len(L) /\ Len(L) \in Nat /\ node \in NodeInfo /\ next' \in 1..(Len(L) + 1)
      /\ \A i : i \in 1..(next' - 1) <=> i \in 1..(next - 1) \/ i = next
  <2>1. Len(L) \in Nat
    BY <1>3
  <2>2. next \in 1..Len(L)
    BY <1>1, <1>2, <2>1
  <2>3. node \in NodeInfo
    BY <1>3, <2>2
  <2>4. next' \in 1..(Len(L) + 1) /\ \A i : i \in 1..(next' - 1) <=> i \in 1..(next - 1) \/ i = next
    BY <1>1, <2>1, <2>2
  <2> QED BY <2>1, <2>2, <2>3, <2>4
<1>5. /\ node.NodeId \in NodeId
      /\ \A s : Listed(node.ServiceList, s) => s \in {e.name : e \in ToSet(node.ServiceList)}
      /\ {e.name : e \in ToSet(node.ServiceList)} \subseteq ServiceName
  BY <1>4, NodeType
<1>6. ASSUME NEW s \in ServiceName, Listed(node.ServiceList, s) PROVE m'[s] = <<node.NodeId>>
  BY <1>1, <1>6, LastOnly
<1>7. ASSUME NEW s \in ServiceName, ~Listed(node.ServiceList, s) PROVE m'[s] = m[s]
  BY <1>1, <1>7
<1> HIDE DEF L, node, m
<1>8. ClusterTypeOK'
  <2>1. m' \in [ServiceName -> Seq(NodeId)]
    <3>1. ASSUME NEW s \in ServiceName PROVE m'[s] \in Seq(NodeId)
      <4>1. m[s] \in Seq(NodeId) /\ <<node.NodeId>> \in Seq(NodeId)
        BY <1>1, <1>5 DEF ClusterTypeOK, m
      <4> QED BY <1>6, <1>7, <4>1
    <3>2. m' = [s \in ServiceName |-> m'[s]]
      BY <1>1 DEF m
    <3> QED BY <3>1, <3>2
  <2>2. localNodeMapService' \subseteq ServiceName /\ localSubNetMapNode' \subseteq NodeId
    BY <1>1, <1>5 DEF ClusterTypeOK
  <2>3. next' \in Nat
    BY <1>4
  <2> QED BY <1>1, <2>1, <2>2, <2>3 DEF ClusterTypeOK, m
<1>9. LoadInv'
  <2>1. localSubNetMapNode' = NodesBelow(L, next')
    <3>1. NodesBelow(L, next') = NodesBelow(L, next) \cup {node.NodeId}
      BY <1>4 DEF NodesBelow, node, L
    <3> QED BY <1>1, <1>2, <3>1
  <2>2. Configured(localNodeMapService', L, next')
    <3> SUFFICES ASSUME NEW i \in 1..(next' - 1), L[i].NodeId = CurrentNodeId,
                        NEW s \in ServiceName, Listed(L[i].ServiceList, s)
                 PROVE  s \in localNodeMapService'
      BY DEF Configured
    <3>1. CASE i \in 1..(next - 1)
      BY <1>1, <1>2, <3>1 DEF Configured
    <3>2. CASE i = next
      BY <1>1, <1>5, <3>2 DEF node, L
    <3> QED BY <1>4, <3>1, <3>2
  <2>3. ASSUME NEW s \in ServiceName PROVE Routed(m', L, next', s)
    <3>1. CASE Listed(node.ServiceList, s)
      <4>1. m'[s] = <<L[next].NodeId>> /\ Listed(L[next].ServiceList, s)
        BY <1>6, <3>1 DEF node, L
      <4>2. next \in 1..(next' - 1)
        BY <1>4
      <4> QED BY <4>1, <4>2 DEF Routed
    <3>2. CASE ~Listed(node.ServiceList, s)
      <4>1. m'[s] = m[s] /\ ~Listed(L[next].ServiceList, s)
        BY <1>7, <3>2 DEF node, L
      <4>2. CASE m[s] = <<>> /\ \A i \in 1..(next - 1) : ~Listed(L[i].ServiceList, s)
        BY <1>4, <4>1, <4>2 DEF Routed
      <4>3. CASE \E i \in 1..(next - 1) : Listed(L[i].ServiceList, s) /\ m[s] = <<L[i].NodeId>>
        BY <1>4, <4>1, <4>3 DEF Routed
      <4> QED BY <1>2, <4>2, <4>3 DEF Routed
    <3> QED BY <3>1, <3>2
  <2> QED BY <1>1, <1>2, <1>3, <1>4, <2>1, <2>2, <2>3 DEF LoadInv, L, m
<1>10. FreshInv' /\ ClientsInv'
  BY <1>1 DEF FreshInv, ClientsInv
<1> QED BY <1>8, <1>9, <1>10 DEF ClusterIInv

\* Reading the files and finding the subnet of this process.
LEMMA ReadCfgStep ==
    ASSUME ClusterIInv, NEW F \in SUBSET Files,
           ReadAllSubNetConfig(F) \/ (\E sn \in SubNet : Analyse(sn)) \/ Analysed
    PROVE  ClusterIInv'
<1>1. ClusterTypeOK /\ FreshInv /\ ClientsInv
  BY DEF ClusterIInv
<1>2. CASE ReadAllSubNetConfig(F)
  <2>1. file' \in [SubNet -> Seq(NodeInfo)]
    BY <1>2, FilesType DEF ReadAllSubNetConfig
  <2>2. mapSubNetInfo' \subseteq SubNet /\ todo' \subseteq mapSubNetInfo' /\ err' \in BOOLEAN
    BY <1>2 DEF ReadAllSubNetConfig
  <2>3. ClusterTypeOK'
    BY <1>1, <1>2, <2>1, <2>2 DEF ReadAllSubNetConfig, ClusterTypeOK
  <2>4. LoadInv' /\ FreshInv' /\ ClientsInv'
    BY <1>1, <1>2 DEF ReadAllSubNetConfig, LoadInv, FreshInv, ClientsInv
  <2> QED BY <2>3, <2>4 DEF ClusterIInv
<1>3. CASE \E sn \in SubNet : Analyse(sn)
  <2>1. PICK sn \in SubNet : Analyse(sn)
    BY <1>3
  <2>2. localSubnetName' \in SubNet \cup {NoSubNet}
    BY <1>1, <2>1 DEF Analyse, ClusterTypeOK
  <2>3. ClusterTypeOK'
    BY <1>1, <2>1, <2>2 DEF Analyse, ClusterTypeOK
  <2>4. LoadInv' /\ FreshInv' /\ ClientsInv'
    BY <1>1, <2>1 DEF Analyse, LoadInv, FreshInv, ClientsInv
  <2> QED BY <2>3, <2>4 DEF ClusterIInv
<1>4. CASE Analysed
  <2>1. ClusterTypeOK'
    BY <1>1, <1>4 DEF Analysed, ClusterTypeOK
  <2>2. FreshInv' /\ ClientsInv'
    BY <1>1, <1>4 DEF Analysed, FreshInv, ClientsInv
  <2>3. LoadInv'
    <3>1. CASE localSubnetName \in mapSubNetInfo
      <4>1. localSubnetName \in SubNet /\ next = 1 /\ localSubNetMapNode = {}
        BY <1>1, <1>4, <3>1 DEF Analysed, ClusterTypeOK, FreshInv
      <4>2. NodeList \in Seq(NodeInfo) /\ NodeList' = NodeList
        BY <1>1, <1>4, <4>1 DEF NodeList, ClusterTypeOK, Analysed
      <4>3. Len(NodeList) \in Nat
        BY <4>2
      <4>4. next \in 1..(Len(NodeList) + 1) /\ \A i : i \notin 1..(next - 1)
        BY <4>1, <4>3
      <4>5. NodesBelow(NodeList, next) = {} /\ Configured(localNodeMapService, NodeList, next)
        BY <4>4 DEF NodesBelow, Configured
      <4>6. \A s \in ServiceName : Routed(localSubNetMapService, NodeList, next, s)
        BY <1>1, <1>4, <4>4 DEF Routed, FreshInv, Analysed
      <4> QED BY <1>4, <4>1, <4>2, <4>4, <4>5, <4>6 DEF LoadInv, Analysed
    <3>2. CASE localSubnetName \notin mapSubNetInfo
      BY <1>4, <3>2 DEF Analysed, LoadInv
    <3> QED BY <3>1, <3>2
  <2> QED BY <2>1, <2>2, <2>3 DEF ClusterIInv
<1> QED BY <1>2, <1>3, <1>4

\* The clients of Cluster.Init.
LEMMA ConnectStep ==
    ASSUME ClusterIInv, Loaded \/ \E n \in NodeId : ConnectNode(n)
    PROVE  ClusterIInv'
<1>1. ClusterTypeOK /\ LoadInv /\ FreshInv /\ ClientsInv
  BY DEF ClusterIInv
<1>2. CASE Loaded
  <2>1. ClusterTypeOK' /\ FreshInv'
    BY <1>1, <1>2 DEF Loaded, ClusterTypeOK, FreshInv
  <2>2. localSubnetName \in SubNet /\ next \in 1..(Len(NodeList) + 1) /\ NodeList' = NodeList
    BY <1>1, <1>2 DEF Loaded, LoadInv, NodeList
  <2>3. LoadInv'
    BY <1>1, <1>2, <2>2 DEF Loaded, LoadInv
  <2>4. next = Len(NodeList) + 1
    <3>1. NodeList \in Seq(NodeInfo)
      BY <1>1, <2>2 DEF NodeList, ClusterTypeOK
    <3>2. Len(NodeList) \in Nat /\ next > Len(NodeList)
      BY <1>2, <3>1 DEF Loaded
    <3> QED BY <2>2, <3>2
  <2>5. ClientsInv'
    BY <1>1, <1>2, <2>2, <2>4 DEF Loaded, ClientsInv
  <2> QED BY <2>1, <2>3, <2>5 DEF ClusterIInv
<1>3. ASSUME NEW n \in NodeId, ConnectNode(n) PROVE ClusterIInv'
  <2>1. /\ phase = "connect" /\ n \in localSubNetMapNode /\ phase' \in {"connect", "ready"}
        /\ mapRpc' = [k \in DOMAIN mapRpc \cup {n} |->
                         IF k # n THEN mapRpc[k]
                         ELSE IF n = CurrentNodeId THEN "localhost" ELSE "remote"]
        /\ phase' = "ready" => localSubNetMapNode \subseteq DOMAIN mapRpc'
        /\ UNCHANGED <<file, err, mapSubNetInfo, todo, localSubnetName, next,
                       localSubNetMapNode, localSubNetMapService, localNodeMapService>>
    BY <1>3 DEF ConnectNode
  <2>2. DOMAIN mapRpc' = DOMAIN mapRpc \cup {n} /\ NodeList' = NodeList
    BY <2>1 DEF NodeList
  <2>3. ASSUME NEW k \in DOMAIN mapRpc'
        PROVE  /\ mapRpc'[k] \in {"localhost", "remote"}
               /\ mapRpc'[k] = "localhost" <=> k = CurrentNodeId
    <3>1. CASE k = n
      BY <2>1, <2>2, <3>1
    <3>2. CASE k # n
      <4>1. mapRpc'[k] = mapRpc[k] /\ k \in DOMAIN mapRpc
        BY <2>1, <2>2, <3>2
      <4> QED BY <1>1, <4>1 DEF ClientsInv, ClusterTypeOK
    <3> QED BY <3>1, <3>2
  <2>4. ClusterTypeOK'
    BY <1>1, <2>1, <2>2, <2>3 DEF ClusterTypeOK
  <2>5. LoadInv' /\ FreshInv'
    BY <1>1, <2>1, <2>2 DEF LoadInv, FreshInv
  <2>6. ClientsInv'
    BY <1>1, <2>1, <2>2, <2>3 DEF ClientsInv
  <2> QED BY <2>4, <2>5, <2>6 DEF ClusterIInv
<1> QED BY <1>2, <1>3

\* Every step of Cluster.Init.
LEMMA ClusterStep ==
    ASSUME ClusterIInv, NEW F \in SUBSET Files, ClusterNext(F)
    PROVE  ClusterIInv'
BY ReadCfgStep, LoadStep, ConnectStep DEF ClusterNext

\* Only the tables matter.
LEMMA ClusterSame ==
    ASSUME ClusterIInv, UNCHANGED clusterVars
    PROVE  ClusterIInv'
<1>1. NodeList' = NodeList
  BY DEF clusterVars, NodeList
<1>2. ClusterTypeOK'
  BY DEF clusterVars, ClusterIInv, ClusterTypeOK
<1>3. LoadInv'
  BY <1>1 DEF clusterVars, ClusterIInv, LoadInv
<1>4. FreshInv' /\ ClientsInv'
  BY <1>1 DEF clusterVars, ClusterIInv, FreshInv, ClientsInv
<1> QED BY <1>2, <1>3, <1>4 DEF ClusterIInv

\* A list of one node, and its client.
LEMMA OneClient ==
    ASSUME NEW s, NEW n, GetNodeIdByService(s) = <<n>>, n \in DOMAIN mapRpc
    PROVE  /\ GetRpcClient(s) = {1} /\ GetNodeIdByService(s)[1] = n
           /\ \A k : OnlyClient(s, k) <=> k = n
<1>1. DOMAIN GetNodeIdByService(s) = {1} /\ GetNodeIdByService(s)[1] = n
  OBVIOUS
<1>2. GetRpcClient(s) = {1}
  BY <1>1 DEF GetRpcClient
<1> QED BY <1>1, <1>2 DEF OnlyClient

\* What the tables promise once Cluster.Init has returned.
LEMMA RoutesHold == ClusterIInv => RoutesInv
<1> SUFFICES ASSUME ClusterIInv PROVE RoutesInv
  OBVIOUS
<1>1. ClusterTypeOK /\ LoadInv /\ ClientsInv
  BY DEF ClusterIInv
<1>2. ASSUME phase = "ready", NEW s \in ServiceName
      PROVE  /\ \A i \in DOMAIN GetNodeIdByService(s) : Offers(GetNodeIdByService(s)[i], s)
             /\ (\E n \in NodeId : Offers(n, s)) => GetNodeIdByService(s) # <<>>
             /\ GetNodeIdByService(s) # <<>> => GetRpcClient(s) # {}
             /\ \A i \in GetRpcClient(s) :
                    mapRpc[GetNodeIdByService(s)[i]] = "localhost"
                        <=> GetNodeIdByService(s)[i] = CurrentNodeId
             /\ OnlyClient(s, CurrentNodeId) => IsConfigService(s)
  <2> DEFINE L == NodeList
             r == GetNodeIdByService(s)
  <2>1. /\ localSubNetMapNode = NodesBelow(L, next) /\ Configured(localNodeMapService, L, next)
        /\ Routed(localSubNetMapService, L, next, s) /\ localSubnetName \in SubNet
        /\ next = Len(L) + 1 /\ DOMAIN mapRpc = localSubNetMapNode
    BY <1>1, <1>2 DEF LoadInv, ClientsInv
  <2>2. L \in Seq(NodeInfo)
    BY <1>1, <2>1 DEF ClusterTypeOK, NodeList
  <2>3. Len(L) \in Nat /\ DOMAIN L = 1..Len(L)
    BY <2>2
  <2>4. 1..(next - 1) = DOMAIN L
    BY <2>1, <2>3
  <2>5. ASSUME NEW n 
        PROVE  Offers(n, s) <=>
                   \E i \in DOMAIN L : L[i].NodeId = n /\ Listed(L[i].ServiceList, s)
    BY DEF Offers, Listed, ToSet
  <2> HIDE DEF L
  <2>6. CASE r = <<>> /\ \A i \in 1..(next - 1) : ~Listed(L[i].ServiceList, s)
    <3>1. DOMAIN r = {}
      BY <2>6
    <3>2. ~\E n \in NodeId : Offers(n, s)
      BY <2>4, <2>5, <2>6
    <3>3. GetRpcClient(s) = {} /\ ~OnlyClient(s, CurrentNodeId)
      BY <3>1 DEF GetRpcClient, OnlyClient
    <3> QED BY <2>6, <3>1, <3>2, <3>3
  <2>7. ASSUME NEW i \in 1..(next - 1), Listed(L[i].ServiceList, s), r = <<L[i].NodeId>>
        PROVE  /\ \A k \in DOMAIN r : Offers(r[k], s)
               /\ r # <<>> /\ GetRpcClient(s) # {}
               /\ \A k \in GetRpcClient(s) : mapRpc[r[k]] = "localhost" <=> r[k] = CurrentNodeId
               /\ OnlyClient(s, CurrentNodeId) => IsConfigService(s)
    <3> DEFINE n == L[i].NodeId
    <3>1. n \in DOMAIN mapRpc
      BY <2>1, <2>7 DEF NodesBelow
    <3>2. DOMAIN r = {1} /\ r[1] = n
      BY <2>7
    <3>3. Offers(n, s)
      BY <2>4, <2>5, <2>7
    <3>4. GetRpcClient(s) = {1} /\ (OnlyClient(s, CurrentNodeId) <=> CurrentNodeId = n)
      BY <2>7, <3>1, OneClient
    <3>5. mapRpc[n] = "localhost" <=> n = CurrentNodeId
      BY <1>1, <3>1 DEF ClientsInv
    <3>6. n = CurrentNodeId => IsConfigService(s)
      BY <1>2, <2>1, <2>7 DEF Configured, IsConfigService
    <3> HIDE DEF n, r
    <3> QED BY <3>2, <3>3, <3>4, <3>5, <3>6
  <2>8. Routed(localSubNetMapService, L, next, s)
    BY <2>1
  <2> QED BY <2>6, <2>7, <2>8 DEF Routed, GetNodeIdByService
<1> QED BY <1>1, <1>2 DEF RoutesInv, RoutesToOffers, RouteHasClient, LocalRouteIsInstalled

-----------------------------------------------------------------------------
(***************************************************************************)
(* The services of a node.  Init has passed the first initNext - 1 of the  *)
(* objects: each has run its OnInit and, if it is configured here, its     *)
(* name is installed.                                                      *)
(***************************************************************************)
BeforeInv ==
    nodePhase \in {"setup", "cluster"} =>
        ranOnInit = <<>> /\ initNext = 1 /\ atInit = 0 /\ DOMAIN mapServiceName = {}

PassedInv ==
    /\ Len(preSetupService) <= MaxSetups /\ atInit <= Len(preSetupService)
    /\ initNext <= atInit + 1 /\ Len(ranOnInit) = initNext - 1
    /\ \A i \in 1..(initNext - 1) :
           /\ ranOnInit[i] = preSetupService[i]
           /\ IsConfigService(NameOf[ranOnInit[i]]) =>
                  NameOf[ranOnInit[i]] \in DOMAIN mapServiceName

AfterInv ==
    /\ nodePhase \notin {"setup", "cluster"} => phase = "ready"
    /\ nodePhase \in {"inited", "started"} => initNext = atInit + 1
    /\ nodePhase = "started" => started = {mapServiceName[s] : s \in DOMAIN mapServiceName}

SetupIInv == SetupTypeOK /\ BeforeInv /\ PassedInv /\ AfterInv /\ InstalledInOrder

NodeIInv == ClusterIInv /\ SetupIInv

\* At the start nothing is set up.
LEMMA NodeInitInv == NodeInit => NodeIInv
<1> SUFFICES ASSUME NodeInit PROVE NodeIInv
  OBVIOUS
<1>1. SetupInit /\ ClusterIInv
  BY ClusterInitInv DEF NodeInit
<1>2. DOMAIN mapServiceName = {} /\ Len(ranOnInit) = 0 /\ Len(preSetupService) = 0
  BY <1>1 DEF SetupInit
<1>3. MaxSetups \in Nat
  BY SetupAssumption
<1>4. preSetupService \in Seq(Obj) /\ ranOnInit \in Seq(Obj)
  BY <1>1 DEF SetupInit
<1>5. SetupTypeOK
  BY <1>1, <1>2, <1>3, <1>4 DEF SetupInit, SetupTypeOK
<1>6. BeforeInv /\ AfterInv
  BY <1>1, <1>2 DEF SetupInit, BeforeInv, AfterInv
<1>7. PassedInv
  BY <1>1, <1>2, <1>3 DEF SetupInit, PassedInv
<1>8. InstalledInOrder
  BY <1>2 DEF InstalledInOrder
<1> QED BY <1>1, <1>5, <1>6, <1>7, <1>8 DEF NodeIInv, SetupIInv

\* node.Setup: one more object, which Init does not see if it comes later.
LEMMA SetupStep ==
    ASSUME NodeIInv, NEW o \in Obj, NodeSetup(o)
    PROVE  NodeIInv'
<1>1. /\ SetupTypeOK /\ BeforeInv /\ PassedInv /\ AfterInv /\ InstalledInOrder
      /\ Len(preSetupService) < MaxSetups /\ preSetupService' = Append(preSetupService, o)
      /\ UNCHANGED <<clusterVars, nodePhase, atInit, initNext, ranOnInit, mapServiceName, started>>
  BY DEF NodeSetup, NodeIInv, SetupIInv
<1>2. MaxSetups \in Nat /\ preSetupService \in Seq(Obj) /\ Len(preSetupService) \in Nat
      /\ atInit \in Nat /\ initNext \in Nat
  BY <1>1, SetupAssumption DEF SetupTypeOK
<1>3. /\ preSetupService' \in Seq(Obj) /\ Len(preSetupService') = Len(preSetupService) + 1
      /\ \A i \in 1..Len(preSetupService) : preSetupService'[i] = preSetupService[i]
  BY <1>1, <1>2
<1>4. ClusterIInv' /\ (\A s : IsConfigService(s)' <=> IsConfigService(s)) /\ phase' = phase
  BY <1>1, ClusterSame DEF NodeIInv, clusterVars, IsConfigService
<1>5. SetupTypeOK'
  BY <1>1, <1>3 DEF SetupTypeOK
<1>6. BeforeInv' /\ AfterInv'
  BY <1>1, <1>4 DEF BeforeInv, AfterInv
<1>7. PassedInv'
  <2>1. ASSUME NEW i \in 1..(initNext - 1) PROVE preSetupService'[i] = preSetupService[i]
    <3>1. i \in 1..Len(preSetupService)
      BY <1>1, <1>2 DEF PassedInv
    <3> QED BY <1>3, <3>1
  <2>2. Len(preSetupService') <= MaxSetups /\ atInit <= Len(preSetupService')
    BY <1>1, <1>2, <1>3 DEF PassedInv
  <2> QED BY <1>1, <1>4, <2>1, <2>2 DEF PassedInv
<1>8. InstalledInOrder'
  BY <1>1, <1>4 DEF InstalledInOrder
<1> QED BY <1>4, <1>5, <1>6, <1>7, <1>8 DEF NodeIInv, SetupIInv

\* node.Init up to the walk over the objects: no service is installed yet.
LEMMA InitClusterStep ==
    ASSUME NodeIInv, InitCluster
    PROVE  NodeIInv'
<1>1. /\ SetupTypeOK /\ BeforeInv /\ PassedInv /\ AfterInv /\ InstalledInOrder
      /\ nodePhase \in {"setup", "cluster"} /\ nodePhase' = "cluster"
      /\ ClusterNext(IF preSetupService = <<>> THEN Files ELSE SetupFiles)
      /\ UNCHANGED <<preSetupService, atInit, initNext, ranOnInit, mapServiceName, started>>
  BY DEF InitCluster, NodeIInv, SetupIInv
<1>2. ClusterIInv'
  <2> DEFINE F == IF preSetupService = <<>> THEN Files ELSE SetupFiles
  <2>1. F \in SUBSET Files
    BY SetupAssumption
  <2> HIDE DEF F
  <2>2. ClusterNext(F)
    BY <1>1 DEF F
  <2> QED BY <2>1, <2>2, ClusterStep DEF NodeIInv
<1>3. initNext = 1 /\ atInit = 0 /\ DOMAIN mapServiceName = {}
  BY <1>1 DEF BeforeInv
<1>4. SetupTypeOK' /\ BeforeInv' /\ AfterInv'
  BY <1>1 DEF SetupTypeOK, BeforeInv, AfterInv
<1>5. PassedInv' /\ InstalledInOrder'
  BY <1>1, <1>3 DEF PassedInv, InstalledInOrder
<1> QED BY <1>2, <1>4, <1>5 DEF NodeIInv, SetupIInv

\* The steps that leave the objects and the installed services alone.
LEMMA PhaseStep ==
    ASSUME NodeIInv, InitServices \/ InitReturns \/ NodeStart
    PROVE  NodeIInv'
<1>1. /\ SetupTypeOK /\ BeforeInv /\ PassedInv /\ AfterInv /\ InstalledInOrder
      /\ UNCHANGED <<clusterVars, preSetupService, initNext, ranOnInit, mapServiceName>>
  BY DEF InitServices, InitReturns, NodeStart, NodeIInv, SetupIInv
<1>2. ClusterIInv' /\ (\A s : IsConfigService(s)' <=> IsConfigService(s)) /\ phase' = phase
  BY <1>1, ClusterSame DEF NodeIInv, clusterVars, IsConfigService
<1>3. MaxSetups \in Nat /\ Len(preSetupService) \in Nat /\ Len(preSetupService) <= MaxSetups
      /\ atInit \in Nat /\ initNext \in Nat /\ initNext <= atInit + 1
  BY <1>1, SetupAssumption DEF SetupTypeOK, PassedInv
<1>4. InstalledInOrder'
  BY <1>1, <1>2 DEF InstalledInOrder
<1>5. CASE InitServices
  <2>1. /\ nodePhase = "cluster" /\ phase = "ready" /\ nodePhase' = "services"
        /\ atInit' = Len(preSetupService) /\ started' = started
        /\ initNext = 1 /\ DOMAIN mapServiceName = {}
    BY <1>1, <1>5 DEF InitServices, BeforeInv
  <2>2. SetupTypeOK'
    BY <1>1, <1>3, <2>1 DEF SetupTypeOK
  <2>3. BeforeInv' /\ AfterInv'
    BY <1>2, <2>1 DEF BeforeInv, AfterInv
  <2>4. PassedInv'
    BY <1>1, <1>2, <1>3, <2>1 DEF PassedInv
  <2> QED BY <1>2, <1>4, <2>2, <2>3, <2>4 DEF NodeIInv, SetupIInv
<1>6. CASE InitReturns \/ NodeStart
  <2>1. /\ nodePhase \in {"services", "inited"} /\ nodePhase' \in {"inited", "started"}
        /\ atInit' = atInit
        /\ nodePhase = "services" => initNext > atInit /\ nodePhase' = "inited"
        /\ nodePhase' = "started" => started' = {mapServiceName[s] : s \in DOMAIN mapServiceName}
        /\ nodePhase' = "inited" => started' = started
    BY <1>6 DEF InitReturns, NodeStart
  <2>2. started' \subseteq Obj
    BY <1>1, <2>1 DEF SetupTypeOK
  <2>3. SetupTypeOK'
    BY <1>1, <2>1, <2>2 DEF SetupTypeOK
  <2>4. initNext = atInit + 1
    BY <1>1, <1>3, <2>1 DEF AfterInv
  <2>5. AfterInv'
    BY <1>1, <1>2, <2>1, <2>4 DEF AfterInv
  <2>6. BeforeInv' /\ PassedInv'
    BY <1>1, <1>2, <2>1 DEF BeforeInv, PassedInv
  <2> QED BY <1>2, <1>4, <2>3, <2>5, <2>6 DEF NodeIInv, SetupIInv
<1> QED BY <1>5, <1>6

\* One object of the walk: its OnInit runs, and it is installed if the node is
\* configured for its name and no object before it had that name.
LEMMA InitServiceStep ==
    ASSUME NodeIInv, InitService
    PROVE  NodeIInv'
<1> DEFINE o == preSetupService[initNext]
           n == NameOf[o]
<1>1. /\ SetupTypeOK /\ BeforeInv /\ PassedInv /\ AfterInv /\ InstalledInOrder
      /\ nodePhase = "services" /\ initNext <= atInit /\ initNext' = initNext + 1
      /\ ranOnInit' = Append(ranOnInit, o)
      /\ IF IsConfigService(n) THEN Install(o) ELSE UNCHANGED mapServiceName
      /\ UNCHANGED <<clusterVars, nodePhase, preSetupService, atInit, started>>
  BY DEF InitService, NodeIInv, SetupIInv
<1>2. ClusterIInv' /\ (\A s : IsConfigService(s)' <=> IsConfigService(s)) /\ phase' = phase
  BY <1>1, ClusterSame DEF NodeIInv, clusterVars, IsConfigService
<1>3. /\ MaxSetups \in Nat /\ atInit \in 0..MaxSetups /\ initNext \in 1..(MaxSetups + 1)
      /\ preSetupService \in Seq(Obj) /\ ranOnInit \in Seq(Obj)
      /\ Len(preSetupService) \in Nat /\ Len(preSetupService) <= MaxSetups
      /\ atInit <= Len(preSetupService) /\ Len(ranOnInit) = initNext - 1
  BY <1>1, SetupAssumption DEF SetupTypeOK, PassedInv
<1>4. o \in Obj /\ n \in ServiceName
  <2>1. initNext \in 1..Len(preSetupService)
    BY <1>1, <1>3
  <2>2. o \in Obj
    BY <1>3, <2>1
  <2> QED BY <2>2, SetupAssumption
<1>5. /\ ranOnInit' \in Seq(Obj) /\ Len(ranOnInit') = initNext /\ ranOnInit'[initNext] = o
      /\ \A i \in 1..(initNext - 1) : ranOnInit'[i] = ranOnInit[i]
  <2> HIDE DEF o
  <2> QED BY <1>1, <1>3, <1>4
<1> HIDE DEF n
<1>6. /\ DOMAIN mapServiceName \subseteq DOMAIN mapServiceName'
      /\ DOMAIN mapServiceName' \subseteq DOMAIN mapServiceName \cup {n}
      /\ \A s \in DOMAIN mapServiceName : mapServiceName'[s] = mapServiceName[s]
      /\ IsConfigService(n) => n \in DOMAIN mapServiceName'
      /\ n \in DOMAIN mapServiceName' \ DOMAIN mapServiceName =>
             IsConfigService(n) /\ mapServiceName'[n] = o
  <2>1. CASE IsConfigService(n) /\ n \notin DOMAIN mapServiceName
    <3>1. mapServiceName' = [s \in DOMAIN mapServiceName \cup {n} |->
                                IF s = n THEN o ELSE mapServiceName[s]]
      BY <1>1, <2>1 DEF Install, n
    <3> HIDE DEF o
    <3> QED BY <2>1, <3>1
  <2>2. CASE ~(IsConfigService(n) /\ n \notin DOMAIN mapServiceName)
    <3>1. mapServiceName' = mapServiceName
      BY <1>1, <2>2 DEF Install, n
    <3> QED BY <2>2, <3>1
  <2> QED BY <2>1, <2>2
<1> HIDE DEF o
<1>7. SetupTypeOK'
  <2>1. /\ DOMAIN mapServiceName' \subseteq ServiceName
        /\ \A s \in DOMAIN mapServiceName' : mapServiceName'[s] \in Obj
    BY <1>1, <1>4, <1>6 DEF SetupTypeOK
  <2>2. initNext' \in 1..(MaxSetups + 1)
    BY <1>1, <1>3
  <2> QED BY <1>1, <1>5, <2>1, <2>2 DEF SetupTypeOK
<1>8. BeforeInv' /\ AfterInv'
  BY <1>1, <1>2 DEF BeforeInv, AfterInv
<1>9. PassedInv'
  <2>1. initNext' <= atInit + 1 /\ Len(ranOnInit') = initNext' - 1
    BY <1>1, <1>3, <1>5
  <2>2. ASSUME NEW i \in 1..(initNext' - 1)
        PROVE  /\ ranOnInit'[i] = preSetupService[i]
               /\ IsConfigService(NameOf[ranOnInit'[i]]) =>
                      NameOf[ranOnInit'[i]] \in DOMAIN mapServiceName'
    <3>1. CASE i = initNext
      BY <1>5, <1>6, <3>1 DEF o, n
    <3>2. CASE i # initNext
      <4>1. i \in 1..(initNext - 1)
        BY <1>1, <1>3, <3>2
      <4>2. /\ ranOnInit[i] = preSetupService[i]
            /\ IsConfigService(NameOf[ranOnInit[i]]) =>
                   NameOf[ranOnInit[i]] \in DOMAIN mapServiceName
        BY <1>1, <4>1 DEF PassedInv
      <4> QED BY <1>5, <1>6, <4>1, <4>2
    <3> QED BY <3>1, <3>2
  <2> QED BY <1>1, <1>2, <1>3, <2>1, <2>2 DEF PassedInv
<1>10. InstalledInOrder'
  <2>1. ASSUME NEW s \in DOMAIN mapServiceName'
        PROVE  /\ IsConfigService(s)
               /\ \E i \in 1..Len(ranOnInit') :
                      /\ ranOnInit'[i] = mapServiceName'[s]
                      /\ \A j \in 1..i - 1 : NameOf[ranOnInit'[j]] # s
    <3>1. CASE s \in DOMAIN mapServiceName
      <4>1. /\ IsConfigService(s)
            /\ \E i \in 1..Len(ranOnInit) :
                   /\ ranOnInit[i] = mapServiceName[s]
                   /\ \A j \in 1..i - 1 : NameOf[ranOnInit[j]] # s
        BY <1>1, <3>1 DEF InstalledInOrder
      <4>2. PICK i \in 1..Len(ranOnInit) :
                   /\ ranOnInit[i] = mapServiceName[s]
                   /\ \A j \in 1..i - 1 : NameOf[ranOnInit[j]] # s
        BY <4>1
      <4>3. i \in 1..Len(ranOnInit') /\ i \in 1..(initNext - 1)
            /\ \A j \in 1..i - 1 : j \in 1..(initNext - 1)
        BY <1>3, <1>5
      <4>4. ranOnInit'[i] = mapServiceName'[s] /\ \A j \in 1..i - 1 : NameOf[ranOnInit'[j]] # s
        BY <1>5, <1>6, <3>1, <4>2, <4>3
      <4> QED BY <4>1, <4>3, <4>4
    <3>2. CASE s \notin DOMAIN mapServiceName
      <4>1. s = n /\ IsConfigService(n) /\ mapServiceName'[s] = o
        BY <1>6, <3>2
      <4>2. initNext \in 1..Len(ranOnInit')
        BY <1>3, <1>5
      <4>3. ASSUME NEW j \in 1..(initNext - 1) PROVE NameOf[ranOnInit'[j]] # s
        <5>1. IsConfigService(NameOf[ranOnInit[j]]) =>
                  NameOf[ranOnInit[j]] \in DOMAIN mapServiceName
          BY <1>1 DEF PassedInv
        <5> QED BY <1>5, <3>2, <4>1, <5>1 DEF IsConfigService
      <4>4. ranOnInit'[initNext] = mapServiceName'[s] /\ IsConfigService(s)
        BY <1>5, <4>1
      <4>5. \A j \in 1..initNext - 1 : NameOf[ranOnInit'[j]] # s
        BY <4>3
      <4> QED BY <4>2, <4>4, <4>5, Zenon
    <3> QED BY <3>1, <3>2
  <2> QED BY <1>2, <2>1 DEF InstalledInOrder
<1> QED BY <1>2, <1>7, <1>8, <1>9, <1>10 DEF NodeIInv, SetupIInv

\* What the services promise.
LEMMA NodeHolds == NodeIInv => NodeInv
<1> SUFFICES ASSUME NodeIInv PROVE NodeInv
  OBVIOUS
<1>1. /\ SetupTypeOK /\ PassedInv /\ AfterInv /\ InstalledInOrder /\ RoutesInv
  BY RoutesHold DEF NodeIInv, SetupIInv
<1>2. /\ preSetupService \in Seq(Obj) /\ ranOnInit \in Seq(Obj) /\ atInit \in Nat
      /\ initNext \in Nat /\ Len(preSetupService) \in Nat
  BY <1>1 DEF SetupTypeOK
<1>3. LocalRouteServed
  <2> SUFFICES ASSUME nodePhase = "started", NEW o \in InTime, OnlyClient(NameOf[o], CurrentNodeId)
               PROVE  FindRpcHandler(NameOf[o]) # {} /\ FindRpcHandler(NameOf[o]) \subseteq started
    BY DEF LocalRouteServed
  <2>1. PICK i \in 1..atInit : o = preSetupService[i]
    BY DEF InTime
  <2>2. initNext = atInit + 1 /\ phase = "ready"
        /\ started = {mapServiceName[s] : s \in DOMAIN mapServiceName}
    BY <1>1 DEF AfterInv
  <2>3. i \in 1..(initNext - 1) /\ i \in 1..Len(preSetupService)
    BY <1>1, <1>2, <2>2 DEF PassedInv
  <2>4. NameOf[o] \in ServiceName /\ ranOnInit[i] = o
    BY <1>1, <1>2, <2>1, <2>3, SetupAssumption DEF PassedInv
  <2>5. IsConfigService(NameOf[o])
    BY <1>1, <2>2, <2>4 DEF RoutesInv, LocalRouteIsInstalled
  <2>6. NameOf[o] \in DOMAIN mapServiceName
    BY <1>1, <2>3, <2>4, <2>5 DEF PassedInv
  <2>7. mapServiceName[NameOf[o]] \in Obj
    BY <1>1, <2>6 DEF SetupTypeOK
  <2> QED BY <2>2, <2>6, <2>7 DEF FindRpcHandler
<1>4. InitRunsForAll
  <2> SUFFICES ASSUME nodePhase \in {"inited", "started"}
               PROVE  ranOnInit = SubSeq(preSetupService, 1, atInit)
    BY DEF InitRunsForAll
  <2>1. initNext - 1 = atInit /\ Len(ranOnInit) = atInit
    BY <1>1, <1>2 DEF AfterInv, PassedInv
  <2>2. SubSeq(preSetupService, 1, atInit) = [i \in 1..atInit |-> preSetupService[i]]
    BY <1>2
  <2>3. \A i \in 1..atInit : ranOnInit[i] = preSetupService[i]
    BY <1>1, <2>1 DEF PassedInv
  <2>4. ranOnInit = [i \in 1..atInit |-> ranOnInit[i]]
    BY <1>2, <2>1
  <2> QED BY <2>2, <2>3, <2>4
<1> QED BY <1>1, <1>3, <1>4 DEF NodeInv

\* Whatever the files of the cluster and the objects of the program are, a node
\* that has started routes every service to a node that offers it and has a
\* client, serves what it routes to itself, and has installed the first object
\* of each configured name after its OnInit.
THEOREM NodeSafe == NodeSpec => []NodeInv
<1>1. ASSUME NodeIInv, [NodeNext]_nodeVars PROVE NodeIInv'
  <2>1. CASE UNCHANGED nodeVars
    <3>1. ClusterIInv' /\ (\A s : IsConfigService(s)' <=> IsConfigService(s)) /\ phase' = phase
      BY <1>1, <2>1, ClusterSame DEF NodeIInv, nodeVars, clusterVars, IsConfigService
    <3>2. SetupTypeOK' /\ BeforeInv' /\ AfterInv'
      BY <1>1, <2>1, <3>1
      DEF NodeIInv, SetupIInv, nodeVars, setupVars, SetupTypeOK, BeforeInv, AfterInv
    <3>3. PassedInv' /\ InstalledInOrder'
      BY <1>1, <2>1, <3>1
      DEF NodeIInv, SetupIInv, nodeVars, setupVars, PassedInv, InstalledInOrder
    <3> QED BY <3>1, <3>2, <3>3 DEF NodeIInv, SetupIInv
  <2>2. CASE NodeNext
    BY <1>1, <2>2, SetupStep, InitClusterStep, PhaseStep, InitServiceStep DEF NodeNext
  <2> QED BY <1>1, <2>1, <2>2
<1> QED BY <1>1, NodeInitInv, NodeHolds, PTL DEF NodeSpec

=============================================================================
