------------------------------- MODULE TCPConn -------------------------------
(***************************************************************************)
(* The write side of network.TCPConn (network/tcp_conn.go): goroutines     *)
(* call Write, Close and Destroy under the connection's mutex; a writer    *)
(* goroutine drains writeChan into the socket without that mutex.  A nil   *)
(* slice in writeChan is the sentinel of a graceful Close.                 *)
(*                                                                         *)
(* A step is what another goroutine can observe: the tests and assignments *)
(* of closeFlag happen under the mutex and are merged with their           *)
(* neighbours, while the test of len(writeChan), the send, the close of    *)
(* the socket and the close of the channel are steps of their own, because *)
(* the writer runs between them.                                           *)
(***************************************************************************)
EXTENDS Sequences, Naturals

CONSTANTS Thread,           \* goroutines that use the connection
          Msg,              \* frames handed to Write, each at most once
          Nil,              \* the nil slice
          PendingWriteNum,  \* cap(writeChan)
          Free              \* the value of an unlocked mutex

ASSUME NilAssumption == Nil \notin Msg
ASSUME CapAssumption == PendingWriteNum \in Nat \ {0}
ASSUME FreeAssumption == Free \notin Thread

VARIABLES
    writeChan,    \* buffered items of the channel
    chanClosed,   \* close(writeChan) has happened
    closeFlag,    \* TCPConn.closeFlag
    lock,         \* holder of the embedded sync.Mutex, or Free
    pc,           \* where each goroutine is
    arg,          \* the slice each goroutine passed to doWrite
    wpc,          \* where the writer goroutine is
    cur,          \* the slice the writer passes to conn.Write
    connOpen,     \* the socket is open on this side
    stalled,      \* the peer has stopped reading
    sent,         \* frames Write was called with (bounds the calls)
    accepted,     \* history: frames put in writeChan, in order
    wire,         \* history: frames conn.Write took, in order
    failed,       \* history: a conn.Write failed
    destroyed,    \* history: doDestroy closed the socket
    panicked      \* a send on, or a close of, a closed channel

vars == <<writeChan, chanClosed, closeFlag, lock, pc, arg, wpc, cur, connOpen,
          stalled, sent, accepted, wire, failed, destroyed, panicked>>

writerVars == <<wpc, cur, wire, failed>>
history == <<accepted, wire, failed, destroyed>>

TypeOK ==
    /\ writeChan \in Seq(Msg \cup {Nil}) /\ Len(writeChan) <= PendingWriteNum
    /\ chanClosed \in BOOLEAN /\ closeFlag \in BOOLEAN
    /\ lock \in Thread \cup {Free}
    /\ pc \in [Thread -> {"idle", "doWrite", "send", "doDestroy", "closeChan"}]
    /\ arg \in [Thread -> Msg \cup {Nil}]
    /\ wpc \in {"recv", "write", "closing", "setFlag", "done"}
    /\ cur \in Msg \cup {Nil}
    /\ connOpen \in BOOLEAN /\ stalled \in BOOLEAN
    /\ sent \subseteq Msg
    /\ accepted \in Seq(Msg) /\ wire \in Seq(Msg)
    /\ failed \in BOOLEAN /\ destroyed \in BOOLEAN /\ panicked \in BOOLEAN

\* newTCPConn: the channel is made and the writer goroutine is at its range.
Init ==
    /\ writeChan = <<>> /\ chanClosed = FALSE /\ closeFlag = FALSE
    /\ lock = Free /\ pc = [t \in Thread |-> "idle"]
    /\ arg = [t \in Thread |-> Nil]
    /\ wpc = "recv" /\ cur = Nil
    /\ connOpen = TRUE /\ stalled = FALSE
    /\ sent = {} /\ accepted = <<>> /\ wire = <<>>
    /\ failed = FALSE /\ destroyed = FALSE /\ panicked = FALSE

-----------------------------------------------------------------------------
(* The calls.  A call starts by taking the mutex and looking at closeFlag. *)

\* goroutine t takes the mutex and goes on at label l.
Enter(t, l) ==
    /\ pc[t] = "idle" /\ lock = Free
    /\ lock' = t /\ pc' = [pc EXCEPT ![t] = l]

\* goroutine t returns from its call, releasing the mutex.
Leave(t) == lock' = Free /\ pc' = [pc EXCEPT ![t] = "idle"]

\* Mutant of Write: closeFlag is not consulted.
WriteUnguarded(t, m) ==
    /\ m \notin sent /\ sent' = sent \cup {m}
    /\ Enter(t, "doWrite") /\ arg' = [arg EXCEPT ![t] = m]
    /\ UNCHANGED <<writeChan, chanClosed, closeFlag, writerVars, connOpen, stalled,
                   accepted, destroyed, panicked>>

Write(t, m) ==
    /\ m \notin sent /\ sent' = sent \cup {m}
    /\ \/ /\ ~closeFlag
          /\ Enter(t, "doWrite") /\ arg' = [arg EXCEPT ![t] = m]
       \/ /\ closeFlag /\ pc[t] = "idle" /\ lock = Free
          /\ UNCHANGED <<lock, pc, arg>>
    /\ UNCHANGED <<writeChan, chanClosed, closeFlag, writerVars, connOpen, stalled,
                   accepted, destroyed, panicked>>

\* Mutant of Close: the flag is set and no sentinel is sent.
CloseWithoutSentinel(t) ==
    /\ ~closeFlag /\ pc[t] = "idle" /\ lock = Free
    /\ closeFlag' = TRUE
    /\ UNCHANGED <<writeChan, chanClosed, lock, pc, arg, writerVars, connOpen, stalled,
                   sent, accepted, destroyed, panicked>>

Close(t) ==
    /\ ~closeFlag
    /\ Enter(t, "doWrite") /\ arg' = [arg EXCEPT ![t] = Nil]
    /\ UNCHANGED <<writeChan, chanClosed, closeFlag, writerVars, connOpen, stalled,
                   sent, accepted, destroyed, panicked>>

\* Close on a connection whose closeFlag is set returns at once.
CloseAgain(t) == closeFlag /\ pc[t] = "idle" /\ lock = Free /\ UNCHANGED vars

Destroy(t) ==
    /\ Enter(t, "doDestroy")
    /\ UNCHANGED <<writeChan, chanClosed, closeFlag, arg, writerVars, connOpen, stalled,
                   sent, accepted, destroyed, panicked>>

\* Mutant of DoWrite: the test is off by one.
DoWriteOffByOne(t) ==
    /\ pc[t] = "doWrite"
    /\ pc' = [pc EXCEPT ![t] = IF Len(writeChan) > PendingWriteNum
                               THEN "doDestroy" ELSE "send"]
    /\ UNCHANGED <<writeChan, chanClosed, closeFlag, lock, arg, writerVars, connOpen,
                   stalled, sent, accepted, destroyed, panicked>>

\* doWrite's test of the channel's length: a full channel destroys the connection.
DoWrite(t) ==
    /\ pc[t] = "doWrite"
    /\ pc' = [pc EXCEPT ![t] = IF Len(writeChan) = PendingWriteNum
                               THEN "doDestroy" ELSE "send"]
    /\ UNCHANGED <<writeChan, chanClosed, closeFlag, lock, arg, writerVars, connOpen,
                   stalled, sent, accepted, destroyed, panicked>>

\* Mutant of Send: Close forgets closeFlag = true.
SendWithoutFlag(t) ==
    /\ pc[t] = "send" /\ ~chanClosed /\ Len(writeChan) < PendingWriteNum
    /\ writeChan' = Append(writeChan, arg[t])
    /\ accepted' = IF arg[t] = Nil THEN accepted ELSE Append(accepted, arg[t])
    /\ Leave(t)
    /\ UNCHANGED <<chanClosed, closeFlag, arg, writerVars, connOpen, stalled, sent,
                   destroyed, panicked>>

\* writeChan <- b, then Close's closeFlag = true, then the deferred Unlock.  The send
\* waits for room, and panics on a closed channel.
Send(t) ==
    /\ pc[t] = "send" /\ (chanClosed \/ Len(writeChan) < PendingWriteNum)
    /\ panicked' = (panicked \/ chanClosed)
    /\ writeChan' = Append(writeChan, arg[t])
    /\ accepted' = IF arg[t] = Nil THEN accepted ELSE Append(accepted, arg[t])
    /\ closeFlag' = (closeFlag \/ arg[t] = Nil)
    /\ Leave(t)
    /\ UNCHANGED <<chanClosed, arg, writerVars, connOpen, stalled, sent, destroyed>>

\* doDestroy: SetLinger(0) and conn.Close() come first ...
DoDestroy(t) ==
    /\ pc[t] = "doDestroy"
    /\ connOpen' = FALSE /\ destroyed' = TRUE
    /\ pc' = [pc EXCEPT ![t] = "closeChan"]
    /\ UNCHANGED <<writeChan, chanClosed, closeFlag, lock, arg, writerVars, stalled,
                   sent, accepted, panicked>>

\* Mutant of CloseChan: closeFlag is not consulted.
CloseChanUnguarded(t) ==
    /\ pc[t] = "closeChan"
    /\ panicked' = (panicked \/ chanClosed)
    /\ chanClosed' = TRUE /\ closeFlag' = TRUE
    /\ Leave(t)
    /\ UNCHANGED <<writeChan, arg, writerVars, connOpen, stalled, sent, accepted,
                   destroyed>>

\* ... then the channel is closed, unless closeFlag says it is being closed already.
CloseChan(t) ==
    /\ pc[t] = "closeChan"
    /\ \/ closeFlag /\ UNCHANGED <<chanClosed, closeFlag, panicked>>
       \/ /\ ~closeFlag
          /\ panicked' = (panicked \/ chanClosed)
          /\ chanClosed' = TRUE /\ closeFlag' = TRUE
    /\ Leave(t)
    /\ UNCHANGED <<writeChan, arg, writerVars, connOpen, stalled, sent, accepted,
                   destroyed>>

-----------------------------------------------------------------------------
(* The writer goroutine of newTCPConn.                                     *)

\* Mutant of Recv: the sentinel is not recognised.
RecvNoSentinel ==
    /\ wpc = "recv"
    /\ \/ /\ writeChan # <<>>
          /\ cur' = Head(writeChan) /\ writeChan' = Tail(writeChan)
          /\ wpc' = "write"
       \/ /\ writeChan = <<>> /\ chanClosed
          /\ wpc' = "closing" /\ UNCHANGED <<cur, writeChan>>
    /\ UNCHANGED <<chanClosed, closeFlag, lock, pc, arg, connOpen, stalled, sent,
                   history, panicked>>

\* for b := range writeChan: the next item, the nil sentinel, or the end.
Recv ==
    /\ wpc = "recv"
    /\ \/ /\ writeChan # <<>>
          /\ cur' = Head(writeChan) /\ writeChan' = Tail(writeChan)
          /\ wpc' = IF Head(writeChan) = Nil THEN "closing" ELSE "write"
       \/ /\ writeChan = <<>> /\ chanClosed
          /\ wpc' = "closing" /\ UNCHANGED <<cur, writeChan>>
    /\ UNCHANGED <<chanClosed, closeFlag, lock, pc, arg, connOpen, stalled, sent,
                   history, panicked>>

\* conn.Write takes the frame; it blocks while the peer does not read.
ConnWrite ==
    /\ wpc = "write" /\ connOpen /\ ~stalled
    /\ wire' = Append(wire, cur) /\ wpc' = "recv"
    /\ UNCHANGED <<writeChan, chanClosed, closeFlag, lock, pc, arg, cur, connOpen,
                   stalled, sent, accepted, failed, destroyed, panicked>>

\* conn.Write fails: the socket is closed on this side, or the peer reset it.
ConnWriteErr ==
    /\ wpc = "write"
    /\ failed' = TRUE /\ wpc' = "closing"
    /\ UNCHANGED <<writeChan, chanClosed, closeFlag, lock, pc, arg, cur, connOpen,
                   stalled, sent, accepted, wire, destroyed, panicked>>

ConnClose ==
    /\ wpc = "closing"
    /\ connOpen' = FALSE /\ wpc' = "setFlag"
    /\ UNCHANGED <<writeChan, chanClosed, closeFlag, lock, pc, arg, cur, stalled, sent,
                   history, panicked>>

SetCloseFlag ==
    /\ wpc = "setFlag" /\ lock = Free
    /\ closeFlag' = TRUE /\ wpc' = "done"
    /\ UNCHANGED <<writeChan, chanClosed, lock, pc, arg, cur, connOpen, stalled, sent,
                   history, panicked>>

\* The peer stops reading: conn.Write has no deadline and blocks.
PeerStalls ==
    /\ ~stalled /\ stalled' = TRUE
    /\ UNCHANGED <<writeChan, chanClosed, closeFlag, lock, pc, arg, writerVars, connOpen,
                   sent, accepted, destroyed, panicked>>

-----------------------------------------------------------------------------
Call(t) == (\E m \in Msg : Write(t, m)) \/ Close(t) \/ CloseAgain(t) \/ Destroy(t)

Held(t) == DoWrite(t) \/ Send(t) \/ DoDestroy(t) \/ CloseChan(t)

Writer == Recv \/ ConnWrite \/ ConnWriteErr \/ ConnClose \/ SetCloseFlag

Next == (\E t \in Thread : Call(t) \/ Held(t)) \/ Writer \/ PeerStalls

Spec == Init /\ [][Next]_vars

(***************************************************************************)
(* Goroutines inside a call and the writer are scheduled; nobody has to    *)
(* make a call.  Go's mutex does not starve a waiter, so the writer's last *)
(* lock is strongly fair.  A conn.Write returns once the socket is closed  *)
(* or while the peer reads.                                                *)
(***************************************************************************)
Fairness ==
    /\ \A t \in Thread : WF_vars(Held(t))
    /\ WF_vars(Recv) /\ WF_vars(ConnWrite) /\ WF_vars(ConnClose)
    /\ WF_vars(~connOpen /\ ConnWriteErr)
    /\ SF_vars(SetCloseFlag)

FairSpec == Spec /\ Fairness

-----------------------------------------------------------------------------
(* Properties.                                                             *)

\* No order of Write, Close, Destroy and a failing writer sends on a closed
\* writeChan or closes it twice (doDestroy's closeFlag test and Write's).
NoChannelPanic == ~panicked

\* doWrite sends while it holds the mutex: the channel has room for it then,
\* although the length was tested in an earlier step, so no caller is stuck
\* with the mutex in its hand.
SendHasRoom ==
    \A t \in Thread : pc[t] = "send" => ~chanClosed /\ Len(writeChan) < PendingWriteNum

\* A writer that ends without a failed conn.Write (the sentinel of Close, or a
\* closed and drained channel) has written every frame that Write accepted.
GracefulFlush == wpc \in {"closing", "setFlag", "done"} /\ ~failed => wire = accepted

\* The connection keeps the promise of an ordered pipe: accepted frames reach
\* the socket in order, and none is accepted after closeFlag is set.
AbstractPipe == INSTANCE Pipe WITH delivered <- wire, shut <- closeFlag
PipePromise == AbstractPipe!PipeSpec

\* A closed connection is torn down: once closeFlag is set the writer ends
\* with the socket closed, unless the peer stops reading and only Close, not
\* Destroy, was called: Destroy wakes a writer that is blocked in conn.Write.
CloseEndsWriter ==
    closeFlag ~> (wpc = "done" /\ ~connOpen) \/ (stalled /\ ~destroyed)

=============================================================================
