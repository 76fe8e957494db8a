------------------------------ MODULE SyncQueue ------------------------------
(***************************************************************************)
(* queue.SyncQueue (util/queue/syncqueue.go): the queue of queue.go behind *)
(* a sync.RWMutex.  The queue itself is the sequence that RingQueue        *)
(* implements.  RLockRange calls Get for every element while it holds the  *)
(* read lock, and Get takes it a second time.                              *)
(*                                                                         *)
(* Pop, Peek and Get return nil when the element does not exist (the       *)
(* comments of queue.go say that they panic).                              *)
(***************************************************************************)
EXTENDS Sequences, FiniteSets, RWMutex

CONSTANTS QueueGo,     \* goroutines that use the queue
          MaxElems     \* bound on the elements added

ASSUME SyncQueueAssumption == IsFiniteSet(QueueGo) /\ MaxElems \in Nat

VARIABLES
    que,          \* the elements of SyncQueue.que, oldest first
    queLock,      \* SyncQueue.mutex
    queGo,        \* each goroutine: operation, position, elements a range has passed to f
    added,        \* elements added so far: they are 1, 2, ...
    popped        \* history: the elements Pop returned, in order

syncVars == <<que, queLock, queGo, added, popped>>

Readers == {"Len", "Peek", "Get", "RLockRange"}
Writers == {"Add", "Pop"}
QueIdle == [op |-> "none", at |-> "idle", got |-> <<>>]

SyncTypeOK ==
    /\ que \in Seq(1..MaxElems) /\ added \in 0..MaxElems /\ popped \in Seq(1..MaxElems)
    /\ \A g \in QueueGo :
           /\ queGo[g].op \in Readers \cup Writers \cup {"none"}
           /\ queGo[g].at \in {"idle", "rlock", "ask", "lock", "in", "nested", "get"}

\* NewSyncQueue.
SyncInit ==
    /\ que = <<>> /\ queLock = Unlocked /\ queGo = [g \in QueueGo |-> QueIdle]
    /\ added = 0 /\ popped = <<>>

Goto(g, l) == queGo' = [queGo EXCEPT ![g].at = l]

-----------------------------------------------------------------------------
(* The locks.                                                              *)

\* A goroutine calls an operation.
CallQueue(g, op) ==
    /\ queGo[g] = QueIdle
    /\ op = "Add" => added + Cardinality({h \in QueueGo : queGo[h].op = "Add"}) < MaxElems
    /\ queGo' = [queGo EXCEPT ![g] = [QueIdle EXCEPT !.op = op,
                                      !.at = IF op \in Readers THEN "rlock" ELSE "ask"]]
    /\ UNCHANGED <<que, queLock, added, popped>>

QueRLock(g) ==
    /\ queGo[g].at = "rlock" /\ CanRLock(queLock) /\ queLock' = RLocked(queLock)
    /\ Goto(g, "in") /\ UNCHANGED <<que, added, popped>>

\* Mutant of QueAsk: Add and Pop take the read lock.
QueAskReads(g) ==
    /\ queGo[g].at = "ask" /\ CanRLock(queLock) /\ queLock' = RLocked(queLock)
    /\ Goto(g, "in") /\ UNCHANGED <<que, added, popped>>

QueAsk(g) ==
    /\ queGo[g].at = "ask" /\ CanAsk(queLock) /\ queLock' = Asked(queLock, g)
    /\ Goto(g, "lock") /\ UNCHANGED <<que, added, popped>>

QueLock(g) ==
    /\ queGo[g].at = "lock" /\ CanLock(queLock, g) /\ queLock' = Locked(queLock, g)
    /\ Goto(g, "in") /\ UNCHANGED <<que, added, popped>>

-----------------------------------------------------------------------------
(* The operations, each up to its deferred unlock.                         *)

\* Len, Peek and Get change nothing, whether the element exists or not.
QueRead(g) ==
    /\ queGo[g].at = "in" /\ queGo[g].op \in {"Len", "Peek", "Get"}
    /\ queLock' = RUnlocked(queLock) /\ queGo' = [queGo EXCEPT ![g] = QueIdle]
    /\ UNCHANGED <<que, added, popped>>

SyncAdd(g) ==
    /\ queGo[g].at = "in" /\ queGo[g].op = "Add"
    /\ que' = Append(que, added + 1) /\ added' = added + 1
    /\ queLock' = Released(queLock) /\ queGo' = [queGo EXCEPT ![g] = QueIdle]
    /\ UNCHANGED popped

\* An empty queue gives nil and stays as it is.
SyncPop(g) ==
    /\ queGo[g].at = "in" /\ queGo[g].op = "Pop"
    /\ \/ que # <<>> /\ que' = Tail(que) /\ popped' = Append(popped, Head(que))
       \/ que = <<>> /\ UNCHANGED <<que, popped>>
    /\ queLock' = Released(queLock) /\ queGo' = [queGo EXCEPT ![g] = QueIdle]
    /\ UNCHANGED added

\* RLockRange: for i < Length, under the read lock of the range, Get(i), which
\* asks for the lock again ...
RangeNext(g) ==
    /\ queGo[g].at = "in" /\ queGo[g].op = "RLockRange"
    /\ \/ Len(queGo[g].got) < Len(que) /\ Goto(g, "nested") /\ UNCHANGED queLock
       \/ /\ Len(queGo[g].got) = Len(que)
          /\ queLock' = RUnlocked(queLock) /\ queGo' = [queGo EXCEPT ![g] = QueIdle]
    /\ UNCHANGED <<que, added, popped>>

RangeGetLock(g) ==
    /\ queGo[g].at = "nested" /\ CanRLock(queLock) /\ queLock' = RLocked(queLock)
    /\ Goto(g, "get") /\ UNCHANGED <<que, added, popped>>

\* ... and f is called with the element.
RangeGet(g) ==
    /\ queGo[g].at = "get" /\ queLock' = RUnlocked(queLock)
    /\ queGo' = [queGo EXCEPT ![g].at = "in",
                              ![g].got = Append(@, que[Len(queGo[g].got) + 1])]
    /\ UNCHANGED <<que, added, popped>>

-----------------------------------------------------------------------------
QueueOp(g) ==
    \/ QueRLock(g) \/ QueAsk(g) \/ QueLock(g) \/ QueRead(g) \/ SyncAdd(g) \/ SyncPop(g)
    \/ RangeNext(g) \/ RangeGetLock(g) \/ RangeGet(g)

SyncNext ==
    \E g \in QueueGo : QueueOp(g) \/ \E op \in Readers \cup Writers : CallQueue(g, op)

SyncSpec == SyncInit /\ [][SyncNext]_syncVars

-----------------------------------------------------------------------------
(* Properties.                                                             *)

\* What a range has passed to f is the beginning of the queue as it is now: the
\* queue does not change under it, and each element comes once and in order.
RangeIsSnapshot ==
    \A g \in QueueGo : LET n == Len(queGo[g].got) IN
        n <= Len(que) /\ queGo[g].got = SubSeq(que, 1, n)

\* Elements leave in the order they came, none twice and none lost.
SyncFifo == popped \o que = [i \in 1..added |-> i]

\* Every lock that is held or asked for belongs to a goroutine on its way to
\* giving it back, also when the queue is empty, and a writer is alone.
LockAccounted ==
    LET At(L, ops) == {g \in QueueGo : queGo[g].at \in L /\ queGo[g].op \in ops}
    IN  /\ queLock.writer = At({"in"}, Writers) /\ queLock.asked = At({"lock"}, Writers)
        /\ queLock.readers = Cardinality(At({"in", "nested", "get"}, Readers))
                                 + Cardinality(At({"get"}, Readers))
        /\ queLock.writer # {} => queLock.readers = 0 /\ queLock.asked = {}
        /\ Cardinality(queLock.writer \cup queLock.asked) <= 1

Waits(g) ==
    \/ queGo[g].at \in {"rlock", "nested"} /\ ~CanRLock(queLock)
    \/ queGo[g].at = "ask" /\ ~CanAsk(queLock)
    \/ queGo[g].at = "lock" /\ ~CanLock(queLock, g)

\* Goroutines wait on one another for ever in one way only: a range waits for
\* its second read lock behind a writer that waits for its first.
JamIsRangeAndWriter ==
    (\E g \in QueueGo : Waits(g)) /\ (\A g \in QueueGo : queGo[g] # QueIdle => Waits(g))
        => queLock.asked # {} /\ \E g \in QueueGo : queGo[g].at = "nested"

\* The queue is in order, and its lock is given back, whatever goroutines use it.
SyncInv ==
    SyncTypeOK /\ RangeIsSnapshot /\ SyncFifo /\ LockAccounted /\ JamIsRangeAndWriter

=============================================================================
