----------------------------- MODULE QueueProofs -----------------------------
(***************************************************************************)
(* Safety of queue.SyncQueue for any finite set of goroutines and any      *)
(* number of elements, that the ring buffer queue.Queue keeps its shape    *)
(* and implements a first-in first-out queue, and safety of the maps of    *)
(* package umap for any goroutines, finite sets of keys and numbers of     *)
(* stripes.                                                                *)
(***************************************************************************)
EXTENDS RingQueue, SyncQueue, UMap, ProofLemmas

(***************************************************************************)
(* The inductive invariant.  LockAccounted is what keeps a range and a     *)
(* writer apart; it needs the shape of a call (which operation can be at   *)
(* which place) and RangeIsSnapshot needs that a range that asks for its   *)
(* next element has one left.                                              *)
(***************************************************************************)
CallRec == [op : Readers \cup Writers \cup {"none"},
            at : {"idle", "rlock", "ask", "lock", "in", "nested", "get"},
            got : Seq(1..MaxElems)]

LockRec == [writer : SUBSET QueueGo, asked : SUBSET QueueGo, readers : Nat]

VarsInv ==
    /\ que \in Seq(1..MaxElems) /\ added \in Nat /\ popped \in Seq(1..MaxElems)
    /\ queGo \in [QueueGo -> CallRec] /\ queLock \in LockRec

\* What a call r on the queue s can be.
Shape(r, s) ==
    /\ r.at = "idle" => r = QueIdle
    /\ r.at # "idle" => r.op # "none"
    /\ r.at \in {"rlock"} => r.op \in Readers
    /\ r.at \in {"ask", "lock"} => r.op \in Writers
    /\ r.at \in {"nested", "get"} => r.op = "RLockRange" /\ Len(r.got) < Len(s)
    /\ ~(r.at \in {"in", "nested", "get"} /\ r.op \in Readers) => r.got = <<>>
    /\ Len(r.got) <= Len(s) /\ \A i \in 1..Len(r.got) : r.got[i] = s[i]

ShapeInv == \A g \in QueueGo : Shape(queGo[g], que)

\* The elements are 1, 2, ... in the order they came.
ElemsInv ==
    /\ Len(popped) + Len(que) = added
    /\ \A i \in 1..Len(popped) : popped[i] = i
    /\ \A i \in 1..Len(que) : que[i] = Len(popped) + i

\* Who holds the lock for writing, who has asked, who holds it for reading, who
\* holds it twice, and who will add an element.
Writing == {g \in QueueGo : queGo[g].at \in {"in"} /\ queGo[g].op \in Writers}
Asking == {g \in QueueGo : queGo[g].at \in {"lock"} /\ queGo[g].op \in Writers}
Reading == {g \in QueueGo : queGo[g].at \in {"in", "nested", "get"} /\ queGo[g].op \in Readers}
Twice == {g \in QueueGo : queGo[g].at \in {"get"} /\ queGo[g].op \in Readers}
Adding == {g \in QueueGo : queGo[g].op = "Add"}

HeldInv ==
    /\ queLock.writer = Writing /\ queLock.asked = Asking
    /\ queLock.readers = Cardinality(Reading) + Cardinality(Twice)
    /\ Writing # {} => queLock.readers = 0 /\ Asking = {}
    /\ \A g, h \in Writing \cup Asking : g = h

RoomInv == added + Cardinality(Adding) <= MaxElems

SyncIInv == VarsInv /\ ShapeInv /\ ElemsInv /\ HeldInv /\ RoomInv

\* The counts when one goroutine takes a step: r is what its call becomes.
LEMMA CallCounts ==
    ASSUME VarsInv, NEW g \in QueueGo, NEW r \in CallRec, queGo' = [queGo EXCEPT ![g] = r]
    PROVE  /\ queGo' \in [QueueGo -> CallRec] /\ queGo'[g] = r
           /\ \A h \in QueueGo : h # g => queGo'[h] = queGo[h]
           /\ Writing' = IF r.at = "in" /\ r.op \in Writers THEN Writing \cup {g} ELSE Writing \ {g}
           /\ Asking' = IF r.at = "lock" /\ r.op \in Writers THEN Asking \cup {g} ELSE Asking \ {g}
           /\ Cardinality(Reading) \in Nat /\ Cardinality(Reading') \in Nat
           /\ Cardinality(Twice) \in Nat /\ Cardinality(Twice') \in Nat
           /\ Cardinality(Adding) \in Nat /\ Cardinality(Adding') \in Nat
           /\ Cardinality(Reading') + In(g, Reading) = Cardinality(Reading) + In(g, Reading')
           /\ Cardinality(Twice') + In(g, Twice) = Cardinality(Twice) + In(g, Twice')
           /\ Cardinality(Adding') + In(g, Adding) = Cardinality(Adding) + In(g, Adding')
           /\ In(g, Reading) <= Cardinality(Reading) /\ In(g, Twice) <= Cardinality(Twice)
           /\ In(g, Adding) <= Cardinality(Adding)
<1>1. /\ queGo' \in [QueueGo -> CallRec] /\ queGo'[g] = r
      /\ \A h \in QueueGo : h # g => queGo'[h] = queGo[h]
  BY DEF VarsInv
<1>2. /\ Reading \in SUBSET QueueGo /\ Reading' \in SUBSET QueueGo
      /\ Twice \in SUBSET QueueGo /\ Twice' \in SUBSET QueueGo
      /\ Adding \in SUBSET QueueGo /\ Adding' \in SUBSET QueueGo
  BY DEF Reading, Twice, Adding
<1>3. /\ Reading \ {g} = Reading' \ {g} /\ Twice \ {g} = Twice' \ {g}
      /\ Adding \ {g} = Adding' \ {g}
  BY <1>1 DEF Reading, Twice, Adding
<1>4. Writing' = IF r.at = "in" /\ r.op \in Writers THEN Writing \cup {g} ELSE Writing \ {g}
  BY <1>1 DEF Writing
<1>5. Asking' = IF r.at = "lock" /\ r.op \in Writers THEN Asking \cup {g} ELSE Asking \ {g}
  BY <1>1 DEF Asking
<1>6. /\ Cardinality(Reading) \in Nat /\ Cardinality(Reading') \in Nat
      /\ Cardinality(Reading') + In(g, Reading) = Cardinality(Reading) + In(g, Reading')
      /\ In(g, Reading) <= Cardinality(Reading)
  BY <1>2, <1>3, SyncQueueAssumption, Recount
<1>7. /\ Cardinality(Twice) \in Nat /\ Cardinality(Twice') \in Nat
      /\ Cardinality(Twice') + In(g, Twice) = Cardinality(Twice) + In(g, Twice')
      /\ In(g, Twice) <= Cardinality(Twice)
  BY <1>2, <1>3, SyncQueueAssumption, Recount
<1>8. /\ Cardinality(Adding) \in Nat /\ Cardinality(Adding') \in Nat
      /\ Cardinality(Adding') + In(g, Adding) = Cardinality(Adding) + In(g, Adding')
      /\ In(g, Adding) <= Cardinality(Adding)
  BY <1>2, <1>3, SyncQueueAssumption, Recount
<1> QED BY <1>1, <1>4, <1>5, <1>6, <1>7, <1>8

\* Who counts where, before and after.
LEMMA CallIn ==
    ASSUME VarsInv, NEW g \in QueueGo, NEW r \in CallRec, queGo' = [queGo EXCEPT ![g] = r]
    PROVE  /\ In(g, Reading) = (IF queGo[g].at \in {"in", "nested", "get"} /\ queGo[g].op \in Readers
                                THEN 1 ELSE 0)
           /\ In(g, Reading') = (IF r.at \in {"in", "nested", "get"} /\ r.op \in Readers THEN 1 ELSE 0)
           /\ In(g, Twice) = (IF queGo[g].at = "get" /\ queGo[g].op \in Readers THEN 1 ELSE 0)
           /\ In(g, Twice') = (IF r.at = "get" /\ r.op \in Readers THEN 1 ELSE 0)
           /\ In(g, Adding) = (IF queGo[g].op = "Add" THEN 1 ELSE 0)
           /\ In(g, Adding') = (IF r.op = "Add" THEN 1 ELSE 0)
<1>1. queGo'[g] = r
  BY DEF VarsInv
<1> QED BY <1>1 DEF In, Reading, Twice, Adding

\* Initially nobody uses the queue.
LEMMA SyncInitInv == SyncInit => SyncIInv
<1> SUFFICES ASSUME SyncInit PROVE SyncIInv
  OBVIOUS
<1>1. QueIdle \in CallRec /\ Unlocked \in LockRec
  BY DEF QueIdle, CallRec, Unlocked, LockRec
<1>2. VarsInv
  BY <1>1 DEF SyncInit, VarsInv
<1>3. Writing = {} /\ Asking = {} /\ Reading = {} /\ Twice = {} /\ Adding = {}
  BY DEF SyncInit, QueIdle, Writing, Asking, Reading, Twice, Adding
<1>4. Cardinality({}) = 0
  BY FS_EmptySet
<1>5. HeldInv
  BY <1>3, <1>4 DEF SyncInit, HeldInv, Unlocked
<1>6. RoomInv
  BY <1>3, <1>4, SyncQueueAssumption DEF SyncInit, RoomInv
<1>7. ElemsInv
  BY DEF SyncInit, ElemsInv
<1>8. ShapeInv
  BY DEF SyncInit, ShapeInv, Shape, QueIdle
<1> QED BY <1>2, <1>5, <1>6, <1>7, <1>8 DEF SyncIInv

\* A step of one goroutine that leaves the queue alone.
LEMMA CallStep ==
    ASSUME SyncIInv, NEW g \in QueueGo, NEW r \in CallRec, queGo' = [queGo EXCEPT ![g] = r],
           que' = que, added' = added, popped' = popped, queLock' \in LockRec,
           Shape(r, que), HeldInv',
           r.op = "Add" => queGo[g].op = "Add" \/ added + Cardinality(Adding) < MaxElems
    PROVE  SyncIInv'
<1> USE SyncQueueAssumption
<1>1. VarsInv /\ ShapeInv /\ ElemsInv /\ RoomInv
  BY DEF SyncIInv
<1>2. /\ queGo' \in [QueueGo -> CallRec] /\ queGo'[g] = r
      /\ \A h \in QueueGo : h # g => queGo'[h] = queGo[h]
  BY <1>1, CallCounts
<1>3. VarsInv'
  BY <1>1, <1>2 DEF VarsInv
<1>4. ShapeInv'
  <2>1. ASSUME NEW h \in QueueGo PROVE Shape(queGo'[h], que)
    BY <1>1, <1>2 DEF ShapeInv
  <2> QED BY <2>1 DEF ShapeInv
<1>5. ElemsInv'
  BY <1>1 DEF ElemsInv
<1>6. RoomInv'
  <2>1. /\ Cardinality(Adding) \in Nat /\ Cardinality(Adding') \in Nat
        /\ Cardinality(Adding') + In(g, Adding) = Cardinality(Adding) + In(g, Adding')
    BY <1>1, CallCounts
  <2>2. /\ In(g, Adding) = (IF queGo[g].op = "Add" THEN 1 ELSE 0)
        /\ In(g, Adding') = (IF r.op = "Add" THEN 1 ELSE 0)
    BY <1>1, CallIn
  <2>3. added \in Nat /\ MaxElems \in Nat /\ added + Cardinality(Adding) <= MaxElems
    BY <1>1 DEF VarsInv, RoomInv
  <2>4. CASE queGo[g].op = "Add"
    <3>1. Cardinality(Adding') <= Cardinality(Adding)
      BY <2>1, <2>2, <2>4
    <3> QED BY <2>1, <2>3, <3>1 DEF RoomInv
  <2>5. CASE queGo[g].op # "Add" /\ r.op = "Add"
    <3>1. Cardinality(Adding') = Cardinality(Adding) + 1
      BY <2>1, <2>2, <2>5
    <3> QED BY <2>1, <2>3, <2>5, <3>1 DEF RoomInv
  <2>6. CASE queGo[g].op # "Add" /\ r.op # "Add"
    <3>1. Cardinality(Adding') = Cardinality(Adding)
      BY <2>1, <2>2, <2>6
    <3> QED BY <2>1, <2>3, <3>1 DEF RoomInv
  <2> QED BY <2>4, <2>5, <2>6
<1> QED BY <1>3, <1>4, <1>5, <1>6 DEF SyncIInv

\* Calls before they have the lock.
LEMMA CallQueueStep ==
    ASSUME SyncIInv, NEW g \in QueueGo, NEW op \in Readers \cup Writers, CallQueue(g, op)
    PROVE  SyncIInv'
<1> DEFINE r == [QueIdle EXCEPT !.op = op, !.at = IF op \in Readers THEN "rlock" ELSE "ask"]
<1>1. VarsInv /\ ShapeInv /\ HeldInv
  BY DEF SyncIInv
<1>2. /\ r \in CallRec /\ r.op = op /\ r.at \in {"rlock", "ask"} /\ r.got = <<>>
      /\ (r.at = "rlock" => op \in Readers) /\ (r.at = "ask" => op \in Writers)
  <2>1. <<>> \in Seq(1..MaxElems)
    OBVIOUS
  <2>2. /\ QueIdle \in CallRec /\ QueIdle.got = <<>>
    BY <2>1 DEF QueIdle, CallRec
  <2>3. ASSUME NEW a \in {"rlock", "ask"}
        PROVE  LET c == [QueIdle EXCEPT !.op = op, !.at = a]
               IN  c \in CallRec /\ c.op = op /\ c.at = a /\ c.got = <<>>
    BY <2>2 DEF CallRec
  <2>4. (IF op \in Readers THEN "rlock" ELSE "ask") \in {"rlock", "ask"}
    OBVIOUS
  <2> QED BY <2>3, <2>4
<1>3. /\ queGo' = [queGo EXCEPT ![g] = r] /\ queGo[g] = QueIdle
      /\ que' = que /\ added' = added /\ popped' = popped /\ queLock' = queLock
  BY DEF CallQueue
<1>4. op = "Add" => added + Cardinality(Adding) < MaxElems
  BY DEF CallQueue, Adding
<1>5. queGo[g].at = "idle" /\ queGo[g].op = "none" /\ g \notin Writing /\ g \notin Asking
  BY <1>3 DEF QueIdle, Writing, Asking
<1>6. /\ In(g, Reading) = 0 /\ In(g, Reading') = 0 /\ In(g, Twice) = 0 /\ In(g, Twice') = 0
  BY <1>1, <1>2, <1>3, <1>5, CallIn
<1>7. /\ Writing' = Writing /\ Asking' = Asking
      /\ Cardinality(Reading') = Cardinality(Reading) /\ Cardinality(Twice') = Cardinality(Twice)
  <2> HIDE DEF r
  <2>1. /\ Writing' = Writing \ {g} /\ Asking' = Asking \ {g}
    BY <1>1, <1>2, <1>3, CallCounts
  <2>2. /\ Cardinality(Reading) \in Nat /\ Cardinality(Reading') \in Nat
        /\ Cardinality(Twice) \in Nat /\ Cardinality(Twice') \in Nat
        /\ Cardinality(Reading') + In(g, Reading) = Cardinality(Reading) + In(g, Reading')
        /\ Cardinality(Twice') + In(g, Twice) = Cardinality(Twice) + In(g, Twice')
    BY <1>1, <1>2, <1>3, CallCounts
  <2> QED BY <1>5, <1>6, <2>1, <2>2
<1>8. HeldInv'
  BY <1>1, <1>3, <1>7 DEF HeldInv
<1>9. Shape(r, que)
  <2>1. Len(<<>>) = 0 /\ Len(que) \in Nat
    BY <1>1 DEF VarsInv
  <2> HIDE DEF r
  <2> QED BY <1>2, <2>1 DEF Shape, Readers, Writers
<1>10. queLock' \in LockRec
  BY <1>1, <1>3 DEF VarsInv
<1> HIDE DEF r
<1> QED BY <1>2, <1>3, <1>4, <1>8, <1>9, <1>10, CallStep

\* A goroutine is given the lock, for reading or for writing, or asks for it.
LEMMA LockStep ==
    ASSUME SyncIInv, NEW g \in QueueGo,
           QueRLock(g) \/ QueAsk(g) \/ QueLock(g) \/ RangeGetLock(g)
    PROVE  SyncIInv'
<1>1. VarsInv /\ ShapeInv /\ HeldInv
  BY DEF SyncIInv
<1>2. PICK l \in {"in", "lock", "get"} : queGo' = [queGo EXCEPT ![g].at = l]
  BY DEF QueRLock, QueAsk, QueLock, RangeGetLock, Goto
<1> DEFINE r == [queGo[g] EXCEPT !.at = l]
<1>3. queGo[g] \in CallRec /\ Shape(queGo[g], que)
  BY <1>1 DEF VarsInv, ShapeInv
<1>4. /\ r \in CallRec /\ r.op = queGo[g].op /\ r.at = l /\ r.got = queGo[g].got
  BY <1>3 DEF CallRec
<1>5. /\ queGo' = [queGo EXCEPT ![g] = r]
      /\ que' = que /\ added' = added /\ popped' = popped
  BY <1>2 DEF QueRLock, QueAsk, QueLock, RangeGetLock
<1>6. queGo'[g] = r
  BY <1>1, <1>5 DEF VarsInv
<1> HIDE DEF r
<1>7. queLock = [writer |-> queLock.writer, asked |-> queLock.asked, readers |-> queLock.readers]
  BY <1>1 DEF VarsInv, LockRec
<1>8. /\ queLock.writer \in SUBSET QueueGo /\ queLock.asked \in SUBSET QueueGo
      /\ queLock.readers \in Nat /\ queLock \in LockRec
  BY <1>1 DEF VarsInv, LockRec
<1>9. /\ Cardinality(Reading) \in Nat /\ Cardinality(Reading') \in Nat
      /\ Cardinality(Twice) \in Nat /\ Cardinality(Twice') \in Nat
      /\ Cardinality(Reading') + In(g, Reading) = Cardinality(Reading) + In(g, Reading')
      /\ Cardinality(Twice') + In(g, Twice) = Cardinality(Twice) + In(g, Twice')
  BY <1>1, <1>4, <1>5, CallCounts
<1>10. CASE QueRLock(g)
  <2>1. /\ queGo[g].at = "rlock" /\ queLock.writer = {} /\ queLock.asked = {} /\ l = "in"
        /\ queLock' = [queLock EXCEPT !.readers = @ + 1]
    BY <1>1, <1>2, <1>10 DEF QueRLock, Goto, CanRLock, RLocked, VarsInv, CallRec
  <2>2. r.op \in Readers /\ r.op \notin Writers
    BY <1>3, <1>4, <2>1 DEF Shape, Readers, Writers
  <2>3. /\ queLock'.writer = {} /\ queLock'.asked = {} /\ queLock'.readers = queLock.readers + 1
        /\ queLock' \in LockRec
    BY <1>8, <2>1 DEF LockRec
  <2>4. Writing' = {} /\ Asking' = {}
    <3>1. Writing' = Writing \ {g} /\ Asking' = Asking \ {g}
      BY <1>1, <1>4, <1>5, <2>1, <2>2, CallCounts
    <3> QED BY <1>1, <2>1, <3>1 DEF HeldInv
  <2>5. In(g, Reading) = 0 /\ In(g, Reading') = 1 /\ In(g, Twice) = 0 /\ In(g, Twice') = 0
    BY <1>1, <1>4, <1>5, <2>1, <2>2, CallIn
  <2>6. /\ Cardinality(Reading') = Cardinality(Reading) + 1
        /\ Cardinality(Twice') = Cardinality(Twice)
    BY <1>9, <2>5
  <2>7. queLock.readers + 1 = Cardinality(Reading') + Cardinality(Twice')
    BY <1>1, <1>9, <2>6 DEF HeldInv
  <2>8. HeldInv'
    BY <2>3, <2>4, <2>7 DEF HeldInv
  <2>9. Shape(r, que)
    BY <1>3, <1>4, <2>1, <2>2 DEF Shape
  <2> QED BY <1>4, <1>5, <2>2, <2>3, <2>8, <2>9, CallStep
<1>11. CASE QueAsk(g)
  <2>1. /\ queGo[g].at = "ask" /\ queLock.writer = {} /\ queLock.asked = {} /\ l = "lock"
        /\ queLock' = [queLock EXCEPT !.asked = {g}]
    BY <1>1, <1>2, <1>11 DEF QueAsk, Goto, CanAsk, Asked, VarsInv, CallRec
  <2>2. r.op \in Writers /\ r.op \notin Readers
    BY <1>3, <1>4, <2>1 DEF Shape, Readers, Writers
  <2>3. /\ queLock'.writer = {} /\ queLock'.asked = {g} /\ queLock'.readers = queLock.readers
        /\ queLock' \in LockRec
    BY <1>8, <2>1 DEF LockRec
  <2>4. Writing' = {} /\ Asking' = {g}
    <3>1. Writing' = Writing \ {g} /\ Asking' = Asking \cup {g}
      BY <1>1, <1>4, <1>5, <2>1, <2>2, CallCounts
    <3> QED BY <1>1, <2>1, <3>1 DEF HeldInv
  <2>5. In(g, Reading) = 0 /\ In(g, Reading') = 0 /\ In(g, Twice) = 0 /\ In(g, Twice') = 0
    BY <1>1, <1>4, <1>5, <2>1, <2>2, CallIn
  <2>6. /\ Cardinality(Reading') = Cardinality(Reading)
        /\ Cardinality(Twice') = Cardinality(Twice)
    BY <1>9, <2>5
  <2>7. queLock.readers = Cardinality(Reading') + Cardinality(Twice')
    BY <1>1, <1>9, <2>6 DEF HeldInv
  <2>8. HeldInv'
    BY <2>3, <2>4, <2>7 DEF HeldInv
  <2>9. Shape(r, que)
    BY <1>3, <1>4, <2>1, <2>2 DEF Shape
  <2> QED BY <1>4, <1>5, <2>2, <2>3, <2>8, <2>9, CallStep
<1>12. CASE QueLock(g)
  <2>1. /\ queGo[g].at = "lock" /\ queLock.asked = {g} /\ queLock.readers = 0 /\ l = "in"
        /\ queLock' = [queLock EXCEPT !.asked = {}, !.writer = {g}]
    BY <1>1, <1>2, <1>12 DEF QueLock, Goto, CanLock, Locked, VarsInv, CallRec
  <2>2. r.op \in Writers /\ r.op \notin Readers
    BY <1>3, <1>4, <2>1 DEF Shape, Readers, Writers
  <2>3. /\ queLock'.writer = {g} /\ queLock'.asked = {} /\ queLock'.readers = 0
        /\ queLock' \in LockRec
    BY <1>8, <2>1 DEF LockRec
  <2>4. Writing' = {g} /\ Asking' = {}
    <3>1. Writing' = Writing \cup {g} /\ Asking' = Asking \ {g}
      BY <1>1, <1>4, <1>5, <2>1, <2>2, CallCounts
    <3> QED BY <1>1, <2>1, <3>1 DEF HeldInv
  <2>5. In(g, Reading) = 0 /\ In(g, Reading') = 0 /\ In(g, Twice) = 0 /\ In(g, Twice') = 0
    BY <1>1, <1>4, <1>5, <2>1, <2>2, CallIn
  <2>6. /\ Cardinality(Reading') = Cardinality(Reading)
        /\ Cardinality(Twice') = Cardinality(Twice)
    BY <1>9, <2>5
  <2>7. 0 = Cardinality(Reading') + Cardinality(Twice')
    BY <1>1, <1>9, <2>1, <2>6 DEF HeldInv
  <2>8. HeldInv'
    BY <2>3, <2>4, <2>7 DEF HeldInv
  <2>9. Shape(r, que)
    BY <1>3, <1>4, <2>1, <2>2 DEF Shape
  <2> QED BY <1>4, <1>5, <2>2, <2>3, <2>8, <2>9, CallStep
<1>13. CASE RangeGetLock(g)
  <2>1. /\ queGo[g].at = "nested" /\ queLock.writer = {} /\ queLock.asked = {} /\ l = "get"
        /\ queLock' = [queLock EXCEPT !.readers = @ + 1]
    BY <1>1, <1>2, <1>13 DEF RangeGetLock, Goto, CanRLock, RLocked, VarsInv, CallRec
  <2>2. r.op = "RLockRange" /\ r.op \in Readers /\ r.op \notin Writers
    BY <1>3, <1>4, <2>1 DEF Shape, Readers, Writers
  <2>3. /\ queLock'.writer = {} /\ queLock'.asked = {} /\ queLock'.readers = queLock.readers + 1
        /\ queLock' \in LockRec
    BY <1>8, <2>1 DEF LockRec
  <2>4. Writing' = {} /\ Asking' = {}
    <3>1. Writing' = Writing \ {g} /\ Asking' = Asking \ {g}
      BY <1>1, <1>4, <1>5, <2>1, <2>2, CallCounts
    <3> QED BY <1>1, <2>1, <3>1 DEF HeldInv
  <2>5. In(g, Reading) = 1 /\ In(g, Reading') = 1 /\ In(g, Twice) = 0 /\ In(g, Twice') = 1
    BY <1>1, <1>4, <1>5, <2>1, <2>2, CallIn
  <2>6. /\ Cardinality(Reading') = Cardinality(Reading)
        /\ Cardinality(Twice') = Cardinality(Twice) + 1
    BY <1>9, <2>5
  <2>7. queLock.readers + 1 = Cardinality(Reading') + Cardinality(Twice')
    BY <1>1, <1>9, <2>6 DEF HeldInv
  <2>8. HeldInv'
    BY <2>3, <2>4, <2>7 DEF HeldInv
  <2>9. Shape(r, que)
    BY <1>3, <1>4, <2>1, <2>2 DEF Shape
  <2> QED BY <1>4, <1>5, <2>2, <2>3, <2>8, <2>9, CallStep
<1> QED BY <1>10, <1>11, <1>12, <1>13

\* A read lock is given back, by a read, at the end of a range or after a Get
\* inside it.
LEMMA ReadStep ==
    ASSUME SyncIInv, NEW g \in QueueGo, QueRead(g) \/ RangeNext(g) \/ RangeGet(g)
    PROVE  SyncIInv'
<1>1. VarsInv /\ ShapeInv /\ HeldInv
  BY DEF SyncIInv
<1>2. queGo[g] \in CallRec /\ Shape(queGo[g], que)
  BY <1>1 DEF VarsInv, ShapeInv
<1>3. que' = que /\ added' = added /\ popped' = popped
  BY DEF QueRead, RangeNext, RangeGet
<1>4. /\ queLock.writer \in SUBSET QueueGo /\ queLock.asked \in SUBSET QueueGo
      /\ queLock.readers \in Nat /\ queLock \in LockRec /\ Len(que) \in Nat
  BY <1>1 DEF VarsInv, LockRec
<1>5. ASSUME NEW r \in CallRec, queGo' = [queGo EXCEPT ![g] = r]
      PROVE  /\ Cardinality(Reading) \in Nat /\ Cardinality(Reading') \in Nat
             /\ Cardinality(Twice) \in Nat /\ Cardinality(Twice') \in Nat
             /\ Cardinality(Reading') + In(g, Reading) = Cardinality(Reading) + In(g, Reading')
             /\ Cardinality(Twice') + In(g, Twice) = Cardinality(Twice) + In(g, Twice')
             /\ In(g, Reading) <= Cardinality(Reading) /\ In(g, Twice) <= Cardinality(Twice)
  BY <1>1, <1>5, CallCounts
<1>6. QueIdle \in CallRec /\ QueIdle.at = "idle" /\ QueIdle.op = "none" /\ QueIdle.got = <<>>
  BY DEF QueIdle, CallRec
<1>7. ASSUME queGo[g].at = "in", queGo[g].op \in Readers,
             queLock' = RUnlocked(queLock), queGo' = [queGo EXCEPT ![g] = QueIdle]
      PROVE  SyncIInv'
  <2>1. /\ Cardinality(Reading) \in Nat /\ Cardinality(Reading') \in Nat
        /\ Cardinality(Twice) \in Nat /\ Cardinality(Twice') \in Nat
        /\ Cardinality(Reading') + In(g, Reading) = Cardinality(Reading) + In(g, Reading')
        /\ Cardinality(Twice') + In(g, Twice) = Cardinality(Twice) + In(g, Twice')
    BY <1>5, <1>6, <1>7
  <2>2. In(g, Reading) = 1 /\ In(g, Reading') = 0 /\ In(g, Twice) = 0 /\ In(g, Twice') = 0
    BY <1>1, <1>6, <1>7, CallIn
  <2>3. queLock.readers - 1 = Cardinality(Reading') + Cardinality(Twice')
    BY <1>1, <1>4, <2>1, <2>2 DEF HeldInv
  <2>4. /\ queLock'.readers = queLock.readers - 1 /\ queLock'.writer = queLock.writer
        /\ queLock'.asked = queLock.asked /\ queLock' \in LockRec
    <3>1. queLock.readers - 1 \in Nat
      BY <2>1, <2>3
    <3> QED BY <1>4, <1>7, <3>1 DEF RUnlocked, LockRec
  <2>5. Writing' = Writing /\ Asking' = Asking
    <3>1. Writing' = Writing \ {g} /\ Asking' = Asking \ {g}
      BY <1>1, <1>6, <1>7, CallCounts
    <3>2. g \notin Writing /\ g \notin Asking
      BY <1>7 DEF Writing, Asking, Readers, Writers
    <3> QED BY <3>1, <3>2
  <2>6. Writing = {}
    BY <1>1, <1>4, <2>1, <2>3 DEF HeldInv
  <2>7. HeldInv'
    BY <1>1, <2>3, <2>4, <2>5, <2>6 DEF HeldInv
  <2>8. Shape(QueIdle, que)
    <3>1. Len(<<>>) = 0
      OBVIOUS
    <3> QED BY <1>4, <1>6, <3>1 DEF Shape
  <2> QED BY <1>3, <1>6, <1>7, <2>4, <2>7, <2>8, CallStep
<1>8. CASE QueRead(g)
  BY <1>7, <1>8 DEF QueRead, Readers
<1>9. CASE RangeNext(g)
  <2>1. CASE Len(queGo[g].got) = Len(que) /\ queGo' = [queGo EXCEPT ![g] = QueIdle]
             /\ queLock' = RUnlocked(queLock)
    BY <1>7, <1>9, <2>1 DEF RangeNext, Readers
  <2>2. CASE Len(queGo[g].got) < Len(que) /\ Goto(g, "nested") /\ UNCHANGED queLock
    <3> DEFINE r == [queGo[g] EXCEPT !.at = "nested"]
    <3>1. queGo[g].at = "in" /\ queGo[g].op = "RLockRange"
      BY <1>9 DEF RangeNext
    <3>2. /\ r \in CallRec /\ r.op = queGo[g].op /\ r.at = "nested" /\ r.got = queGo[g].got
      BY <1>2 DEF CallRec
    <3>3. queGo' = [queGo EXCEPT ![g] = r]
      BY <2>2 DEF Goto
    <3> HIDE DEF r
    <3>4. r.op \in Readers /\ r.op \notin Writers
      BY <3>1, <3>2 DEF Readers, Writers
    <3>5. /\ Cardinality(Reading) \in Nat /\ Cardinality(Reading') \in Nat
          /\ Cardinality(Twice) \in Nat /\ Cardinality(Twice') \in Nat
          /\ Cardinality(Reading') + In(g, Reading) = Cardinality(Reading) + In(g, Reading')
          /\ Cardinality(Twice') + In(g, Twice) = Cardinality(Twice) + In(g, Twice')
      BY <1>5, <3>2, <3>3
    <3>6. In(g, Reading) = 1 /\ In(g, Reading') = 1 /\ In(g, Twice) = 0 /\ In(g, Twice') = 0
      BY <1>1, <3>1, <3>2, <3>3, <3>4, CallIn
    <3>7. Cardinality(Reading') = Cardinality(Reading) /\ Cardinality(Twice') = Cardinality(Twice)
      BY <3>5, <3>6
    <3>8. Writing' = Writing /\ Asking' = Asking
      <4>1. Writing' = Writing \ {g} /\ Asking' = Asking \ {g}
        BY <1>1, <3>2, <3>3, <3>4, CallCounts
      <4>2. g \notin Writing /\ g \notin Asking
        BY <3>1 DEF Writing, Asking, Writers
      <4> QED BY <4>1, <4>2
    <3>9. HeldInv'
      BY <1>1, <2>2, <3>7, <3>8 DEF HeldInv
    <3>10. Shape(r, que)
      BY <1>2, <2>2, <3>1, <3>2, <3>4 DEF Shape
    <3>11. queLock' \in LockRec
      BY <1>4, <2>2
    <3> QED BY <1>3, <3>2, <3>3, <3>1, <3>9, <3>10, <3>11, CallStep
  <2> QED BY <1>9, <2>1, <2>2 DEF RangeNext
<1>10. CASE RangeGet(g)
  <2> DEFINE e == que[Len(queGo[g].got) + 1]
             r == [queGo[g] EXCEPT !.at = "in", !.got = Append(queGo[g].got, e)]
  <2>1. queGo[g].at = "get" /\ queLock' = RUnlocked(queLock)
    BY <1>10 DEF RangeGet
  <2>2. /\ queGo[g].op = "RLockRange" /\ queGo[g].got \in Seq(1..MaxElems)
        /\ Len(queGo[g].got) < Len(que) /\ Len(queGo[g].got) \in Nat
    BY <1>2, <2>1 DEF Shape, CallRec
  <2>3. e \in 1..MaxElems
    <3>1. Len(queGo[g].got) + 1 \in 1..Len(que) /\ que \in Seq(1..MaxElems)
      BY <1>1, <1>4, <2>2 DEF VarsInv
    <3> QED BY <3>1, ElementOfSeq
  <2>4. /\ Append(queGo[g].got, e) \in Seq(1..MaxElems)
        /\ Len(Append(queGo[g].got, e)) = Len(queGo[g].got) + 1
        /\ Append(queGo[g].got, e)[Len(queGo[g].got) + 1] = e
        /\ \A k \in 1..Len(queGo[g].got) : Append(queGo[g].got, e)[k] = queGo[g].got[k]
    BY <2>2, <2>3, SeqAppend
  <2>5. /\ r.op = queGo[g].op /\ r.at = "in" /\ r.got = Append(queGo[g].got, e) /\ r \in CallRec
    <3> HIDE DEF e
    <3> QED BY <1>2, <2>4 DEF CallRec
  <2>6. queGo' = [queGo EXCEPT ![g] = r]
    BY <1>10 DEF RangeGet
  <2>7. Shape(r, que)
    <3>1. Len(r.got) <= Len(que)
      BY <1>4, <2>2, <2>4, <2>5
    <3>2. ASSUME NEW k \in 1..Len(r.got) PROVE r.got[k] = que[k]
      <4>1. k = Len(queGo[g].got) + 1 \/ k \in 1..Len(queGo[g].got)
        BY <2>2, <2>4, <2>5
      <4>2. CASE k \in 1..Len(queGo[g].got)
        BY <1>2, <2>4, <2>5, <4>2 DEF Shape
      <4> QED BY <2>4, <2>5, <4>1, <4>2
    <3>3. r.op \in Readers /\ r.op # "none"
      BY <2>2, <2>5 DEF Readers
    <3> HIDE DEF r
    <3> QED BY <2>5, <3>1, <3>2, <3>3 DEF Shape
  <2> HIDE DEF r, e
  <2>8. r.op \in Readers /\ r.op \notin Writers /\ r.op # "Add"
    BY <2>2, <2>5 DEF Readers, Writers
  <2>9. /\ Cardinality(Reading) \in Nat /\ Cardinality(Reading') \in Nat
        /\ Cardinality(Twice) \in Nat /\ Cardinality(Twice') \in Nat
        /\ Cardinality(Reading') + In(g, Reading) = Cardinality(Reading) + In(g, Reading')
        /\ Cardinality(Twice') + In(g, Twice) = Cardinality(Twice) + In(g, Twice')
    BY <1>5, <2>5, <2>6
  <2>10. In(g, Reading) = 1 /\ In(g, Reading') = 1 /\ In(g, Twice) = 1 /\ In(g, Twice') = 0
    BY <1>1, <2>1, <2>5, <2>6, <2>8, CallIn
  <2>11. queLock.readers - 1 = Cardinality(Reading') + Cardinality(Twice')
    BY <1>1, <1>4, <2>9, <2>10 DEF HeldInv
  <2>12. /\ queLock'.readers = queLock.readers - 1 /\ queLock'.writer = queLock.writer
         /\ queLock'.asked = queLock.asked /\ queLock' \in LockRec
    <3>1. queLock.readers - 1 \in Nat
      BY <2>9, <2>11
    <3> QED BY <1>4, <2>1, <3>1 DEF RUnlocked, LockRec
  <2>13. Writing' = Writing /\ Asking' = Asking
    <3>1. Writing' = Writing \ {g} /\ Asking' = Asking \ {g}
      BY <1>1, <2>5, <2>6, <2>8, CallCounts
    <3>2. g \notin Writing /\ g \notin Asking
      BY <2>1 DEF Writing, Asking
    <3> QED BY <3>1, <3>2
  <2>14. Writing = {}
    BY <1>1, <1>4, <2>9, <2>11 DEF HeldInv
  <2>15. HeldInv'
    BY <1>1, <2>11, <2>12, <2>13, <2>14 DEF HeldInv
  <2> QED BY <1>3, <2>5, <2>6, <2>7, <2>8, <2>12, <2>15, CallStep
<1> QED BY <1>8, <1>9, <1>10

\* Add and Pop: a writer is alone with the queue, so no range sees it change.
LEMMA WriteStep ==
    ASSUME SyncIInv, NEW g \in QueueGo, SyncAdd(g) \/ SyncPop(g)
    PROVE  SyncIInv'
<1> USE SyncQueueAssumption
<1>1. VarsInv /\ ShapeInv /\ ElemsInv /\ HeldInv /\ RoomInv
  BY DEF SyncIInv
<1>2. /\ queGo[g].at = "in" /\ queGo[g].op \in Writers
      /\ queLock' = Released(queLock) /\ queGo' = [queGo EXCEPT ![g] = QueIdle]
  BY DEF SyncAdd, SyncPop, Writers
<1>3. QueIdle \in CallRec /\ QueIdle.at = "idle" /\ QueIdle.op = "none" /\ QueIdle.got = <<>>
  BY DEF QueIdle, CallRec
<1>4. /\ queLock.writer \in SUBSET QueueGo /\ queLock.asked \in SUBSET QueueGo
      /\ queLock.readers \in Nat /\ queLock \in LockRec
      /\ que \in Seq(1..MaxElems) /\ popped \in Seq(1..MaxElems) /\ added \in Nat
      /\ Len(que) \in Nat /\ Len(popped) \in Nat
  BY <1>1 DEF VarsInv, LockRec
<1>5. g \in Writing /\ queLock.readers = 0 /\ Asking = {} /\ Writing = {g}
  BY <1>1, <1>2 DEF HeldInv, Writing
<1>6. /\ queGo' \in [QueueGo -> CallRec] /\ queGo'[g] = QueIdle
      /\ \A h \in QueueGo : h # g => queGo'[h] = queGo[h]
      /\ Writing' = Writing \ {g} /\ Asking' = Asking \ {g}
      /\ Cardinality(Reading) \in Nat /\ Cardinality(Reading') \in Nat
      /\ Cardinality(Twice) \in Nat /\ Cardinality(Twice') \in Nat
      /\ Cardinality(Adding) \in Nat /\ Cardinality(Adding') \in Nat
      /\ Cardinality(Reading') + In(g, Reading) = Cardinality(Reading) + In(g, Reading')
      /\ Cardinality(Twice') + In(g, Twice) = Cardinality(Twice) + In(g, Twice')
      /\ Cardinality(Adding') + In(g, Adding) = Cardinality(Adding) + In(g, Adding')
  BY <1>1, <1>2, <1>3, CallCounts
<1>7. /\ In(g, Reading) = 0 /\ In(g, Reading') = 0 /\ In(g, Twice) = 0 /\ In(g, Twice') = 0
      /\ In(g, Adding) = (IF queGo[g].op = "Add" THEN 1 ELSE 0) /\ In(g, Adding') = 0
  <2>1. queGo[g].op \notin Readers
    BY <1>2 DEF Readers, Writers
  <2> QED BY <1>1, <1>2, <1>3, <2>1, CallIn
<1>8. /\ queLock'.writer = {} /\ queLock'.asked = queLock.asked /\ queLock'.readers = 0
      /\ queLock' \in LockRec
  BY <1>2, <1>4, <1>5 DEF Released, LockRec
<1>9. Cardinality(Reading) = 0 /\ Cardinality(Reading') = 0 /\ Cardinality(Twice') = 0
  <2>1. 0 = Cardinality(Reading) + Cardinality(Twice)
    BY <1>1, <1>5 DEF HeldInv
  <2>2. Cardinality(Reading) = 0 /\ Cardinality(Twice) = 0
    BY <1>6, <2>1
  <2> QED BY <1>6, <1>7, <2>2
<1>10. HeldInv'
  <2>1. Writing' = {} /\ Asking' = {}
    BY <1>5, <1>6
  <2>2. queLock.asked = {}
    BY <1>1, <1>5 DEF HeldInv
  <2> QED BY <1>8, <1>9, <2>1, <2>2 DEF HeldInv
<1>11. Reading = {}
  <2>1. Reading \in SUBSET QueueGo
    BY DEF Reading
  <2>2. IsFiniteSet(Reading)
    BY <2>1, FS_Subset
  <2> QED BY <1>9, <2>2, FS_EmptySet
<1>12. \A h \in QueueGo : queGo[h].got = <<>> /\ queGo[h].at \notin {"nested", "get"}
  <2>1. SUFFICES ASSUME NEW h \in QueueGo
                 PROVE  queGo[h].got = <<>> /\ queGo[h].at \notin {"nested", "get"}
    OBVIOUS
  <2>2. ~(queGo[h].at \in {"in", "nested", "get"} /\ queGo[h].op \in Readers)
    BY <1>11 DEF Reading
  <2>3. Shape(queGo[h], que)
    BY <1>1 DEF ShapeInv
  <2> QED BY <2>2, <2>3 DEF Shape, Readers
<1>13. ASSUME que' \in Seq(1..MaxElems) PROVE ShapeInv'
  <2>1. SUFFICES ASSUME NEW h \in QueueGo PROVE Shape(queGo'[h], que')
    BY DEF ShapeInv
  <2>2. Len(<<>>) = 0 /\ Len(que') \in Nat
    BY <1>13
  <2>3. CASE h = g
    BY <1>3, <1>6, <2>2, <2>3 DEF Shape
  <2>4. CASE h # g
    <3>1. Shape(queGo[h], que) /\ queGo'[h] = queGo[h]
      BY <1>1, <1>6, <2>4 DEF ShapeInv
    <3>2. queGo[h].got = <<>> /\ queGo[h].at \notin {"nested", "get"}
      BY <1>12
    <3> QED BY <2>2, <3>1, <3>2 DEF Shape
  <2> QED BY <2>3, <2>4
<1>14. CASE SyncAdd(g)
  <2>1. /\ que' = Append(que, added + 1) /\ added' = added + 1 /\ popped' = popped
        /\ queGo[g].op = "Add"
    BY <1>14 DEF SyncAdd
  <2>2. /\ Cardinality(Adding') = Cardinality(Adding) - 1
        /\ added + Cardinality(Adding) <= MaxElems /\ Cardinality(Adding) >= 1
    BY <1>1, <1>6, <1>7, <2>1 DEF RoomInv
  <2>3. added + 1 \in 1..MaxElems
    BY <1>4, <1>6, <2>2
  <2>4. RoomInv'
    BY <1>4, <1>6, <2>1, <2>2 DEF RoomInv
  <2>5. /\ que' \in Seq(1..MaxElems) /\ Len(que') = Len(que) + 1
        /\ que'[Len(que) + 1] = added + 1
        /\ \A k \in 1..Len(que) : que'[k] = que[k]
    BY <1>4, <2>1, <2>3, SeqAppend
  <2>6. VarsInv'
    BY <1>4, <1>6, <1>8, <2>1, <2>5 DEF VarsInv
  <2>7. ElemsInv'
    <3>1. /\ Len(popped) + Len(que) = added /\ \A k \in 1..Len(popped) : popped[k] = k
          /\ \A k \in 1..Len(que) : que[k] = Len(popped) + k
      BY <1>1 DEF ElemsInv
    <3>2. ASSUME NEW k \in 1..Len(que') PROVE que'[k] = Len(popped) + k
      <4>1. k = Len(que) + 1 \/ k \in 1..Len(que)
        BY <1>4, <2>5
      <4>2. CASE k = Len(que) + 1
        BY <1>4, <2>5, <3>1, <4>2
      <4> QED BY <2>5, <3>1, <4>1, <4>2
    <3>3. Len(popped) + Len(que') = added'
      <4>1. Len(popped) \in Nat /\ Len(que) \in Nat /\ added \in Nat
        BY <1>4, LenProperties
      <4>2. Len(que') = Len(que) + 1 /\ added' = added + 1 /\ Len(popped) + Len(que) = added
        BY <2>1, <2>5, <3>1
      <4> QED BY <4>1, <4>2
    <3> QED BY <2>1, <3>1, <3>2, <3>3 DEF ElemsInv
  <2> QED BY <1>10, <1>13, <2>4, <2>5, <2>6, <2>7 DEF SyncIInv
<1>15. CASE SyncPop(g)
  <2>1. added' = added /\ queGo[g].op = "Pop"
    BY <1>15 DEF SyncPop
  <2>2. RoomInv'
    <3>1. Cardinality(Adding') = Cardinality(Adding)
      BY <1>6, <1>7, <2>1
    <3> QED BY <1>1, <2>1, <3>1 DEF RoomInv
  <2>3. CASE que = <<>> /\ que' = que /\ popped' = popped
    <3>1. VarsInv'
      BY <1>4, <1>6, <1>8, <2>1, <2>3 DEF VarsInv
    <3>2. ElemsInv'
      BY <1>1, <2>1, <2>3 DEF ElemsInv
    <3> QED BY <1>4, <1>10, <1>13, <2>2, <2>3, <3>1, <3>2 DEF SyncIInv
  <2>4. CASE que # <<>> /\ que' = Tail(que) /\ popped' = Append(popped, Head(que))
    <3>1. /\ Head(que) \in 1..MaxElems /\ Head(que) = que[1] /\ Tail(que) \in Seq(1..MaxElems)
          /\ Len(que) \in Nat \ {0} /\ Len(que') = Len(que) - 1
          /\ \A k \in 1..Len(que) - 1 : que'[k] = que[k + 1]
      BY <1>4, <2>4, SeqTail
    <3>2. /\ popped' \in Seq(1..MaxElems) /\ Len(popped') = Len(popped) + 1
          /\ popped'[Len(popped) + 1] = que[1]
          /\ \A k \in 1..Len(popped) : popped'[k] = popped[k]
      BY <1>4, <2>4, <3>1, SeqAppend
    <3>3. VarsInv'
      BY <1>4, <1>6, <1>8, <2>1, <2>4, <3>1, <3>2 DEF VarsInv
    <3>4. ElemsInv'
      <4>1. /\ Len(popped) + Len(que) = added /\ \A k \in 1..Len(popped) : popped[k] = k
            /\ \A k \in 1..Len(que) : que[k] = Len(popped) + k
        BY <1>1 DEF ElemsInv
      <4>2. ASSUME NEW k \in 1..Len(que') PROVE que'[k] = Len(popped') + k
        <5>1. k \in 1..Len(que) - 1 /\ k + 1 \in 1..Len(que)
          BY <3>1
        <5>2. que'[k] = Len(popped) + (k + 1)
          BY <3>1, <4>1, <5>1
        <5> QED BY <1>4, <3>2, <5>2
      <4>3. ASSUME NEW k \in 1..Len(popped') PROVE popped'[k] = k
        <5>1. k = Len(popped) + 1 \/ k \in 1..Len(popped)
          BY <1>4, <3>2
        <5>2. 1 \in 1..Len(que)
          BY <3>1
        <5> QED BY <1>4, <3>2, <4>1, <5>1, <5>2
      <4>4. Len(popped') + Len(que') = added'
        <5>1. Len(popped) + Len(que) = added
          BY <4>1
        <5>2. Len(popped') = Len(popped) + 1 /\ Len(que') = Len(que) - 1
          BY <3>1, <3>2
        <5>3. (Len(popped) + 1) + (Len(que) - 1) = Len(popped) + Len(que)
          BY <1>4
        <5> QED BY <2>1, <5>1, <5>2, <5>3
      <4> QED BY <4>2, <4>3, <4>4 DEF ElemsInv
    <3> QED BY <1>10, <1>13, <2>2, <2>4, <3>1, <3>3, <3>4 DEF SyncIInv
  <2> QED BY <1>15, <2>3, <2>4 DEF SyncPop
<1> QED BY <1>14, <1>15

\* The inductive invariant gives every conjunct of SyncInv.
LEMMA SyncImplied == SyncIInv => SyncInv
<1> USE SyncQueueAssumption
<1> SUFFICES ASSUME SyncIInv PROVE SyncInv
  OBVIOUS
<1>1. VarsInv /\ ShapeInv /\ ElemsInv /\ HeldInv /\ RoomInv
  BY DEF SyncIInv
<1>2. /\ que \in Seq(1..MaxElems) /\ popped \in Seq(1..MaxElems) /\ added \in Nat
      /\ Len(que) \in Nat /\ Len(popped) \in Nat
      /\ \A g \in QueueGo : queGo[g] \in CallRec /\ Shape(queGo[g], que)
  BY <1>1 DEF VarsInv, ShapeInv
<1>3. SyncTypeOK
  <2>1. Cardinality(Adding) \in Nat
    <3>1. Adding \in SUBSET QueueGo
      BY DEF Adding
    <3> QED BY <3>1, FS_Subset, FS_CardinalityType
  <2>2. added \in 0..MaxElems
    BY <1>1, <1>2, <2>1 DEF RoomInv
  <2> QED BY <1>2, <2>2 DEF SyncTypeOK, CallRec
<1>4. RangeIsSnapshot
  <2> SUFFICES ASSUME NEW g \in QueueGo
               PROVE  /\ Len(queGo[g].got) <= Len(que)
                      /\ queGo[g].got = SubSeq(que, 1, Len(queGo[g].got))
    BY DEF RangeIsSnapshot
  <2>1. /\ queGo[g].got \in Seq(1..MaxElems) /\ Len(queGo[g].got) <= Len(que)
        /\ Len(queGo[g].got) \in Nat
        /\ \A k \in 1..Len(queGo[g].got) : queGo[g].got[k] = que[k]
    BY <1>2 DEF CallRec, Shape
  <2> DEFINE n == Len(queGo[g].got)
             s == SubSeq(que, 1, n)
  <2>2. s = [k \in 1..n |-> que[k]]
    BY <1>2, <2>1
  <2>3. queGo[g].got = [k \in 1..n |-> queGo[g].got[k]]
    BY <2>1
  <2> QED BY <2>1, <2>2, <2>3
<1>5. SyncFifo
  <2>1. /\ Len(popped) + Len(que) = added /\ \A k \in 1..Len(popped) : popped[k] = k
        /\ \A k \in 1..Len(que) : que[k] = Len(popped) + k
    BY <1>1 DEF ElemsInv
  <2>2. /\ popped \o que \in Seq(1..MaxElems) /\ Len(popped \o que) = added
        /\ \A k \in 1..added : (popped \o que)[k] =
               IF k <= Len(popped) THEN popped[k] ELSE que[k - Len(popped)]
    BY <1>2, <2>1, ConcatProperties
  <2>3. ASSUME NEW k \in 1..added PROVE (popped \o que)[k] = k
    <3>1. CASE k <= Len(popped)
      BY <1>2, <2>1, <2>2, <3>1
    <3>2. CASE ~(k <= Len(popped))
      <4>1. k - Len(popped) \in 1..Len(que)
        BY <1>2, <2>1, <3>2
      <4>2. que[k - Len(popped)] = Len(popped) + (k - Len(popped))
        BY <2>1, <4>1
      <4> QED BY <1>2, <2>2, <3>2, <4>2
    <3> QED BY <3>1, <3>2
  <2>4. popped \o que = [k \in 1..added |-> (popped \o que)[k]]
    <3> DEFINE s == popped \o que
    <3>1. s \in Seq(1..MaxElems) /\ Len(s) = added
      BY <2>2
    <3> HIDE DEF s
    <3>2. s = [k \in 1..added |-> s[k]]
      BY <3>1
    <3> QED BY <3>2 DEF s
  <2> QED BY <2>3, <2>4 DEF SyncFifo
<1>6. LockAccounted
  <2>1. Cardinality(Writing \cup Asking) <= 1
    <3>1. CASE Writing \cup Asking = {}
      BY <3>1, FS_EmptySet
    <3>2. CASE Writing \cup Asking # {}
      <4>1. PICK g : g \in Writing \cup Asking
        BY <3>2
      <4>2. Writing \cup Asking = {g}
        BY <1>1, <4>1 DEF HeldInv
      <4>3. Cardinality({g}) = 1
        BY FS_Singleton
      <4> QED BY <4>2, <4>3
    <3> QED BY <3>1, <3>2
  <2>2. /\ queLock.writer = Writing /\ queLock.asked = Asking
        /\ queLock.readers = Cardinality(Reading) + Cardinality(Twice)
        /\ queLock.writer # {} => queLock.readers = 0 /\ queLock.asked = {}
    BY <1>1 DEF HeldInv
  <2> QED BY <2>1, <2>2 DEF LockAccounted, Writing, Asking, Reading, Twice
<1>7. JamIsRangeAndWriter
  <2> SUFFICES ASSUME NEW w \in QueueGo, Waits(w),
                      \A g \in QueueGo : queGo[g] # QueIdle => Waits(g)
               PROVE  queLock.asked # {} /\ \E g \in QueueGo : queGo[g].at = "nested"
    BY DEF JamIsRangeAndWriter
  <2>1. \A g \in QueueGo : queGo[g].at \in {"idle", "rlock", "ask", "lock", "nested"}
    <3> SUFFICES ASSUME NEW g \in QueueGo
                 PROVE  queGo[g].at \in {"idle", "rlock", "ask", "lock", "nested"}
      OBVIOUS
    <3>1. CASE queGo[g] = QueIdle
      BY <3>1 DEF QueIdle
    <3>2. CASE Waits(g)
      BY <3>2 DEF Waits
    <3> QED BY <3>1, <3>2
  <2>2. queLock.writer = {}
    BY <1>1, <2>1 DEF HeldInv, Writing
  <2>3. queLock.asked # {}
    <3>1. CASE queGo[w].at = "lock"
      <4>1. w \in Asking
        BY <1>2, <3>1 DEF Asking, Shape
      <4> QED BY <1>1, <4>1 DEF HeldInv
    <3> QED BY <2>2, <3>1 DEF Waits, CanRLock, CanAsk
  <2>4. PICK h \in QueueGo : h \in Asking
    BY <1>1, <2>3 DEF HeldInv, Asking
  <2>5. queGo[h].at = "lock" /\ queLock.asked = {h} /\ queGo[h] # QueIdle
    BY <1>1, <2>4 DEF HeldInv, Asking, QueIdle
  <2>6. queLock.readers # 0
    BY <2>5 DEF Waits, CanLock
  <2>7. Reading # {}
    <3>1. ASSUME Reading = {} PROVE FALSE
      <4>1. Twice = {}
        BY <3>1 DEF Reading, Twice
      <4>2. Cardinality(Reading) = 0 /\ Cardinality(Twice) = 0
        BY <3>1, <4>1, FS_EmptySet
      <4> QED BY <1>1, <2>6, <4>2 DEF HeldInv
    <3> QED BY <3>1
  <2>8. \E g \in QueueGo : queGo[g].at = "nested"
    BY <2>1, <2>7 DEF Reading
  <2> QED BY <2>3, <2>8
<1> QED BY <1>3, <1>4, <1>5, <1>6, <1>7 DEF SyncInv

\* Whatever number of goroutines use a SyncQueue, elements leave it in the
\* order they came, a range sees the queue as it is, every lock is accounted
\* for, and the only way for all to wait is a range behind a writer.
THEOREM SyncSafe == SyncSpec => []SyncInv
<1>1. ASSUME SyncIInv, [SyncNext]_syncVars PROVE SyncIInv'
  <2>1. CASE UNCHANGED syncVars
    BY <1>1, <2>1 DEF syncVars, SyncIInv, VarsInv, ShapeInv, Shape, ElemsInv, HeldInv, RoomInv,
                      Writing, Asking, Reading, Twice, Adding
  <2>2. CASE SyncNext
    <3>1. PICK g \in QueueGo : QueueOp(g) \/ \E op \in Readers \cup Writers : CallQueue(g, op)
      BY <2>2 DEF SyncNext
    <3>2. CASE \E op \in Readers \cup Writers : CallQueue(g, op)
      BY <1>1, <3>2, CallQueueStep
    <3>3. CASE QueueOp(g)
      BY <1>1, <3>3, LockStep, ReadStep, WriteStep DEF QueueOp
    <3> QED BY <3>1, <3>2, <3>3
  <2> QED BY <1>1, <2>1, <2>2
<1> QED BY <1>1, SyncInitInv, SyncImplied, PTL DEF SyncSpec

-----------------------------------------------------------------------------
(***************************************************************************)
(* The ring buffer.  The elements are the count slots from head on, around *)
(* the end of the buffer; tail is the slot after them.                     *)
(***************************************************************************)
\* Slot number i, counted from h, of a ring of n slots.
Slot(h, i, n) == IF h + i < n THEN h + i ELSE h + i - n

RingVarsInv ==
    /\ len \in Nat \ {0}
    /\ head \in 0..(len - 1) /\ tail \in 0..(len - 1) /\ count \in 0..len
    /\ DOMAIN buf = 0..(len - 1) /\ buf = [k \in 0..(len - 1) |-> buf[k]]

\* tail, without the remainder.
TailInv == head + count = tail \/ head + count = tail + len

RingIInv == RingVarsInv /\ TailInv

\* The mask of the code is a remainder, and the remainder a step around the ring.
LEMMA SlotIsRest ==
    ASSUME NEW n \in Nat \ {0}, NEW h \in 0..(n - 1), NEW i \in 0..n
    PROVE  /\ (h + i) % n = Slot(h, i, n) /\ Slot(h, i, n) \in 0..(n - 1)
           /\ \A j \in 0..n : Slot(h, j, n) = Slot(h, i, n) => i = j \/ i = j + n \/ j = i + n
<1>1. CASE h + i < n
  <2>1. h + i \in 0..(n - 1)
    BY <1>1
  <2>2. \A a \in 0..(n - 1) : a % n = a
    OBVIOUS
  <2> QED BY <1>1, <2>1, <2>2 DEF Slot
<1>2. CASE ~(h + i < n)
  <2>1. h + i \in n..(2 * n - 1)
    BY <1>2
  <2>2. \A a \in n..(2 * n - 1) : a % n = a - n
    OBVIOUS
  <2> QED BY <1>2, <2>1, <2>2 DEF Slot
<1> QED BY <1>1, <1>2

\* What resize copies: the m elements from h on, in their order.
LEMMA CopiedIs ==
    ASSUME NEW b, len \in Nat \ {0}, NEW h \in 0..(len - 1), NEW t \in 0..(len - 1),
           NEW m \in 1..len, h + m = t \/ h + m = t + len
    PROVE  /\ Len(Copied(b, h, t)) = m
           /\ \A k \in 1..m : Copied(b, h, t)[k] = b[Slot(h, k - 1, len)]
<1> DEFINE S == {b[k] : k \in Int}
<1>1. ASSUME NEW x \in Int, NEW y \in Int, x <= y
      PROVE  /\ Slice(b, x, y) \in Seq(S) /\ Len(Slice(b, x, y)) = y - x
             /\ \A k \in 1..(y - x) : Slice(b, x, y)[k] = b[x + k - 1]
  <2>1. y - x \in Nat
    BY <1>1
  <2>2. \A k \in 1..(y - x) : b[x + k - 1] \in S
    BY <1>1
  <2> HIDE DEF S
  <2>3. Slice(b, x, y) \in Seq(S)
    BY <2>1, <2>2 DEF Slice
  <2> QED BY <2>1, <2>3 DEF Slice
<1> HIDE DEF S
<1>2. CASE t > h
  <2>1. m = t - h /\ Copied(b, h, t) = Slice(b, h, t) /\ h <= t
    BY <1>2 DEF Copied
  <2>2. h \in Int /\ t \in Int
    OBVIOUS
  <2>4. /\ Len(Slice(b, h, t)) = t - h
        /\ \A k \in 1..(t - h) : Slice(b, h, t)[k] = b[h + k - 1]
    BY <1>1, <2>1, <2>2, Zenon
  <2>3. \A k \in 1..m : Slot(h, k - 1, len) = h + k - 1
    BY <1>2, <2>1 DEF Slot
  <2> QED BY <2>1, <2>3, <2>4
<1>3. CASE ~(t > h)
  <2> DEFINE u == Slice(b, h, len)
             v == Slice(b, 0, t)
  <2>0. h \in Int /\ t \in Int /\ len \in Int /\ 0 \in Int
    OBVIOUS
  <2>1. m = (len - h) + t /\ Copied(b, h, t) = u \o v /\ h <= len /\ 0 <= t
    BY <1>3 DEF Copied
  <2>2. u \in Seq(S) /\ Len(u) = len - h /\ \A k \in 1..(len - h) : u[k] = b[h + k - 1]
    BY <1>1, <2>0, <2>1, Zenon
  <2>3. v \in Seq(S) /\ Len(v) = t /\ \A k \in 1..t : v[k] = b[k - 1]
    <3>1. v \in Seq(S) /\ Len(v) = t - 0 /\ \A k \in 1..(t - 0) : v[k] = b[0 + k - 1]
      BY <1>1, <2>0, <2>1, Zenon
    <3>2. t - 0 = t /\ \A k \in 1..t : 0 + k - 1 = k - 1
      BY <2>0
    <3> HIDE DEF v
    <3> QED BY <3>1, <3>2
  <2> HIDE DEF u, v
  <2>4. /\ Len(u \o v) = m
        /\ \A k \in 1..m : (u \o v)[k] = IF k <= len - h THEN u[k] ELSE v[k - (len - h)]
    <3>1. /\ Len(u \o v) = Len(u) + Len(v)
          /\ \A k \in 1..(Len(u) + Len(v)) :
                 (u \o v)[k] = IF k <= Len(u) THEN u[k] ELSE v[k - Len(u)]
      BY <2>2, <2>3, ConcatProperties
    <3> QED BY <2>1, <2>2, <2>3, <3>1
  <2>5. ASSUME NEW k \in 1..m PROVE (u \o v)[k] = b[Slot(h, k - 1, len)]
    <3>1. CASE k <= len - h
      <4>1. k \in 1..(len - h) /\ Slot(h, k - 1, len) = h + k - 1
        BY <3>1 DEF Slot
      <4> QED BY <2>2, <2>4, <3>1, <4>1
    <3>2. CASE ~(k <= len - h)
      <4>1. k - (len - h) \in 1..t /\ Slot(h, k - 1, len) = (k - (len - h)) - 1
        BY <2>1, <3>2 DEF Slot
      <4> QED BY <2>3, <2>4, <3>2, <4>1
    <3> QED BY <3>1, <3>2
  <2> QED BY <2>1, <2>4, <2>5
<1> QED BY <1>2, <1>3

\* The queue as a sequence, as Contents has it and without remainders.
Masked(b, h, c, n) == [i \in 1..c |-> b[(h + i - 1) % n]]
Ring(b, h, c, n) == [i \in 1..c |-> b[Slot(h, i - 1, n)]]

\* They are the same, and as long as count says.
LEMMA ContentsIs ==
    ASSUME NEW b, NEW n \in Nat \ {0}, NEW h \in 0..(n - 1), NEW c \in 0..n
    PROVE  Masked(b, h, c, n) = Ring(b, h, c, n) /\ Len(Ring(b, h, c, n)) = c
<1>1. ASSUME NEW i \in 1..c PROVE (h + i - 1) % n = Slot(h, i - 1, n)
  <2>1. i - 1 \in 0..n /\ h + i - 1 = h + (i - 1)
    OBVIOUS
  <2>2. (h + (i - 1)) % n = Slot(h, i - 1, n)
    BY <2>1, SlotIsRest
  <2> QED BY <2>1, <2>2
<1>2. c \in Nat
  OBVIOUS
<1>3. Len(Ring(b, h, c, n)) = c
  BY <1>2 DEF Ring
<1> QED BY <1>1, <1>3 DEF Masked, Ring

\* Add with room: the element goes into the slot tail.
LEMMA AddStep ==
    ASSUME RingIInv, NEW e, count < len, buf' = [buf EXCEPT ![tail] = e],
           tail' = (tail + 1) % len, len' = len, head' = head, count' = count + 1
    PROVE  RingIInv' /\ Contents' = Append(Contents, e)
<1>1. len \in Nat \ {0} /\ head \in 0..(len - 1) /\ tail \in 0..(len - 1) /\ count \in 0..len
      /\ DOMAIN buf = 0..(len - 1) /\ TailInv
  BY DEF RingIInv, RingVarsInv
<1>2. tail' = Slot(tail, 1, len) /\ Slot(tail, 1, len) \in 0..(len - 1)
  BY <1>1, SlotIsRest
<1>3. RingIInv'
  <2>1. DOMAIN buf' = 0..(len - 1) /\ buf' = [k \in 0..(len - 1) |-> buf'[k]]
    BY <1>1
  <2>2. count' \in 0..len
    BY <1>1
  <2>3. TailInv'
    BY <1>1, <1>2 DEF TailInv, Slot
  <2> QED BY <1>1, <1>2, <2>1, <2>2, <2>3 DEF RingIInv, RingVarsInv
<1>4. Contents = Ring(buf, head, count, len) /\ Len(Contents) = count
  <2>1. Contents = Masked(buf, head, count, len)
    BY DEF Contents, Masked
  <2> QED BY <1>1, <2>1, ContentsIs
<1>5. Contents' = Ring(buf', head, count + 1, len)
  <2>1. count + 1 \in 0..len
    BY <1>1
  <2>2. Contents' = Masked(buf', head, count + 1, len)
    BY DEF Contents, Masked
  <2> QED BY <1>1, <2>1, <2>2, ContentsIs
<1>6. ASSUME NEW i \in 1..count PROVE buf'[Slot(head, i - 1, len)] = buf[Slot(head, i - 1, len)]
  <2>1. Slot(head, i - 1, len) # tail /\ Slot(head, i - 1, len) \in 0..(len - 1)
    BY <1>1 DEF TailInv, Slot
  <2> QED BY <1>1, <2>1
<1>7. buf'[Slot(head, (count + 1) - 1, len)] = e
  <2>1. Slot(head, (count + 1) - 1, len) = tail
    BY <1>1 DEF TailInv, Slot
  <2> QED BY <1>1, <2>1
<1>8. Append(Contents, e) = [i \in 1..(count + 1) |-> IF i = count + 1 THEN e ELSE Contents[i]]
  BY <1>1, <1>4 DEF Ring
<1>9. ASSUME NEW i \in 1..(count + 1)
      PROVE  buf'[Slot(head, i - 1, len)] = IF i = count + 1 THEN e ELSE Contents[i]
  <2>1. CASE i = count + 1
    BY <1>7, <2>1
  <2>2. CASE i # count + 1
    <3>1. i \in 1..count
      BY <1>1, <2>2
    <3> QED BY <1>4, <1>6, <2>2, <3>1 DEF Ring
  <2> QED BY <2>1, <2>2
<1> QED BY <1>3, <1>5, <1>8, <1>9 DEF Ring

\* resize: the m elements of b from h on are at the start of the new buffer f.
Packed(f, b, h, m, n) ==
    /\ DOMAIN f = 0..(2 * m - 1) /\ f = [k \in 0..(2 * m - 1) |-> f[k]]
    /\ \A k \in 1..m : f[k - 1] = b[Slot(h, k - 1, n)]

\* resize packs the elements in their order.
LEMMA ResizedIs ==
    ASSUME NEW b, len \in Nat \ {0}, NEW h \in 0..(len - 1), NEW t \in 0..(len - 1),
           NEW m \in 1..len, h + m = t \/ h + m = t + len
    PROVE  Packed(Resized(b, h, t, m), b, h, m, len)
<1> DEFINE s == Copied(b, h, t)
<1>1. Len(s) = m /\ \A k \in 1..m : s[k] = b[Slot(h, k - 1, len)]
  BY CopiedIs
<1>2. Resized(b, h, t, m) = [k \in 0..(2 * m - 1) |-> IF k < Len(s) THEN s[k + 1] ELSE Nil]
  BY DEF Resized
<1> HIDE DEF s
<1>3. ASSUME NEW k \in 1..m PROVE Resized(b, h, t, m)[k - 1] = s[k]
  <2>1. k - 1 \in 0..(2 * m - 1) /\ k - 1 < m /\ (k - 1) + 1 = k
    OBVIOUS
  <2> QED BY <1>1, <1>2, <2>1
<1>4. DOMAIN Resized(b, h, t, m) = 0..(2 * m - 1)
      /\ Resized(b, h, t, m) = [k \in 0..(2 * m - 1) |-> Resized(b, h, t, m)[k]]
  BY <1>2
<1> QED BY <1>1, <1>3, <1>4 DEF Packed

\* Add to a full buffer: it doubles, and the element comes after the others.
LEMMA GrowStep ==
    ASSUME RingIInv, NEW e, count = len, buf' = [Resized(buf, head, tail, count) EXCEPT ![count] = e],
           len' = 2 * count, head' = 0, tail' = (count + 1) % (2 * count), count' = count + 1
    PROVE  RingIInv' /\ Contents' = Append(Contents, e)
<1> DEFINE r == Resized(buf, head, tail, count)
<1>1. len \in Nat \ {0} /\ head \in 0..(len - 1) /\ tail \in 0..(len - 1) /\ count \in 1..len
      /\ TailInv
  BY DEF RingIInv, RingVarsInv
<1>2. /\ DOMAIN r = 0..(2 * count - 1) /\ r = [k \in 0..(2 * count - 1) |-> r[k]]
      /\ \A k \in 1..count : r[k - 1] = buf[Slot(head, k - 1, len)]
  <2>1. head + count = tail \/ head + count = tail + len
    BY <1>1 DEF TailInv
  <2>2. Packed(r, buf, head, count, len)
    BY <1>1, <2>1, ResizedIs
  <2> QED BY <2>2 DEF Packed
<1>3. buf' = [r EXCEPT ![count] = e]
  OBVIOUS
<1> HIDE DEF r
<1>4. /\ 2 * count \in Nat \ {0} /\ 0 \in 0..(2 * count - 1) /\ 1 \in 0..(2 * count)
      /\ count \in 0..(2 * count - 1) /\ count + 1 \in 0..(2 * count)
  BY <1>1
<1>5. tail' = Slot(count, 1, 2 * count) /\ tail' \in 0..(2 * count - 1)
  BY <1>4, SlotIsRest
<1>6. RingIInv'
  <2>1. DOMAIN buf' = 0..(2 * count - 1) /\ buf' = [k \in 0..(2 * count - 1) |-> buf'[k]]
    BY <1>2, <1>3
  <2>2. TailInv'
    BY <1>1, <1>5 DEF TailInv, Slot
  <2> QED BY <1>4, <1>5, <2>1, <2>2 DEF RingIInv, RingVarsInv
<1>7. Contents = Ring(buf, head, count, len) /\ Len(Contents) = count
  <2>1. Contents = Masked(buf, head, count, len)
    BY DEF Contents, Masked
  <2>2. count \in 0..len
    BY <1>1
  <2> QED BY <1>1, <2>1, <2>2, ContentsIs
<1>8. Contents' = Ring(buf', 0, count + 1, 2 * count)
  <2>1. Contents' = Masked(buf', 0, count + 1, 2 * count)
    BY DEF Contents, Masked
  <2> QED BY <1>4, <2>1, ContentsIs
<1>9. \A i \in 1..(count + 1) : Slot(0, i - 1, 2 * count) = i - 1
  BY <1>1 DEF Slot
<1>10. Append(Contents, e) = [i \in 1..(count + 1) |-> IF i = count + 1 THEN e ELSE Contents[i]]
  BY <1>1, <1>7 DEF Ring
<1>11. ASSUME NEW i \in 1..(count + 1)
       PROVE  buf'[Slot(0, i - 1, 2 * count)] = IF i = count + 1 THEN e ELSE Contents[i]
  <2>1. CASE i = count + 1
    <3>1. i - 1 = count
      BY <1>1, <2>1
    <3> QED BY <1>2, <1>3, <1>4, <1>9, <2>1, <3>1
  <2>2. CASE i # count + 1
    <3>1. i \in 1..count /\ i - 1 # count /\ i - 1 \in 0..(2 * count - 1)
      BY <1>1, <2>2
    <3>2. Contents[i] = r[i - 1]
      BY <1>2, <1>7, <3>1 DEF Ring
    <3>3. buf'[i - 1] = r[i - 1]
      BY <1>2, <1>3, <3>1
    <3> QED BY <1>9, <2>2, <3>2, <3>3
  <2> QED BY <2>1, <2>2
<1> QED BY <1>6, <1>8, <1>10, <1>11 DEF Ring

\* The queue without its first element.
LEMMA RingTail ==
    ASSUME NEW b, NEW n \in Nat \ {0}, NEW h \in 0..(n - 1), NEW c \in 1..n, NEW s,
           s = [i \in 1..(c - 1) |-> b[Slot(h, i, n)]]
    PROVE  s = Tail(Ring(b, h, c, n))
<1>1. c \in Nat /\ Len(Ring(b, h, c, n)) = c
  BY DEF Ring
<1>2. Tail(Ring(b, h, c, n)) = [i \in 1..(c - 1) |-> Ring(b, h, c, n)[i + 1]]
  BY <1>1 DEF Ring
<1>3. ASSUME NEW i \in 1..(c - 1) PROVE Ring(b, h, c, n)[i + 1] = b[Slot(h, i, n)]
  <2>1. i + 1 \in 1..c /\ (i + 1) - 1 = i
    BY <1>1
  <2> QED BY <2>1 DEF Ring
<1> QED BY <1>2, <1>3

\* The slot after head.
LEMMA NextSlot ==
    ASSUME RingIInv
    PROVE  (head + 1) % len = Slot(head, 1, len) /\ Slot(head, 1, len) \in 0..(len - 1)
<1>1. len \in Nat \ {0} /\ head \in 0..(len - 1) /\ 1 \in 0..len
  BY DEF RingIInv, RingVarsInv
<1> QED BY <1>1, SlotIsRest

\* Pop without a change of size.
LEMMA PopStep ==
    ASSUME RingIInv, count > 0, buf' = [buf EXCEPT ![head] = Nil], head' = (head + 1) % len,
           count' = count - 1, len' = len, tail' = tail
    PROVE  RingIInv' /\ Contents' = Tail(Contents)
<1>1. len \in Nat \ {0} /\ head \in 0..(len - 1) /\ tail \in 0..(len - 1) /\ count \in 1..len
      /\ DOMAIN buf = 0..(len - 1) /\ TailInv
  BY DEF RingIInv, RingVarsInv
<1>2. head' = Slot(head, 1, len) /\ head' \in 0..(len - 1)
  BY NextSlot
<1>3. RingIInv'
  <2>1. DOMAIN buf' = 0..(len - 1) /\ buf' = [k \in 0..(len - 1) |-> buf'[k]]
    BY <1>1
  <2>2. TailInv'
    BY <1>1, <1>2 DEF TailInv, Slot
  <2> QED BY <1>1, <1>2, <2>1, <2>2 DEF RingIInv, RingVarsInv
<1>4. Contents = Ring(buf, head, count, len)
  <2>1. Contents = Masked(buf, head, count, len)
    BY DEF Contents, Masked
  <2>2. count \in 0..len
    BY <1>1
  <2> QED BY <1>1, <2>1, <2>2, ContentsIs
<1>5. Contents' = Ring(buf', head', count - 1, len)
  <2>1. Contents' = Masked(buf', head', count - 1, len)
    BY DEF Contents, Masked
  <2>2. count - 1 \in 0..len
    BY <1>1
  <2> QED BY <1>1, <1>2, <2>1, <2>2, ContentsIs
<1>6. ASSUME NEW i \in 1..(count - 1) PROVE buf'[Slot(head', i - 1, len)] = buf[Slot(head, i, len)]
  <2>1. Slot(head', i - 1, len) = Slot(head, i, len)
    BY <1>1, <1>2 DEF Slot
  <2>2. Slot(head, i, len) # head /\ Slot(head, i, len) \in 0..(len - 1)
    BY <1>1 DEF Slot
  <2> QED BY <1>1, <2>1, <2>2
<1>7. Contents' = [i \in 1..(count - 1) |-> buf[Slot(head, i, len)]]
  BY <1>5, <1>6 DEF Ring
<1> QED BY <1>1, <1>3, <1>4, <1>7, RingTail

\* Pop that leaves a buffer a quarter full: the rest moves to a smaller one.
LEMMA ShrinkStep ==
    ASSUME RingIInv, count > 0, 4 * (count - 1) = len,
           buf' = Resized([buf EXCEPT ![head] = Nil], (head + 1) % len, tail, count - 1),
           count' = count - 1, len' = 2 * (count - 1), head' = 0, tail' = count - 1
    PROVE  RingIInv' /\ Contents' = Tail(Contents)
<1> DEFINE b == [buf EXCEPT ![head] = Nil]
           h == (head + 1) % len
           n == count - 1
<1>1. len \in Nat \ {0} /\ head \in 0..(len - 1) /\ tail \in 0..(len - 1) /\ count \in 1..len
      /\ DOMAIN buf = 0..(len - 1) /\ TailInv
  BY DEF RingIInv, RingVarsInv
<1>2. h = Slot(head, 1, len) /\ h \in 0..(len - 1)
  <2>1. (head + 1) % len = Slot(head, 1, len) /\ Slot(head, 1, len) \in 0..(len - 1)
    BY NextSlot, Zenon
  <2> QED BY <2>1, Zenon
<1>3. n \in 1..len /\ (h + n = tail \/ h + n = tail + len)
  <2>1. n \in 1..len
    BY <1>1
  <2> HIDE DEF h
  <2>2. h + n = tail \/ h + n = tail + len
    BY <1>1, <1>2 DEF TailInv, Slot
  <2> QED BY <2>1, <2>2
<1>4. buf' = Resized(b, h, tail, n) /\ len' = 2 * n /\ count' = n /\ tail' = n
  OBVIOUS
<1>5. \A i \in 1..n : b[Slot(h, i - 1, len)] = buf[Slot(head, i, len)]
  <2> HIDE DEF h
  <2> TAKE i \in 1..n
  <2>1. Slot(h, i - 1, len) = Slot(head, i, len)
    BY <1>1, <1>2 DEF Slot
  <2>2. Slot(head, i, len) # head /\ Slot(head, i, len) \in 0..(len - 1)
    BY <1>1 DEF Slot
  <2> QED BY <1>1, <2>1, <2>2
<1> HIDE DEF b, h, n
<1>6. /\ DOMAIN buf' = 0..(2 * n - 1) /\ buf' = [k \in 0..(2 * n - 1) |-> buf'[k]]
      /\ \A k \in 1..n : buf'[k - 1] = b[Slot(h, k - 1, len)]
  <2>1. Packed(Resized(b, h, tail, n), b, h, n, len)
    BY <1>1, <1>2, <1>3, ResizedIs
  <2> QED BY <1>4, <2>1 DEF Packed
<1>7. /\ 2 * n \in Nat \ {0} /\ 0 \in 0..(2 * n - 1) /\ n \in 0..(2 * n - 1) /\ n \in 0..(2 * n)
      /\ 0 + n = n
  BY <1>1, <1>3
<1>8. RingIInv'
  <2>1. TailInv'
    BY <1>4, <1>7 DEF TailInv
  <2> QED BY <1>4, <1>6, <1>7, <2>1 DEF RingIInv, RingVarsInv
<1>9. Contents = Ring(buf, head, count, len)
  <2>1. Contents = Masked(buf, head, count, len)
    BY DEF Contents, Masked
  <2>2. count \in 0..len
    BY <1>1
  <2> QED BY <1>1, <2>1, <2>2, ContentsIs
<1>10. Contents' = Ring(buf', 0, n, 2 * n)
  <2>1. Contents' = Masked(buf', 0, n, 2 * n)
    BY <1>4 DEF Contents, Masked
  <2> QED BY <1>7, <2>1, ContentsIs
<1>11. ASSUME NEW i \in 1..n PROVE buf'[Slot(0, i - 1, 2 * n)] = buf[Slot(head, i, len)]
  <2>1. Slot(0, i - 1, 2 * n) = i - 1
    BY <1>3 DEF Slot
  <2> QED BY <1>5, <1>6, <2>1
<1>12. Contents' = [i \in 1..n |-> buf[Slot(head, i, len)]]
  BY <1>10, <1>11 DEF Ring
<1> QED BY <1>1, <1>8, <1>9, <1>12, RingTail DEF n

\* What Peek, Get and Pop read: Item is ItemAt of the queue as a sequence.
LEMMA ReadIs ==
    ASSUME RingIInv
    PROVE  /\ Len(Contents) = count /\ count \in Nat
           /\ \A j \in 0..(count - 1) : Contents[j + 1] = buf[(head + j) % len]
           /\ count # 0 => Contents # <<>> /\ Contents[1] = buf[head]
           /\ count = 0 => Contents = <<>>
<1>1. len \in Nat \ {0} /\ head \in 0..(len - 1) /\ count \in 0..len /\ count \in Nat
  BY DEF RingIInv, RingVarsInv
<1>2. Len(Contents) = count
  BY <1>1 DEF Contents
<1>3. ASSUME NEW j \in 0..(count - 1) PROVE Contents[j + 1] = buf[(head + j) % len]
  <2>1. j + 1 \in 1..count /\ head + (j + 1) - 1 = head + j
    BY <1>1
  <2>2. Contents[j + 1] = buf[(head + (j + 1) - 1) % len]
    BY <2>1 DEF Contents
  <2> QED BY <2>1, <2>2
<1>4. ASSUME count # 0 PROVE Contents # <<>> /\ Contents[1] = buf[head]
  <2>1. 0 \in 0..(count - 1) /\ 0 + 1 = 1 /\ head + 0 = head
    BY <1>1, <1>4
  <2>2. Contents[1] = buf[head % len]
    BY <1>3, <2>1
  <2>3. head % len = head
    BY <1>1
  <2>4. Contents # <<>>
    BY <1>2, <1>4
  <2> QED BY <2>2, <2>3, <2>4
<1>5. ASSUME count = 0 PROVE Contents = <<>>
  BY <1>5 DEF Contents
<1> QED BY <1>1, <1>2, <1>3, <1>4, <1>5

\* The queue holds what was added to it.
ElementsInv == Contents \in Seq(Val)

\* The result as the comments have it.
LEMMA DocResIs ==
    ASSUME NEW op, NEW v, res' = Ret(op, v)
    PROVE  DocRes' = Ret(op, IF op \in {"peek", "get", "pop"} /\ v = Nil THEN Panic ELSE v)
  BY DEF DocRes, Reads, Ret

\* Every operation on the buffer is that operation on the sequence: as all
\* elements are values, a nil is returned only where there is none.
LEMMA RingRefines ==
    ASSUME RingIInv, Contents \in Seq(Val), [QueueNext]_queueVars
    PROVE  RingIInv' /\ Contents' \in Seq(Val) /\ [AsFifo!FifoNext]_AsFifo!fifoVars
<1>0. /\ Len(Contents) = count /\ count \in Nat
      /\ \A j \in 0..(count - 1) : Contents[j + 1] = buf[(head + j) % len]
      /\ count # 0 => Contents # <<>> /\ Contents[1] = buf[head]
      /\ count = 0 => Contents = <<>>
  BY ReadIs
<1>1. ASSUME UNCHANGED <<buf, len, head, tail, count>>
      PROVE  RingIInv' /\ Contents' = Contents /\ Contents' \in Seq(Val)
  <2>1. RingIInv'
    BY <1>1 DEF RingIInv, RingVarsInv, TailInv
  <2>2. Contents' = Contents
    BY <1>1 DEF Contents
  <2> QED BY <2>1, <2>2
<1>2. AsFifo!ItemAt(0) = IF count <= 0 THEN Panic ELSE buf[head]
  BY <1>0 DEF AsFifo!ItemAt
<1>3. \A j \in 0..(count - 1) : Contents[j + 1] \in Val
  <2>1. \A i \in 1..Len(Contents) : Contents[i] \in Val
    BY ElementOfSeq
  <2>2. \A j \in 0..(count - 1) : j + 1 \in 1..count
    BY <1>0
  <2> QED BY <1>0, <2>1, <2>2
<1>4. /\ count > 0 => buf[head] \in Val
      /\ \A v \in Val : v # Nil
  <2>1. count > 0 => 0 \in 0..(count - 1) /\ count # 0 /\ 0 + 1 = 1
    BY <1>0
  <2> QED BY <1>0, <1>3, <2>1, QueueAssumption
<1>5. CASE UNCHANGED queueVars
  <2>1. DocRes' = DocRes
    BY <1>5 DEF queueVars, DocRes
  <2> QED BY <1>1, <1>5, <2>1 DEF queueVars, AsFifo!fifoVars
<1>6. CASE Pop
  <2>1. CASE count <= 0
    <3>1. res' = Ret("pop", Nil) /\ UNCHANGED <<buf, len, head, tail, count>> /\ count = 0
      BY <1>0, <1>6, <2>1 DEF Pop
    <3>2. DocRes' = Ret("pop", Panic)
      BY <3>1, DocResIs
    <3>3. AsFifo!FifoPop
      BY <1>0, <1>1, <1>2, <3>1, <3>2, <2>1 DEF AsFifo!FifoPop, AsFifo!Ret, Ret
    <3> QED BY <1>1, <3>1, <3>3 DEF AsFifo!FifoNext
  <2>2. CASE count > 0
    <3>1. res' = Ret("pop", buf[head]) /\ ~(count <= 0)
      BY <1>0, <1>6, <2>2 DEF Pop
    <3>2. RingIInv' /\ Contents' = Tail(Contents)
      <4>1. CASE len > MinQueueLen /\ 4 * (count - 1) = len
        BY <1>6, <2>2, <3>1, <4>1, ShrinkStep DEF Pop
      <4>2. CASE ~(len > MinQueueLen /\ 4 * (count - 1) = len)
        BY <1>6, <2>2, <3>1, <4>2, PopStep DEF Pop
      <4> QED BY <4>1, <4>2
    <3>3. Contents' \in Seq(Val)
      BY <1>0, <2>2, <3>2, SeqTail
    <3>4. DocRes' = Ret("pop", buf[head])
      BY <1>4, <2>2, <3>1, DocResIs
    <3>5. AsFifo!FifoPop
      BY <1>0, <1>2, <2>2, <3>1, <3>2, <3>4 DEF AsFifo!FifoPop, AsFifo!Ret, Ret
    <3> QED BY <3>2, <3>3, <3>5 DEF AsFifo!FifoNext
  <2> QED BY <1>0, <2>1, <2>2
<1>7. CASE Peek
  <2>1. res' = Ret("peek", IF count <= 0 THEN Nil ELSE buf[head])
        /\ UNCHANGED <<buf, len, head, tail, count>>
    BY <1>7 DEF Peek
  <2>2. DocRes' = Ret("peek", IF count <= 0 THEN Panic ELSE buf[head])
    <3>1. CASE count <= 0
      BY <2>1, <3>1, DocResIs
    <3>2. CASE count > 0
      BY <1>0, <1>4, <2>1, <3>2, DocResIs
    <3> QED BY <1>0, <3>1, <3>2
  <2>3. AsFifo!FifoPeek
    BY <1>1, <1>2, <2>1, <2>2 DEF AsFifo!FifoPeek, AsFifo!Ret, Ret
  <2> QED BY <1>1, <2>1, <2>3 DEF AsFifo!FifoNext
<1>8. ASSUME NEW e \in Val, Add(e)
      PROVE  RingIInv' /\ Contents' \in Seq(Val) /\ [AsFifo!FifoNext]_AsFifo!fifoVars
  <2>1. RingIInv' /\ Contents' = Append(Contents, e)
    BY <1>8, AddStep, GrowStep DEF Add
  <2>2. Contents' \in Seq(Val)
    BY <2>1, SeqAppend
  <2>3. DocRes' = Ret("add", Nil)
    BY <1>8, DocResIs DEF Add
  <2>4. AsFifo!FifoAdd(e)
    BY <2>1, <2>3 DEF AsFifo!FifoAdd, AsFifo!Ret, Ret
  <2> QED BY <2>1, <2>2, <2>4 DEF AsFifo!FifoNext
<1>9. ASSUME NEW i \in (-count - 1)..count, Get(i)
      PROVE  RingIInv' /\ Contents' \in Seq(Val) /\ [AsFifo!FifoNext]_AsFifo!fifoVars
  <2> DEFINE j == IF i < 0 THEN i + count ELSE i
  <2>1. /\ res' = Ret("get", IF j < 0 \/ j >= count THEN Nil ELSE buf[(head + j) % len])
        /\ UNCHANGED <<buf, len, head, tail, count>>
    BY <1>9 DEF Get
  <2>2. j \in Int /\ (~(j < 0 \/ j >= count) <=> j \in 0..(count - 1))
    BY <1>0
  <2>3. AsFifo!ItemAt(i) = IF j \in 0..(count - 1) THEN Contents[j + 1] ELSE Panic
    BY <1>0 DEF AsFifo!ItemAt
  <2> HIDE DEF j
  <2>4. DocRes' = Ret("get", AsFifo!ItemAt(i))
    <3>1. CASE j \in 0..(count - 1)
      <4>1. res' = Ret("get", Contents[j + 1])
        BY <1>0, <2>1, <2>2, <3>1
      <4>2. Contents[j + 1] # Nil
        BY <1>3, <1>4, <3>1
      <4>3. DocRes' = Ret("get", Contents[j + 1])
        BY <4>1, <4>2, DocResIs
      <4> QED BY <2>3, <3>1, <4>3
    <3>2. CASE j \notin 0..(count - 1)
      <4>1. res' = Ret("get", Nil)
        BY <2>1, <2>2, <3>2
      <4>2. DocRes' = Ret("get", Panic)
        BY <4>1, DocResIs
      <4> QED BY <2>3, <3>2, <4>2
    <3> QED BY <3>1, <3>2
  <2>5. AsFifo!FifoGet(i)
    BY <1>1, <2>1, <2>4 DEF AsFifo!FifoGet, AsFifo!Ret, Ret
  <2> QED BY <1>0, <1>1, <2>1, <2>5 DEF AsFifo!FifoNext
<1> QED BY <1>5, <1>6, <1>7, <1>8, <1>9 DEF QueueNext

\* Through every wrap-around, doubling and shrinking queue.Queue behaves as the
\* sequence its comments describe, for any elements, minQueueLen and number of
\* elements: what Add puts in is what Peek, Get and Pop find, in that order, and
\* they return nil exactly where the comments promise a panic.
THEOREM RingImplementsFifo == QueueSpec => FifoPromise
<1>1. QueueInit => RingIInv /\ ElementsInv /\ AsFifo!FifoInit
  <2> SUFFICES ASSUME QueueInit PROVE RingIInv /\ ElementsInv /\ AsFifo!FifoInit
    OBVIOUS
  <2>1. RingIInv
    BY QueueAssumption DEF QueueInit, RingIInv, RingVarsInv, TailInv
  <2>2. Contents = <<>>
    BY <2>1, ReadIs DEF QueueInit
  <2>3. DocRes = Ret("none", Nil)
    BY DEF QueueInit, DocRes, Reads, Ret
  <2>4. AsFifo!FifoInit
    BY <2>2, <2>3 DEF AsFifo!FifoInit, AsFifo!Ret, Ret
  <2> QED BY <2>1, <2>2, <2>4 DEF ElementsInv
<1>2. RingIInv /\ ElementsInv /\ [QueueNext]_queueVars =>
          RingIInv' /\ ElementsInv' /\ [AsFifo!FifoNext]_AsFifo!fifoVars
  BY RingRefines DEF ElementsInv
<1> QED BY <1>1, <1>2, PTL DEF QueueSpec, FifoPromise, AsFifo!FifoSpec

-----------------------------------------------------------------------------
(***************************************************************************)
(* The shape of the ring buffer.  The free slots are those that follow the *)
(* elements, from number count on, counted from head.                      *)
(***************************************************************************)
RestIsNil == \A j \in count..(len - 1) : buf[Slot(head, j, len)] = Nil

\* The length is minQueueLen doubled some times: a buffer that is longer is at
\* least twice as long, so that half of it is not too short.
DoubledMin(n) == \E q \in 1..n : n = MinQueueLen * q /\ PowerOfTwo(q)

ShapedIInv ==
    RingIInv /\ QueueTypeOK /\ LenIsPowerOfTwo /\ DoubledMin(len) /\ RestIsNil

\* Twice a power of two is one.
LEMMA DoubledPower ==
    ASSUME NEW n \in Nat \ {0}, PowerOfTwo(n)
    PROVE  PowerOfTwo(2 * n)
<1> SUFFICES ASSUME NEW d \in 1..(2 * n), NEW q \in 1..(2 * n), d * q = 2 * n, d # 1, d % 2 # 0
             PROVE  FALSE
  BY DEF PowerOfTwo
<1>1. PICK e \in Nat : d = 2 * e + 1
  BY Z3
<1>2. d \in Int /\ q \in Int /\ e \in Int /\ n \in Int
  OBVIOUS
<1>3. d * q = 2 * (e * q) + q
  BY <1>1, <1>2
<1>4. PICK x \in Int : x = e * q
  BY <1>2
<1>5. q = 2 * (n - x)
  BY <1>2, <1>3, <1>4
<1>6. PICK r \in Int : r = n - x /\ q = 2 * r
  BY <1>2, <1>4, <1>5
<1>7. d * q = 2 * (d * r)
  BY <1>2, <1>6
<1>8. d * r = n
  <2>1. PICK y \in Int : y = d * r
    BY <1>2, <1>6
  <2> QED BY <1>2, <1>7, <2>1
<1>9. r \in 1..n /\ d >= 1
  BY <1>2, <1>6
<1>10. d \in 1..n
  <2>1. d * r = d + d * (r - 1) /\ d * (r - 1) >= 0
    BY <1>2, <1>9
  <2> QED BY <1>2, <1>8, <1>9, <2>1
<1> QED BY <1>8, <1>9, <1>10 DEF PowerOfTwo

\* So is the half of one that is even.
LEMMA HalvedPower ==
    ASSUME NEW n \in Nat \ {0}, PowerOfTwo(2 * n)
    PROVE  PowerOfTwo(n)
<1> SUFFICES ASSUME NEW d \in 1..n, NEW q \in 1..n, d * q = n, d # 1
             PROVE  d % 2 = 0
  BY DEF PowerOfTwo
<1>1. d \in 1..(2 * n) /\ 2 * q \in 1..(2 * n)
  OBVIOUS
<1>2. d * (2 * q) = 2 * n
  <2>1. d * (2 * q) = 2 * (d * q)
    OBVIOUS
  <2> QED BY <2>1
<1> QED BY <1>1, <1>2 DEF PowerOfTwo

\* A buffer that doubles remains a multiple of minQueueLen.
LEMMA DoubledOnce ==
    ASSUME NEW n \in Nat \ {0}, DoubledMin(n)
    PROVE  DoubledMin(2 * n)
<1>1. PICK q \in 1..n : n = MinQueueLen * q /\ PowerOfTwo(q)
  BY DEF DoubledMin
<1>2. MinQueueLen \in Nat \ {0} /\ q \in Nat \ {0}
  BY QueueAssumption
<1>3. PowerOfTwo(2 * q)
  BY <1>1, <1>2, DoubledPower
<1>4. 2 * n = MinQueueLen * (2 * q)
  <2>1. n = MinQueueLen * q
    BY <1>1
  <2>2. MinQueueLen * (2 * q) = 2 * (MinQueueLen * q)
    BY <1>2
  <2> QED BY <2>1, <2>2
<1>5. 2 * q \in 1..(2 * n)
  OBVIOUS
<1> QED BY <1>3, <1>4, <1>5 DEF DoubledMin

\* One that halves does too, unless it was the smallest.
LEMMA HalvedOnce ==
    ASSUME NEW n \in Nat \ {0}, DoubledMin(2 * n), 2 * n > MinQueueLen
    PROVE  DoubledMin(n) /\ n >= MinQueueLen
<1>1. PICK q \in 1..(2 * n) : 2 * n = MinQueueLen * q /\ PowerOfTwo(q)
  BY DEF DoubledMin
<1>2. MinQueueLen \in Nat \ {0} /\ q \in Nat \ {0}
  BY QueueAssumption
<1>3. 2 * n = MinQueueLen * q
  BY <1>1
<1>4. q # 1
  BY <1>2, <1>3
<1>5. q % 2 = 0
  <2>1. q \in 1..q /\ 1 \in 1..q /\ q * 1 = q
    BY <1>2
  <2> QED BY <1>1, <1>4, <2>1 DEF PowerOfTwo
<1>6. PICK r \in Nat \ {0} : q = 2 * r
  <2>1. \A a \in Nat \ {0} : a % 2 = 0 => \E r \in Nat \ {0} : a = 2 * r
    BY Z3
  <2> QED BY <1>2, <1>5, <2>1
<1>7. n = MinQueueLen * r
  <2>1. MinQueueLen * q = 2 * (MinQueueLen * r)
    BY <1>2, <1>6
  <2>2. PICK y \in Int : y = MinQueueLen * r
    BY <1>2, <1>6
  <2> QED BY <1>3, <2>1, <2>2
<1>8. MinQueueLen * r = MinQueueLen + MinQueueLen * (r - 1) /\ MinQueueLen * (r - 1) >= 0
      /\ MinQueueLen * r = r + (MinQueueLen - 1) * r /\ (MinQueueLen - 1) * r >= 0
  BY <1>2, <1>6
<1>9. n >= MinQueueLen /\ r \in 1..n
  BY <1>2, <1>6, <1>7, <1>8
<1>10. PowerOfTwo(r)
  BY <1>1, <1>6, HalvedPower
<1> QED BY <1>7, <1>9, <1>10 DEF DoubledMin

\* A buffer of n slots that hold elements or nil, with nil from slot m on.
Slots(f, n) == f \in [0..(n - 1) -> Val \cup {Nil}]
NilFrom(f, m, n) == \A k \in m..(n - 1) : f[k] = Nil

\* What resize leaves: the elements at the start, and nil after them.
LEMMA ResizedType ==
    ASSUME NEW b, len \in Nat \ {0}, NEW h \in 0..(len - 1), NEW t \in 0..(len - 1),
           NEW m \in 1..len, h + m = t \/ h + m = t + len,
           Slots(b, len)
    PROVE  Slots(Resized(b, h, t, m), 2 * m) /\ NilFrom(Resized(b, h, t, m), m, 2 * m)
<1> DEFINE s == Copied(b, h, t)
           f == Resized(b, h, t, m)
<1>1. Len(s) = m /\ \A k \in 1..m : s[k] = b[Slot(h, k - 1, len)]
  BY CopiedIs
<1>2. f = [k \in 0..(2 * m - 1) |-> IF k < Len(s) THEN s[k + 1] ELSE Nil]
  BY DEF Resized
<1> HIDE DEF s, f
<1>3. ASSUME NEW k \in 0..(2 * m - 1) PROVE f[k] \in Val \cup {Nil} /\ (k >= m => f[k] = Nil)
  <2>1. CASE k < m
    <3>1. k + 1 \in 1..m /\ k \in 0..len /\ (k + 1) - 1 = k
      BY <2>1
    <3>2. f[k] = b[Slot(h, k, len)]
      BY <1>1, <1>2, <2>1, <3>1
    <3>3. Slot(h, k, len) \in 0..(len - 1)
      BY <3>1, SlotIsRest
    <3> QED BY <2>1, <3>2, <3>3 DEF Slots
  <2>2. CASE ~(k < m)
    BY <1>1, <1>2, <2>2
  <2> QED BY <2>1, <2>2
<1>4. f = [k \in 0..(2 * m - 1) |-> f[k]]
  BY <1>2
<1>5. f \in [0..(2 * m - 1) -> Val \cup {Nil}]
  BY <1>3, <1>4
<1>6. \A k \in m..(2 * m - 1) : f[k] = Nil
  BY <1>3
<1> QED BY <1>5, <1>6 DEF f, Slots, NilFrom

\* The slots of a ring in use are the first count of them.
LEMMA RestIsFree == RingIInv /\ RestIsNil => FreeSlotsAreNil
<1> SUFFICES ASSUME RingIInv, RestIsNil, NEW k \in 0..(len - 1),
                    \A i \in 0..(count - 1) : (head + i) % len # k
             PROVE  buf[k] = Nil
  BY DEF FreeSlotsAreNil
<1>1. len \in Nat \ {0} /\ head \in 0..(len - 1) /\ count \in 0..len
  BY DEF RingIInv, RingVarsInv
<1>2. PICK j \in 0..(len - 1) : Slot(head, j, len) = k
  <2> DEFINE x == IF k >= head THEN k - head ELSE k - head + len
  <2>1. x \in 0..(len - 1) /\ Slot(head, x, len) = k
    BY <1>1 DEF Slot
  <2> QED BY <2>1
<1>3. (head + j) % len = k
  <2>1. j \in 0..len
    BY <1>1
  <2> QED BY <1>1, <1>2, <2>1, SlotIsRest
<1>4. ~(j \in 0..(count - 1))
  BY <1>3
<1>5. j \in count..(len - 1)
  BY <1>1, <1>4
<1> QED BY <1>2, <1>5 DEF RestIsNil

\* Add keeps the shape, whether the buffer has room or grows.
LEMMA AddShape ==
    ASSUME ShapedIInv, NEW e \in Val, Add(e)
    PROVE  ShapedIInv'
<1>1. len \in Nat \ {0} /\ head \in 0..(len - 1) /\ tail \in 0..(len - 1) /\ count \in 0..len
      /\ TailInv /\ buf \in [0..(len - 1) -> Val \cup {Nil}]
      /\ len >= MinQueueLen /\ PowerOfTwo(len)
  BY DEF ShapedIInv, RingIInv, RingVarsInv, QueueTypeOK, LenIsPowerOfTwo
<1>2. MinQueueLen \in Nat /\ DoubledMin(len)
  BY QueueAssumption DEF ShapedIInv
<1>3. RingIInv'
  BY AddStep, GrowStep DEF Add, ShapedIInv
<1>4. len' \in Nat \ {0} /\ head' \in 0..(len' - 1) /\ tail' \in 0..(len' - 1)
      /\ count' \in 0..len'
  BY <1>3 DEF RingIInv, RingVarsInv
<1>5. res' \in [op : {"none", "add", "peek", "get", "pop"}, val : Val \cup {Nil}]
  BY DEF Add, Ret
<1>6. CASE count < len
  <2>1. /\ buf' = [buf EXCEPT ![tail] = e] /\ len' = len /\ head' = head
        /\ count' = count + 1
    BY <1>1, <1>6 DEF Add
  <2>2. buf' \in [0..(len - 1) -> Val \cup {Nil}]
    BY <1>1, <2>1
  <2>3. ASSUME NEW j \in (count + 1)..(len - 1) PROVE buf'[Slot(head, j, len)] = Nil
    <3>1. j \in count..(len - 1)
      BY <1>1
    <3>2. Slot(head, j, len) # tail /\ Slot(head, j, len) \in 0..(len - 1)
      BY <1>1 DEF TailInv, Slot
    <3>3. buf[Slot(head, j, len)] = Nil
      BY <3>1 DEF ShapedIInv, RestIsNil
    <3> QED BY <1>1, <2>1, <3>2, <3>3
  <2>4. RestIsNil'
    BY <2>1, <2>3 DEF RestIsNil
  <2>5. QueueTypeOK'
    BY <1>4, <1>5, <2>1, <2>2 DEF QueueTypeOK
  <2>6. LenIsPowerOfTwo'
    BY <1>1, <2>1 DEF LenIsPowerOfTwo, PowerOfTwo
  <2>7. DoubledMin(len)'
    BY <1>2, <2>1 DEF DoubledMin, PowerOfTwo
  <2> QED BY <1>3, <2>4, <2>5, <2>6, <2>7 DEF ShapedIInv
<1>7. CASE ~(count < len)
  <2> DEFINE f == Resized(buf, head, tail, count)
  <2>1. /\ buf' = [f EXCEPT ![count] = e] /\ len' = 2 * count /\ head' = 0
        /\ count' = count + 1 /\ count = len
    BY <1>1, <1>7 DEF Add
  <2>2. count \in 1..len /\ (head + count = tail \/ head + count = tail + len)
    BY <1>1, <2>1 DEF TailInv
  <2>3. Slots(buf, len)
    BY <1>1 DEF Slots
  <2>4. /\ f \in [0..(2 * count - 1) -> Val \cup {Nil}]
        /\ \A k \in count..(2 * count - 1) : f[k] = Nil
    <3>1. len \in Nat \ {0} /\ head \in 0..(len - 1) /\ tail \in 0..(len - 1)
      BY <1>1
    <3>2. Slots(f, 2 * count) /\ NilFrom(f, count, 2 * count)
      BY <2>2, <2>3, <3>1, ResizedType
    <3> QED BY <3>2 DEF Slots, NilFrom
  <2> HIDE DEF f
  <2>5. count \in 0..(2 * count - 1)
    BY <1>1, <2>2
  <2>6. buf' \in [0..(2 * count - 1) -> Val \cup {Nil}]
    BY <2>1, <2>4, <2>5
  <2>7. ASSUME NEW j \in (count + 1)..(2 * count - 1) PROVE buf'[Slot(0, j, 2 * count)] = Nil
    <3>1. j \in count..(2 * count - 1) /\ j # count /\ Slot(0, j, 2 * count) = j
          /\ j \in 0..(2 * count - 1)
      BY <2>2 DEF Slot
    <3> QED BY <2>1, <2>4, <3>1
  <2>8. RestIsNil'
    BY <2>1, <2>7 DEF RestIsNil
  <2>9. QueueTypeOK'
    BY <1>4, <1>5, <2>1, <2>6 DEF QueueTypeOK
  <2>10. LenIsPowerOfTwo'
    <3>1. PowerOfTwo(2 * count)
      BY <1>1, <2>1, DoubledPower
    <3>2. 2 * count >= MinQueueLen
      BY <1>1, <1>2, <2>1
    <3> QED BY <2>1, <3>1, <3>2 DEF LenIsPowerOfTwo, PowerOfTwo
  <2>11. DoubledMin(len)'
    <3>1. DoubledMin(2 * count)
      BY <1>1, <1>2, <2>1, DoubledOnce
    <3> QED BY <2>1, <3>1 DEF DoubledMin, PowerOfTwo
  <2> QED BY <1>3, <2>8, <2>9, <2>10, <2>11 DEF ShapedIInv
<1> QED BY <1>6, <1>7

\* Pop keeps it: the slot it leaves becomes the last of the free ones, and a
\* buffer it makes smaller has only free slots after the elements.
LEMMA PopShape ==
    ASSUME ShapedIInv, Pop
    PROVE  ShapedIInv'
<1>1. len \in Nat \ {0} /\ head \in 0..(len - 1) /\ tail \in 0..(len - 1) /\ count \in 0..len
      /\ TailInv /\ buf \in [0..(len - 1) -> Val \cup {Nil}]
      /\ res \in [op : {"none", "add", "peek", "get", "pop"}, val : Val \cup {Nil}]
  BY DEF ShapedIInv, RingIInv, RingVarsInv, QueueTypeOK
<1>2. /\ len >= MinQueueLen /\ PowerOfTwo(len) /\ MinQueueLen \in Nat
      /\ DoubledMin(len)
  BY QueueAssumption DEF ShapedIInv, LenIsPowerOfTwo
<1>3. CASE count <= 0
  <2>1. UNCHANGED <<buf, len, head, tail, count>> /\ res' = Ret("pop", Nil)
    BY <1>1, <1>3 DEF Pop
  <2>2. QueueTypeOK'
    BY <1>1, <2>1 DEF QueueTypeOK, Ret
  <2>3. RingIInv' /\ LenIsPowerOfTwo' /\ RestIsNil'
    BY <2>1 DEF ShapedIInv, RingIInv, RingVarsInv, TailInv, LenIsPowerOfTwo, PowerOfTwo, RestIsNil
  <2>4. DoubledMin(len)'
    BY <1>2, <2>1 DEF DoubledMin, PowerOfTwo
  <2> QED BY <2>2, <2>3, <2>4 DEF ShapedIInv
<1>4. CASE count > 0
  <2> DEFINE b == [buf EXCEPT ![head] = Nil]
             h == (head + 1) % len
             n == count - 1
  <2>1. count' = n /\ res' = Ret("pop", buf[head]) /\ buf[head] \in Val \cup {Nil}
    BY <1>1, <1>4 DEF Pop
  <2>2. res' \in [op : {"none", "add", "peek", "get", "pop"}, val : Val \cup {Nil}]
    BY <2>1 DEF Ret
  <2>3. RingIInv'
    <3>1. CASE len > MinQueueLen /\ 4 * (count - 1) = len
      BY <1>1, <1>4, <3>1, ShrinkStep DEF Pop, ShapedIInv
    <3>2. CASE ~(len > MinQueueLen /\ 4 * (count - 1) = len)
      BY <1>1, <1>4, <3>2, PopStep DEF Pop, ShapedIInv
    <3> QED BY <3>1, <3>2
  <2>4. len' \in Nat \ {0} /\ head' \in 0..(len' - 1) /\ tail' \in 0..(len' - 1)
        /\ count' \in 0..len'
    BY <2>3 DEF RingIInv, RingVarsInv
  <2>5. b \in [0..(len - 1) -> Val \cup {Nil}]
    BY <1>1
  <2>6. h = Slot(head, 1, len) /\ h \in 0..(len - 1)
    <3>1. (head + 1) % len = Slot(head, 1, len) /\ Slot(head, 1, len) \in 0..(len - 1)
      BY NextSlot DEF ShapedIInv
    <3> QED BY <3>1, Zenon
  <2>7. CASE ~(len > MinQueueLen /\ 4 * n = len)
    <3>1. buf' = b /\ head' = h /\ len' = len
      BY <1>1, <1>4, <2>7 DEF Pop
    <3> HIDE DEF h
    <3>2. ASSUME NEW j \in n..(len - 1) PROVE b[Slot(h, j, len)] = Nil
      <4>1. CASE j = len - 1
        <5>1. Slot(h, j, len) = head
          BY <1>1, <2>6, <4>1 DEF Slot
        <5> QED BY <1>1, <5>1
      <4>2. CASE j # len - 1
        <5>1. j + 1 \in count..(len - 1)
          BY <1>1, <4>2
        <5>2. Slot(h, j, len) = Slot(head, j + 1, len)
          BY <1>1, <1>4, <2>6, <5>1 DEF Slot
        <5>3. Slot(head, j + 1, len) # head /\ Slot(head, j + 1, len) \in 0..(len - 1)
          BY <1>1, <1>4, <5>1 DEF Slot
        <5>4. buf[Slot(head, j + 1, len)] = Nil
          BY <5>1 DEF ShapedIInv, RestIsNil
        <5> QED BY <1>1, <5>2, <5>3, <5>4
      <4> QED BY <4>1, <4>2
    <3> HIDE DEF b, n
    <3>3. RestIsNil'
      BY <2>1, <3>1, <3>2 DEF RestIsNil
    <3>4. QueueTypeOK'
      BY <2>2, <2>4, <2>5, <3>1 DEF QueueTypeOK
    <3>5. LenIsPowerOfTwo'
      BY <1>2, <3>1 DEF LenIsPowerOfTwo, PowerOfTwo
    <3>6. DoubledMin(len)'
      BY <1>2, <3>1 DEF DoubledMin, PowerOfTwo
    <3> QED BY <2>3, <3>3, <3>4, <3>5, <3>6 DEF ShapedIInv
  <2>8. CASE len > MinQueueLen /\ 4 * n = len
    <3>1. buf' = Resized(b, h, tail, n) /\ head' = 0 /\ len' = 2 * n
      BY <1>1, <1>4, <2>8 DEF Pop
    <3>2. n \in 1..len /\ tail \in 0..(len - 1) /\ len \in Nat \ {0}
      BY <1>1, <1>4, <2>8
    <3>3. h + n = tail \/ h + n = tail + len
      <4> HIDE DEF h
      <4> QED BY <1>1, <1>4, <2>6 DEF TailInv, Slot
    <3>4. Slots(b, len)
      BY <2>5 DEF Slots
    <3> HIDE DEF b, h
    <3>5. /\ Resized(b, h, tail, n) \in [0..(2 * n - 1) -> Val \cup {Nil}]
          /\ \A k \in n..(2 * n - 1) : Resized(b, h, tail, n)[k] = Nil
      <4> HIDE DEF n
      <4>1. /\ Slots(Resized(b, h, tail, n), 2 * n)
            /\ NilFrom(Resized(b, h, tail, n), n, 2 * n)
        BY <2>6, <3>2, <3>3, <3>4, ResizedType
      <4> QED BY <4>1 DEF Slots, NilFrom
    <3>6. \A j \in n..(2 * n - 1) : Slot(0, j, 2 * n) = j
      BY <3>2 DEF Slot
    <3>7. PowerOfTwo(2 * n) /\ 2 * n >= MinQueueLen /\ DoubledMin(2 * n)
      <4>1. 2 * n \in Nat \ {0} /\ len = 2 * (2 * n)
        BY <2>8, <3>2
      <4>2. PowerOfTwo(2 * n)
        BY <1>2, <4>1, HalvedPower, Zenon
      <4>3. DoubledMin(2 * n) /\ 2 * n >= MinQueueLen
        <5>1. DoubledMin(2 * (2 * n)) /\ 2 * (2 * n) > MinQueueLen
          BY <1>2, <2>8, <4>1
        <5> QED BY <4>1, <5>1, HalvedOnce, Zenon
      <4> QED BY <4>2, <4>3
    <3> HIDE DEF n
    <3>8. RestIsNil'
      BY <2>1, <3>1, <3>5, <3>6 DEF RestIsNil
    <3>9. QueueTypeOK'
      BY <2>2, <2>4, <3>1, <3>5 DEF QueueTypeOK
    <3>10. LenIsPowerOfTwo'
      BY <3>1, <3>7 DEF LenIsPowerOfTwo, PowerOfTwo
    <3>11. DoubledMin(len)'
      BY <3>1, <3>7 DEF DoubledMin, PowerOfTwo
    <3> QED BY <2>3, <3>8, <3>9, <3>10, <3>11 DEF ShapedIInv
  <2> QED BY <2>7, <2>8
<1> QED BY <1>1, <1>3, <1>4

\* Peek and Get return an element or nil and leave the buffer as it is.
LEMMA ReadShape ==
    ASSUME ShapedIInv, UNCHANGED <<buf, len, head, tail, count>>,
           NEW op \in {"peek", "get"}, NEW v \in Val \cup {Nil}, res' = Ret(op, v)
    PROVE  ShapedIInv'
<1>1. QueueTypeOK'
  BY DEF ShapedIInv, QueueTypeOK, Ret
<1>2. RingIInv' /\ LenIsPowerOfTwo' /\ RestIsNil'
  BY DEF ShapedIInv, RingIInv, RingVarsInv, TailInv, LenIsPowerOfTwo, PowerOfTwo, RestIsNil
<1>3. DoubledMin(len)'
  BY DEF ShapedIInv, DoubledMin, PowerOfTwo
<1> QED BY <1>1, <1>2, <1>3 DEF ShapedIInv

\* For any elements, minQueueLen and number of elements, every operation leaves a
\* buffer whose length is a power of two, so that the code's mask is a remainder,
\* never shorter than minQueueLen, and with nil in every slot without an element.
THEOREM RingSafe == QueueSpec => []RingInv
<1>1. ASSUME QueueInit PROVE ShapedIInv
  <2>1. MinQueueLen \in Nat \ {0} /\ PowerOfTwo(MinQueueLen)
    BY QueueAssumption
  <2>2. RingIInv /\ QueueTypeOK
    BY <1>1, <2>1 DEF QueueInit, RingIInv, RingVarsInv, TailInv, QueueTypeOK, Ret
  <2>3. LenIsPowerOfTwo
    BY <1>1, <2>1 DEF QueueInit, LenIsPowerOfTwo
  <2>4. DoubledMin(len)
    <3>1. PowerOfTwo(1) /\ 1 \in 1..len /\ len = MinQueueLen * 1
      BY <1>1, <2>1 DEF QueueInit, PowerOfTwo
    <3> QED BY <3>1 DEF DoubledMin
  <2>5. RestIsNil
    BY <1>1, <2>1 DEF QueueInit, RestIsNil, Slot
  <2> QED BY <2>2, <2>3, <2>4, <2>5 DEF ShapedIInv
<1>2. ASSUME ShapedIInv, [QueueNext]_queueVars PROVE ShapedIInv'
  <2>0. len \in Nat \ {0} /\ head \in 0..(len - 1) /\ count \in 0..len
        /\ buf \in [0..(len - 1) -> Val \cup {Nil}]
    BY <1>2 DEF ShapedIInv, QueueTypeOK
  <2>1. CASE UNCHANGED queueVars
    <3>1. QueueTypeOK' /\ LenIsPowerOfTwo' /\ RestIsNil'
      BY <1>2, <2>1 DEF queueVars, ShapedIInv, QueueTypeOK, LenIsPowerOfTwo, PowerOfTwo, RestIsNil
    <3>2. RingIInv' /\ DoubledMin(len)'
      BY <1>2, <2>1
      DEF queueVars, ShapedIInv, RingIInv, RingVarsInv, TailInv, DoubledMin, PowerOfTwo
    <3> QED BY <3>1, <3>2 DEF ShapedIInv
  <2>2. CASE Pop
    BY <1>2, <2>2, PopShape
  <2>3. CASE Peek
    <3>1. (IF count <= 0 THEN Nil ELSE buf[head]) \in Val \cup {Nil}
      BY <2>0
    <3> QED BY <1>2, <2>3, <3>1, ReadShape DEF Peek
  <2>4. CASE \E e \in Val : Add(e)
    BY <1>2, <2>4, AddShape
  <2>5. ASSUME NEW i \in (-count - 1)..count, Get(i) PROVE ShapedIInv'
    <3> DEFINE j == IF i < 0 THEN i + count ELSE i
               v == IF j < 0 \/ j >= count THEN Nil ELSE buf[(head + j) % len]
    <3>1. res' = Ret("get", v) /\ UNCHANGED <<buf, len, head, tail, count>>
      BY <2>5 DEF Get
    <3>2. j \in Int
      BY <2>0
    <3> HIDE DEF j
    <3>3. v \in Val \cup {Nil}
      <4>1. CASE j < 0 \/ j >= count
        BY <4>1
      <4>2. CASE ~(j < 0 \/ j >= count)
        <5>1. j \in 0..len
          BY <2>0, <3>2, <4>2
        <5>2. (head + j) % len \in 0..(len - 1)
          BY <2>0, <5>1, SlotIsRest
        <5> QED BY <2>0, <4>2, <5>2
      <4> QED BY <4>1, <4>2
    <3> HIDE DEF v
    <3> QED BY <1>2, <3>1, <3>3, ReadShape
  <2> QED BY <1>2, <2>1, <2>2, <2>3, <2>4, <2>5 DEF QueueNext
<1>3. ShapedIInv => RingInv
  BY RestIsFree DEF ShapedIInv, RingInv
<1> QED BY <1>1, <1>2, <1>3, PTL DEF QueueSpec

-----------------------------------------------------------------------------
(***************************************************************************)
(* The concurrent maps.  A goroutine that holds the lock of a stripe for   *)
(* writing is alone there, so what an update read is still there; what a   *)
(* walk has passed is the stripes below the one it is at.                  *)
(***************************************************************************)
MapKeys == MapKey \cup {MapIdle.key}

MapRec ==
    [op : Walks \cup Updates \cup {"none"}, key : MapKeys, at : Nat, held : BOOLEAN,
     ret : 0..MaxVal, sum : Nat, todo : SUBSET MapKey, out : SUBSET MapKey,
     always : SUBSET MapKey, ever : SUBSET MapKey]

MapContents == [MapKey -> 0..MaxVal]

\* The stripe of a key among n, and the keys of K in the stripes below i.
IdIn(k, n) == HashCode[k] % n
Passed(K, i, n) == {k \in K : IdIn(k, n) < i}

\* What an update has read, under its lock.
UpdateSane(r, mv, n) ==
    r.op \in Updates =>
        /\ r.held /\ r.key \in MapKey /\ r.at = IdIn(r.key, n) /\ r.ret = mv[r.key]
        /\ r.op = "LockSet" => r.ret < MaxVal

\* How far a walk is: the keys of the stripes below at have been passed, and
\* of stripe at, while its lock is held, those that are not to do.
RangeSane(r, n) ==
    r.op \in Ranges =>
        /\ \A k \in r.always : /\ IdIn(k, n) < r.at => k \in r.out
                               /\ IdIn(k, n) = r.at /\ r.held => k \in r.todo \cup r.out
        /\ r.out \subseteq r.ever /\ r.todo \subseteq r.ever /\ r.todo \cap r.out = {}
        /\ \A k \in r.todo : r.held /\ IdIn(k, n) = r.at
        /\ \A k \in r.out : IdIn(k, n) < r.at \/ (r.held /\ IdIn(k, n) = r.at)

CountSane(r, n) ==
    r.op = "Len" => /\ Cardinality(Passed(r.always, r.at, n)) <= r.sum
                    /\ r.sum <= Cardinality(Passed(r.ever, r.at, n))

ClearSane(r, n) == r.op = "ClearMap" => Passed(r.always, r.at, n) = {}

WalkSane(r, mv) == r.op \in Walks => r.always \subseteq KeysOf(mv) /\ KeysOf(mv) \subseteq r.ever

HeldSane(r) == r.held => r.op \in Updates \cup Ranges

Sane(r, mv, n) ==
    /\ HeldSane(r) /\ UpdateSane(r, mv, n) /\ RangeSane(r, n) /\ CountSane(r, n)
    /\ ClearSane(r, n) /\ WalkSane(r, mv)

\* Two goroutines hold one lock only to read.
Exclusive(go) ==
    \A g, h \in MapGo :
        g # h /\ go[g].held /\ go[h].held /\ go[g].at = go[h].at => go[g].op = "RLockRange"

MapIInv ==
    /\ mapKind \in {"none", "MapEx", "Map"} /\ hashMapNum \in HashMapNums \cup {0, 1}
    /\ mapPanic \in BOOLEAN /\ mapVal \in MapContents /\ mapGo \in [MapGo -> MapRec]
    /\ mapKind = "none" => \A g \in MapGo : mapGo[g].op = "none"
    /\ mapKind # "none" => hashMapNum \in Nat \ {0}
    /\ mapKind = "Map" => hashMapNum = 1
    /\ \A g \in MapGo : Sane(mapGo[g], mapVal, hashMapNum)
    /\ Exclusive(mapGo) /\ PanicsOnlyInClear

\* A walk remembers what the map has become.
After(r, mv) ==
    IF r.op \notin Walks THEN r
    ELSE [r EXCEPT !.always = @ \cap KeysOf(mv), !.ever = @ \cup KeysOf(mv)]

\* The stripes of keys.
LEMMA Ids ==
    ASSUME NEW k \in MapKey, NEW n \in Nat \ {0}
    PROVE  IdIn(k, n) \in 0..n - 1
<1>1. HashCode[k] \in Nat
  BY UMapAssumption
<1> QED BY <1>1 DEF IdIn

\* Fewer keys are no more.
LEMMA FewerKeys ==
    ASSUME NEW K \in SUBSET MapKey, NEW L \in SUBSET K
    PROVE  /\ Cardinality(L) \in Nat /\ Cardinality(K) \in Nat
           /\ Cardinality(L) <= Cardinality(K)
<1>1. IsFiniteSet(K)
  BY UMapAssumption, FS_Subset
<1>2. IsFiniteSet(L) /\ Cardinality(L) <= Cardinality(K)
  BY <1>1, FS_Subset
<1> QED BY <1>1, <1>2, FS_CardinalityType

\* The stripes below i + 1 are those below i and stripe i.
LEMMA NextStripe ==
    ASSUME NEW K \in SUBSET MapKey, NEW i \in Nat, NEW n \in Nat \ {0}
    PROVE  /\ Passed(K, i + 1, n) = Passed(K, i, n) \cup {k \in K : IdIn(k, n) = i}
           /\ Cardinality(Passed(K, i, n)) \in Nat /\ Cardinality({k \in K : IdIn(k, n) = i}) \in Nat
           /\ Cardinality(Passed(K, i + 1, n)) =
                  Cardinality(Passed(K, i, n)) + Cardinality({k \in K : IdIn(k, n) = i})
<1> DEFINE A == Passed(K, i, n)
           B == {k \in K : IdIn(k, n) = i}
<1>1. \A k \in K : IdIn(k, n) \in Nat
  BY Ids
<1>2. Passed(K, i + 1, n) = A \cup B
  BY <1>1 DEF Passed
<1>3. A \cap B = {}
  BY <1>1 DEF Passed
<1>4. A \in SUBSET MapKey /\ B \in SUBSET MapKey
  BY DEF Passed
<1> HIDE DEF A, B
<1>5. IsFiniteSet(A) /\ IsFiniteSet(B)
  BY <1>4, UMapAssumption, FS_Subset
<1>6. Cardinality(A) \in Nat /\ Cardinality(B) \in Nat
  BY <1>5, FS_CardinalityType
<1>7. Cardinality(A \cup B) = Cardinality(A) + Cardinality(B) - Cardinality({})
  BY <1>3, <1>5, FS_Union
<1>8. Cardinality({}) = 0
  BY FS_EmptySet
<1>9. Cardinality(A \cup B) = Cardinality(A) + Cardinality(B)
  BY <1>6, <1>7, <1>8
<1> QED BY <1>2, <1>6, <1>9 DEF A, B

\* The types of what a walk remembers.
LEMMA AfterType ==
    ASSUME NEW r \in MapRec, NEW mv \in MapContents
    PROVE  /\ After(r, mv) \in MapRec
           /\ After(r, mv).op = r.op /\ After(r, mv).key = r.key /\ After(r, mv).at = r.at
           /\ After(r, mv).held = r.held /\ After(r, mv).ret = r.ret /\ After(r, mv).sum = r.sum
           /\ After(r, mv).todo = r.todo /\ After(r, mv).out = r.out
           /\ r.op \in Walks => /\ After(r, mv).always = r.always \cap KeysOf(mv)
                                /\ After(r, mv).ever = r.ever \cup KeysOf(mv)
<1>1. KeysOf(mv) \in SUBSET MapKey
  BY DEF KeysOf
<1>2. CASE r.op \notin Walks
  BY <1>2 DEF After
<1>3. CASE r.op \in Walks
  <2>1. After(r, mv) = [r EXCEPT !.always = r.always \cap KeysOf(mv), !.ever = r.ever \cup KeysOf(mv)]
    BY <1>3 DEF After
  <2> QED BY <1>1, <1>3, <2>1 DEF MapRec
<1> QED BY <1>2, <1>3

\* What a walk has promised it keeps when the map becomes mv; an update does
\* when its key keeps its value.
LEMMA SaneAfter ==
    ASSUME NEW r \in MapRec, NEW mv \in MapContents, NEW n \in Nat,
           n # 0 \/ r.op = "none",
           HeldSane(r), UpdateSane(r, mv, n), RangeSane(r, n), CountSane(r, n),
           r.op = "ClearMap" => Passed(r.always \cap KeysOf(mv), r.at, n) = {}
    PROVE  Sane(After(r, mv), mv, n)
<1> DEFINE s == After(r, mv)
<1>1. /\ s \in MapRec /\ s.op = r.op /\ s.key = r.key /\ s.at = r.at /\ s.held = r.held
      /\ s.ret = r.ret /\ s.sum = r.sum /\ s.todo = r.todo /\ s.out = r.out
      /\ r.op \in Walks => s.always = r.always \cap KeysOf(mv) /\ s.ever = r.ever \cup KeysOf(mv)
  BY AfterType
<1> HIDE DEF s
<1>2. HeldSane(s) /\ UpdateSane(s, mv, n)
  BY <1>1 DEF HeldSane, UpdateSane
<1>3. RangeSane(s, n)
  <2> SUFFICES ASSUME r.op \in Ranges PROVE RangeSane(s, n)
    BY <1>1 DEF RangeSane
  <2>1. s.always \subseteq r.always /\ r.ever \subseteq s.ever
    BY <1>1 DEF Walks
  <2> QED BY <1>1, <2>1 DEF RangeSane
<1>4. CountSane(s, n)
  <2> SUFFICES ASSUME r.op = "Len" PROVE CountSane(s, n)
    BY <1>1 DEF CountSane
  <2>1. /\ s.always \subseteq r.always /\ r.ever \subseteq s.ever /\ s.always \in SUBSET MapKey
        /\ s.ever \in SUBSET MapKey /\ r.always \in SUBSET MapKey /\ r.ever \in SUBSET MapKey
    BY <1>1 DEF Walks, MapRec
  <2>2. /\ Passed(s.always, r.at, n) \in SUBSET Passed(r.always, r.at, n)
        /\ Passed(r.ever, r.at, n) \in SUBSET Passed(s.ever, r.at, n)
        /\ Passed(r.always, r.at, n) \in SUBSET MapKey /\ Passed(s.ever, r.at, n) \in SUBSET MapKey
    BY <2>1 DEF Passed
  <2>3. /\ Cardinality(Passed(s.always, r.at, n)) \in Nat
        /\ Cardinality(Passed(r.always, r.at, n)) \in Nat
        /\ Cardinality(Passed(s.always, r.at, n)) <= Cardinality(Passed(r.always, r.at, n))
    BY <2>2, FewerKeys
  <2>4. /\ Cardinality(Passed(r.ever, r.at, n)) \in Nat
        /\ Cardinality(Passed(s.ever, r.at, n)) \in Nat
        /\ Cardinality(Passed(r.ever, r.at, n)) <= Cardinality(Passed(s.ever, r.at, n))
    BY <2>2, FewerKeys
  <2>5. r.sum \in Nat
    BY DEF MapRec
  <2> QED BY <1>1, <2>3, <2>4, <2>5 DEF CountSane
<1>5. ClearSane(s, n)
  <2>1. "ClearMap" \in Walks
    BY DEF Walks
  <2> QED BY <1>1, <2>1 DEF ClearSane
<1>6. WalkSane(s, mv)
  BY <1>1 DEF WalkSane
<1> QED BY <1>2, <1>3, <1>4, <1>5, <1>6 DEF Sane, s
\* What a goroutine must be for its step to keep the promises.
Pre(r, mv, n) ==
    /\ HeldSane(r) /\ UpdateSane(r, mv, n) /\ RangeSane(r, n) /\ CountSane(r, n)
    /\ r.op = "ClearMap" => Passed(r.always \cap KeysOf(mv), r.at, n) = {}

\* Goroutine g becomes s and the map mv: the values that other updates have
\* read stay, and g holds a lock alone or reads.
LEMMA GoStep ==
    ASSUME MapIInv, mapKind # "none", NEW g \in MapGo, NEW s \in MapRec, NEW mv \in MapContents,
           Becomes(mv, [mapGo EXCEPT ![g] = s]), Pre(s, mv, hashMapNum),
           \A h \in MapGo \ {g} :
               mapGo[h].op \in Updates => mv[mapGo[h].key] = mapVal[mapGo[h].key],
           \A h \in MapGo \ {g} :
               s.held /\ mapGo[h].held /\ mapGo[h].at = s.at =>
                   s.op = "RLockRange" /\ mapGo[h].op = "RLockRange"
    PROVE  MapIInv'
<1> DEFINE go == [mapGo EXCEPT ![g] = s]
           n == hashMapNum
<1>1. /\ go \in [MapGo -> MapRec] /\ go[g] = s /\ \A h \in MapGo \ {g} : go[h] = mapGo[h]
      /\ n \in Nat \ {0} /\ \A h \in MapGo : mapGo[h] \in MapRec
  BY DEF MapIInv
<1>2. /\ mapVal' = mv /\ UNCHANGED <<mapKind, hashMapNum, mapPanic>>
      /\ mapGo' = [h \in MapGo |-> After(go[h], mv)]
  BY DEF Becomes, After
<1> HIDE DEF go
<1>3. \A h \in MapGo : Pre(go[h], mv, n)
  <2>1. ASSUME NEW h \in MapGo \ {g} PROVE Pre(mapGo[h], mv, n)
    <3> DEFINE r == mapGo[h]
    <3>1. Sane(r, mapVal, n)
      BY DEF MapIInv
    <3>2. UpdateSane(r, mv, n)
      BY <3>1, <2>1 DEF Sane, UpdateSane
    <3>3. r.op = "ClearMap" => Passed(r.always \cap KeysOf(mv), r.at, n) = {}
      BY <3>1 DEF Sane, ClearSane, Passed
    <3> QED BY <3>1, <3>2, <3>3 DEF Sane, Pre
  <2> QED BY <1>1, <2>1
<1>4. \A h \in MapGo : Sane(After(go[h], mv), mv, n)
  <2> SUFFICES ASSUME NEW h \in MapGo PROVE Sane(After(go[h], mv), mv, n)
    OBVIOUS
  <2>1. go[h] \in MapRec /\ n \in Nat /\ n # 0
    BY <1>1
  <2>2. Pre(go[h], mv, n)
    BY <1>3
  <2> QED BY <2>1, <2>2, SaneAfter DEF Pre
<1>5. \A h \in MapGo : /\ mapGo'[h] \in MapRec /\ mapGo'[h].op = go[h].op
                       /\ mapGo'[h].at = go[h].at /\ mapGo'[h].held = go[h].held
  <2> SUFFICES ASSUME NEW h \in MapGo
               PROVE  /\ mapGo'[h] \in MapRec /\ mapGo'[h].op = go[h].op
                      /\ mapGo'[h].at = go[h].at /\ mapGo'[h].held = go[h].held
    OBVIOUS
  <2>1. go[h] \in MapRec /\ mapGo'[h] = After(go[h], mv)
    BY <1>1, <1>2
  <2> QED BY <2>1, AfterType
<1>6. mapGo' \in [MapGo -> MapRec]
  BY <1>2, <1>5
<1>7. Exclusive(mapGo)'
  <2> SUFFICES ASSUME NEW h \in MapGo, NEW j \in MapGo, h # j, go[h].held, go[j].held,
                      go[h].at = go[j].at
               PROVE  go[h].op = "RLockRange"
    BY <1>5 DEF Exclusive
  <2>1. Exclusive(mapGo)
    BY DEF MapIInv
  <2>2. CASE h = g
    BY <1>1, <2>2
  <2>3. CASE j = g
    BY <1>1, <2>3
  <2>4. CASE h # g /\ j # g
    BY <1>1, <2>1, <2>4 DEF Exclusive
  <2> QED BY <2>2, <2>3, <2>4
<1>8. \A h \in MapGo : Sane(mapGo'[h], mapVal', hashMapNum')
  BY <1>2, <1>4
<1>9. PanicsOnlyInClear'
  BY <1>2 DEF MapIInv, PanicsOnlyInClear
<1> QED BY <1>2, <1>6, <1>7, <1>8, <1>9 DEF MapIInv

\* Idle goroutines promise nothing.
LEMMA IdleSane ==
    ASSUME NEW mv, NEW n, NEW r, r.op = "none", ~r.held
    PROVE  Pre(r, mv, n) /\ Sane(r, mv, n)
BY DEF Pre, Sane, HeldSane, UpdateSane, RangeSane, CountSane, ClearSane, WalkSane, Walks, Ranges,
       Updates

\* A goroutine that uses no map is one of the model's.
LEMMA IdleType == MapIdle \in MapRec /\ MapIdle.op = "none" /\ ~MapIdle.held
<1>1. MapIdle.key \in MapKeys
  BY DEF MapKeys
<1>2. 0 \in 0..MaxVal
  BY UMapAssumption
<1> QED BY <1>1, <1>2 DEF MapIdle, MapRec

\* At the start nobody uses the map.
LEMMA MapInitInv == MapInit => MapIInv
<1> SUFFICES ASSUME MapInit PROVE MapIInv
  OBVIOUS
<1>1. mapGo \in [MapGo -> MapRec] /\ \A g \in MapGo : mapGo[g] = MapIdle
  BY IdleType DEF MapInit
<1>2. \A g \in MapGo : Sane(mapGo[g], mapVal, hashMapNum) /\ ~mapGo[g].held /\ mapGo[g].op = "none"
  BY <1>1, IdleType, IdleSane
<1>3. mapVal \in MapContents
  BY UMapAssumption DEF MapInit, MapContents
<1>7. mapPanic \in BOOLEAN
  BY DEF MapInit
<1>4. PanicsOnlyInClear
  BY DEF MapInit, PanicsOnlyInClear
<1>5. Exclusive(mapGo)
  BY <1>2 DEF Exclusive
<1>6. /\ mapKind = "none" /\ mapKind \in {"none", "MapEx", "Map"}
      /\ hashMapNum \in HashMapNums \cup {0, 1}
  BY DEF MapInit
<1> QED BY <1>1, <1>2, <1>3, <1>4, <1>5, <1>6, <1>7 DEF MapIInv

\* What the invariant says of the variables and of one goroutine.
LEMMA MapTypes ==
    ASSUME MapIInv, mapKind # "none"
    PROVE  /\ hashMapNum \in Nat \ {0} /\ mapVal \in MapContents
           /\ \A g \in MapGo : /\ mapGo[g] \in MapRec /\ Sane(mapGo[g], mapVal, hashMapNum)
                               /\ [mapGo EXCEPT ![g] = mapGo[g]] = mapGo
           /\ \A k \in MapKey : /\ mapVal[k] \in 0..MaxVal
                                /\ GetArrayIdByKey(k) = IdIn(k, hashMapNum)
                                /\ IdIn(k, hashMapNum) \in 0..hashMapNum - 1
<1>1. hashMapNum \in Nat \ {0} /\ mapVal \in MapContents /\ mapGo \in [MapGo -> MapRec]
  BY DEF MapIInv
<1>2. \A g \in MapGo : [mapGo EXCEPT ![g] = mapGo[g]] = mapGo
  BY <1>1
<1>3. \A k \in MapKey : mapVal[k] \in 0..MaxVal
  BY <1>1 DEF MapContents
<1>4. \A k \in MapKey : /\ GetArrayIdByKey(k) = IdIn(k, hashMapNum)
                        /\ IdIn(k, hashMapNum) \in 0..hashMapNum - 1
  BY <1>1, Ids DEF GetArrayIdByKey, IdIn
<1>5. \A g \in MapGo : Sane(mapGo[g], mapVal, hashMapNum)
  BY DEF MapIInv
<1> QED BY <1>1, <1>2, <1>3, <1>4, <1>5

\* Nobody is in an update of a key whose stripe nobody holds.
LEMMA FreeKeepsUpdates ==
    ASSUME MapIInv, mapKind # "none", NEW i, Free(i), NEW mv \in MapContents,
           \A k \in MapKey : mv[k] # mapVal[k] => IdIn(k, hashMapNum) = i,
           NEW h \in MapGo, mapGo[h].op \in Updates
    PROVE  mv[mapGo[h].key] = mapVal[mapGo[h].key]
<1>1. /\ mapGo[h].held /\ mapGo[h].key \in MapKey
      /\ mapGo[h].at = IdIn(mapGo[h].key, hashMapNum)
  BY MapTypes DEF Sane, UpdateSane
<1>2. mapGo[h].at # i
  BY <1>1 DEF Free
<1> QED BY <1>1, <1>2

\* Set and Del: nobody holds the lock of the stripe.
LEMMA KeyStep ==
    ASSUME MapIInv, NEW g \in MapGo, NEW k \in MapKey, NEW v \in 0..MaxVal, MapReady(g),
           Free(GetArrayIdByKey(k)), Becomes([mapVal EXCEPT ![k] = v], mapGo)
    PROVE  MapIInv'
<1> DEFINE s == mapGo[g]
           mv == [mapVal EXCEPT ![k] = v]
<1>1. mapKind # "none" /\ s.op = "none"
  BY DEF MapReady
<1>2. s \in MapRec /\ Sane(s, mapVal, hashMapNum) /\ [mapGo EXCEPT ![g] = s] = mapGo
  BY <1>1, MapTypes
<1>3. mv \in MapContents /\ \A j \in MapKey : mv[j] # mapVal[j] => j = k
  BY <1>1, MapTypes DEF MapContents
<1>4. ~s.held
  BY <1>1, <1>2 DEF Sane, HeldSane, Updates, Ranges
<1>5. Pre(s, mv, hashMapNum)
  BY <1>1, <1>4, IdleSane
<1>6. \A j \in MapKey : mv[j] # mapVal[j] => IdIn(j, hashMapNum) = GetArrayIdByKey(k)
  BY <1>1, <1>3, MapTypes
<1> HIDE DEF mv
<1>7. \A h \in MapGo : mapGo[h].op \in Updates => mv[mapGo[h].key] = mapVal[mapGo[h].key]
  BY <1>1, <1>3, <1>6, FreeKeepsUpdates
<1> HIDE DEF s
<1>8. Becomes(mv, [mapGo EXCEPT ![g] = s])
  BY <1>2 DEF mv
<1> QED BY <1>1, <1>2, <1>3, <1>4, <1>5, <1>7, <1>8, GoStep

\* LockSet and TestAndSet take a free lock and read.
LEMMA UpdateStep ==
    ASSUME MapIInv, NEW g \in MapGo, NEW k \in MapKey, LockSet(g, k) \/ TestAndSet(g, k)
    PROVE  MapIInv'
<1> DEFINE s == [MapIdle EXCEPT !.op = IF mapKind = "Map" THEN "TestAndSet" ELSE "LockSet",
                                !.key = k, !.at = IdIn(k, hashMapNum), !.held = TRUE,
                                !.ret = mapVal[k]]
<1>1. mapKind # "none" /\ mapGo[g].op = "none"
  BY DEF LockSet, TestAndSet, MapReady
<1>2. /\ hashMapNum \in Nat \ {0} /\ mapVal \in MapContents /\ mapVal[k] \in 0..MaxVal
      /\ GetArrayIdByKey(k) = IdIn(k, hashMapNum) /\ IdIn(k, hashMapNum) \in 0..hashMapNum - 1
  BY <1>1, MapTypes
<1>3. mapKind = "Map" => IdIn(k, hashMapNum) = 0
  BY <1>2 DEF MapIInv
<1>4. Becomes(mapVal, [mapGo EXCEPT ![g] = s]) /\ Free(IdIn(k, hashMapNum))
  <2>1. CASE LockSet(g, k)
    BY <1>2, <2>1 DEF LockSet, Proceeds
  <2>2. CASE TestAndSet(g, k)
    <3>1. mapKind = "Map" /\ IdIn(k, hashMapNum) = 0 /\ MapIdle.at = 0
      BY <1>3, <2>2 DEF TestAndSet, MapIdle
    <3>2. s = [MapIdle EXCEPT !.op = "TestAndSet", !.key = k, !.held = TRUE, !.ret = mapVal[k]]
      BY <3>1 DEF MapIdle
    <3> QED BY <2>2, <3>1, <3>2 DEF TestAndSet, Proceeds
  <2> QED BY <2>1, <2>2
<1>5. s.op = "LockSet" => mapVal[k] < MaxVal
  BY DEF LockSet, TestAndSet, MapIdle
<1>6. /\ s \in MapRec /\ s.op \in Updates /\ s.key = k /\ s.at = IdIn(k, hashMapNum) /\ s.held
      /\ s.ret = mapVal[k]
  <2>1. MapIdle \in MapRec /\ k \in MapKeys /\ IdIn(k, hashMapNum) \in Nat
    BY <1>2, IdleType DEF MapKeys
  <2>2. {"LockSet", "TestAndSet"} = Updates
    BY DEF Updates
  <2> QED BY <1>2, <2>1, <2>2 DEF MapRec
<1> HIDE DEF s
<1>7. Pre(s, mapVal, hashMapNum)
  BY <1>5, <1>6 DEF Pre, HeldSane, UpdateSane, RangeSane, CountSane, Updates, Ranges
<1>8. \A h \in MapGo : ~(mapGo[h].held /\ mapGo[h].at = s.at)
  BY <1>4, <1>6 DEF Free
<1> QED BY <1>1, <1>2, <1>4, <1>6, <1>7, <1>8, GoStep

\* The store of an update: what it read is there, and nobody else is there.
LEMMA StoreStep ==
    ASSUME MapIInv, NEW g \in MapGo, Store(g)
    PROVE  MapIInv'
<1> DEFINE r == mapGo[g]
           v == IF r.op = "TestAndSet" /\ r.ret # 0 THEN r.ret ELSE r.ret + 1
           mv == [mapVal EXCEPT ![r.key] = v]
<1>1. r.op \in Updates /\ Becomes(mv, [mapGo EXCEPT ![g] = MapIdle])
  BY DEF Store
<1>2. mapKind # "none"
  BY <1>1 DEF MapIInv, Updates
<1>3. r \in MapRec /\ Sane(r, mapVal, hashMapNum) /\ mapVal \in MapContents
  BY <1>2, MapTypes
<1>4. r.held /\ r.key \in MapKey /\ r.at = IdIn(r.key, hashMapNum) /\ r.ret \in 0..MaxVal
      /\ (r.op = "LockSet" => r.ret < MaxVal)
  BY <1>1, <1>3 DEF Sane, UpdateSane, MapRec
<1>5. v \in 0..MaxVal
  BY <1>1, <1>4, UMapAssumption DEF Updates
<1> HIDE DEF v
<1>6. mv \in MapContents /\ \A j \in MapKey : mv[j] # mapVal[j] => j = r.key
  BY <1>3, <1>4, <1>5 DEF MapContents
<1> HIDE DEF mv
<1>7. Pre(MapIdle, mv, hashMapNum)
  BY IdleType, IdleSane
<1>8. ASSUME NEW h \in MapGo \ {g}, mapGo[h].op \in Updates
      PROVE  mv[mapGo[h].key] = mapVal[mapGo[h].key]
  <2>1. mapGo[h].held /\ mapGo[h].key \in MapKey /\ mapGo[h].at = IdIn(mapGo[h].key, hashMapNum)
    BY <1>2, <1>8, MapTypes DEF Sane, UpdateSane
  <2>2. mapGo[h].key = r.key => mapGo[h].op = "RLockRange"
    BY <1>4, <1>8, <2>1 DEF MapIInv, Exclusive
  <2> QED BY <1>6, <1>8, <2>1, <2>2 DEF Updates
<1> HIDE DEF r
<1> QED BY <1>1, <1>2, <1>6, <1>7, <1>8, IdleType, GoStep
\* A walk begins: it has passed nothing.
LEMMA StartStep ==
    ASSUME MapIInv, NEW g \in MapGo, NEW op \in Walks, StartWalk(g, op)
    PROVE  MapIInv'
<1> DEFINE K == KeysOf(mapVal)
           s == [MapIdle EXCEPT !.op = op, !.always = K, !.ever = K]
<1>1. mapKind # "none" /\ mapGo[g].op = "none"
  BY DEF StartWalk, MapReady
<1>2. Becomes(mapVal, [mapGo EXCEPT ![g] = s])
  BY DEF StartWalk, Proceeds
<1>3. hashMapNum \in Nat \ {0} /\ mapVal \in MapContents
  BY <1>1, MapTypes
<1>4. K \in SUBSET MapKey
  BY DEF KeysOf
<1>5. /\ s \in MapRec /\ s.op = op /\ ~s.held /\ s.at = 0 /\ s.sum = 0 /\ s.todo = {} /\ s.out = {}
      /\ s.always = K /\ s.ever = K
  <2>1. /\ MapIdle \in MapRec /\ ~MapIdle.held /\ MapIdle.at = 0 /\ MapIdle.sum = 0
        /\ MapIdle.todo = {} /\ MapIdle.out = {}
    BY IdleType DEF MapIdle
  <2> QED BY <1>4, <2>1 DEF MapRec
<1>6. Passed(K, 0, hashMapNum) = {}
  <2>1. \A k \in K : IdIn(k, hashMapNum) \in 0..hashMapNum - 1
    BY <1>3, <1>4, Ids
  <2> QED BY <1>3, <2>1 DEF Passed
<1>7. Cardinality(Passed(K, 0, hashMapNum)) = 0
  BY <1>6, FS_EmptySet
<1>8. \A k \in K : ~(IdIn(k, hashMapNum) < 0)
  BY <1>6 DEF Passed
<1>9. op \notin Updates
  BY DEF Walks, Ranges, Updates
<1> HIDE DEF s, K
<1>10. Pre(s, mapVal, hashMapNum)
  <2>1. RangeSane(s, hashMapNum)
    BY <1>5, <1>8 DEF RangeSane
  <2>2. CountSane(s, hashMapNum)
    BY <1>5, <1>7 DEF CountSane
  <2>3. Passed(s.always \cap KeysOf(mapVal), s.at, hashMapNum) = {}
    BY <1>5, <1>6 DEF Passed
  <2> QED BY <1>5, <1>9, <2>1, <2>2, <2>3 DEF Pre, HeldSane, UpdateSane
<1> QED BY <1>1, <1>2, <1>3, <1>5, <1>10, GoStep

\* A walk that has passed all the stripes returns.
LEMMA EndStep ==
    ASSUME MapIInv, NEW g \in MapGo, EndWalk(g)
    PROVE  MapIInv'
<1>1. mapKind # "none" /\ Becomes(mapVal, [mapGo EXCEPT ![g] = MapIdle])
  BY DEF EndWalk, Proceeds, MapIInv, Walks, Ranges
<1>2. mapVal \in MapContents
  BY <1>1, MapTypes
<1>3. Pre(MapIdle, mapVal, hashMapNum)
  BY IdleType, IdleSane
<1> QED BY <1>1, <1>2, <1>3, IdleType, GoStep

\* Len adds the size of one stripe: the keys that stayed are there, and those
\* that are there have been.
LEMMA LenCounts ==
    ASSUME MapIInv, NEW g \in MapGo, LenStep(g)
    PROVE  MapIInv'
<1> DEFINE r == mapGo[g]
           n == hashMapNum
           S == Stripe(r.at)
           s == [r EXCEPT !.sum = r.sum + Cardinality(S), !.at = r.at + 1]
           A == {k \in r.always : IdIn(k, n) = r.at}
           E == {k \in r.ever : IdIn(k, n) = r.at}
<1>1. r.op = "Len" /\ ~r.held /\ Becomes(mapVal, [mapGo EXCEPT ![g] = s])
  BY DEF LenStep, AtStripe, Proceeds
<1>2. mapKind # "none"
  BY <1>1 DEF MapIInv
<1>3. r \in MapRec /\ Sane(r, mapVal, n) /\ n \in Nat \ {0} /\ mapVal \in MapContents
      /\ \A k \in MapKey : GetArrayIdByKey(k) = IdIn(k, n)
  BY <1>2, MapTypes
<1>4. /\ r.always \in SUBSET MapKey /\ r.ever \in SUBSET MapKey /\ r.at \in Nat /\ r.sum \in Nat
  BY <1>3 DEF MapRec
<1>5. /\ S = {k \in KeysOf(mapVal) : IdIn(k, n) = r.at}
      /\ r.always \subseteq KeysOf(mapVal) /\ KeysOf(mapVal) \subseteq r.ever
  BY <1>1, <1>3 DEF Stripe, KeysOf, Sane, WalkSane, Walks
<1>6. A \in SUBSET S /\ S \in SUBSET E /\ S \in SUBSET MapKey /\ E \in SUBSET MapKey
  BY <1>4, <1>5
<1> HIDE DEF S, A, E
<1>7. /\ Cardinality(A) \in Nat /\ Cardinality(S) \in Nat /\ Cardinality(E) \in Nat
      /\ Cardinality(A) <= Cardinality(S) /\ Cardinality(S) <= Cardinality(E)
  BY <1>6, FewerKeys
<1>8. /\ Cardinality(Passed(r.always, r.at, n)) \in Nat /\ Cardinality(Passed(r.ever, r.at, n)) \in Nat
      /\ Cardinality(Passed(r.always, r.at + 1, n)) =
             Cardinality(Passed(r.always, r.at, n)) + Cardinality(A)
      /\ Cardinality(Passed(r.ever, r.at + 1, n)) =
             Cardinality(Passed(r.ever, r.at, n)) + Cardinality(E)
  BY <1>3, <1>4, NextStripe DEF A, E
<1>9. /\ Cardinality(Passed(r.always, r.at, n)) <= r.sum
      /\ r.sum <= Cardinality(Passed(r.ever, r.at, n))
  BY <1>1, <1>3 DEF Sane, CountSane
<1>10. /\ s \in MapRec /\ s.op = "Len" /\ ~s.held /\ s.at = r.at + 1
       /\ s.sum = r.sum + Cardinality(S) /\ s.always = r.always /\ s.ever = r.ever
  <2> DEFINE c == r.sum + Cardinality(S)
             i == r.at + 1
  <2>1. c \in Nat /\ i \in Nat /\ r \in MapRec
    BY <1>3, <1>4, <1>7
  <2> HIDE DEF c, i
  <2>2. s = [r EXCEPT !.sum = c, !.at = i]
    BY DEF c, i
  <2>3. /\ s \in MapRec /\ s.op = r.op /\ s.held = r.held /\ s.at = i /\ s.sum = c
        /\ s.always = r.always /\ s.ever = r.ever
    BY <2>1, <2>2 DEF MapRec
  <2> QED BY <1>1, <2>3 DEF c, i
<1> HIDE DEF s
<1>11. CountSane(s, n)
  <2>1. Cardinality(Passed(s.always, s.at, n)) <= s.sum
    BY <1>4, <1>7, <1>8, <1>9, <1>10
  <2>2. s.sum <= Cardinality(Passed(s.ever, s.at, n))
    BY <1>4, <1>7, <1>8, <1>9, <1>10
  <2> QED BY <2>1, <2>2 DEF CountSane
<1>12. Pre(s, mapVal, n)
  BY <1>10, <1>11 DEF Pre, HeldSane, UpdateSane, RangeSane, Ranges, Updates
<1> QED BY <1>1, <1>2, <1>3, <1>10, <1>12, GoStep

\* ClearMap empties a free stripe, or finds no more of them.
LEMMA ClearStripe ==
    ASSUME MapIInv, NEW g \in MapGo, ClearStep(g)
    PROVE  MapIInv'
<1> DEFINE r == mapGo[g]
           n == hashMapNum
           S == Stripe(r.at)
           mv == [k \in MapKey |-> IF k \in S THEN 0 ELSE mapVal[k]]
           s == [r EXCEPT !.at = r.at + 1]
<1>1. r.op = "ClearMap" /\ ~r.held /\ r.at < Limit("ClearMap")
  BY DEF ClearStep, AtStripe
<1>2. mapKind # "none"
  BY <1>1 DEF MapIInv
<1>3. r \in MapRec /\ Sane(r, mapVal, n) /\ n \in Nat \ {0} /\ mapVal \in MapContents
      /\ \A k \in MapKey : /\ GetArrayIdByKey(k) = IdIn(k, n) /\ mapVal[k] \in 0..MaxVal
                           /\ IdIn(k, n) \in 0..n - 1
  BY <1>2, MapTypes
<1>4. r.at \in Nat /\ r.always \in SUBSET MapKey
  BY <1>3 DEF MapRec
<1>5. CASE r.at >= n /\ mapPanic' = TRUE /\ UNCHANGED <<mapKind, hashMapNum, mapVal, mapGo>>
  <2>1. mapKind = "MapEx" /\ n < DefaultNum
    BY <1>1, <1>3, <1>4, <1>5, UMapAssumption DEF Limit, MapIInv
  <2>2. PanicsOnlyInClear'
    BY <1>5, <2>1 DEF PanicsOnlyInClear
  <2>3. mapPanic' \in BOOLEAN
    BY <1>5
  <2> QED BY <1>5, <2>2, <2>3 DEF MapIInv
<1>6. CASE Free(r.at) /\ Becomes(mv, [mapGo EXCEPT ![g].at = @ + 1])
  <2>1. /\ s \in MapRec /\ s.op = "ClearMap" /\ ~s.held /\ s.at = r.at + 1
        /\ s.always = r.always
    BY <1>1, <1>3, <1>4 DEF MapRec
  <2>2. Becomes(mv, [mapGo EXCEPT ![g] = s])
    BY <1>6 DEF s
  <2>3. mv \in MapContents /\ \A k \in MapKey : mv[k] = IF k \in S THEN 0 ELSE mapVal[k]
    BY <1>3, UMapAssumption DEF MapContents
  <2>4. \A k \in MapKey : k \in S <=> IdIn(k, n) = r.at /\ mapVal[k] # 0
    BY <1>3 DEF Stripe
  <2> HIDE DEF S, mv, s
  <2>5. \A k \in MapKey : mv[k] # mapVal[k] => IdIn(k, n) = r.at
    BY <2>3, <2>4
  <2>6. \A h \in MapGo : mapGo[h].op \in Updates => mv[mapGo[h].key] = mapVal[mapGo[h].key]
    BY <1>2, <1>6, <2>3, <2>5, FreeKeepsUpdates
  <2>7. Passed(s.always \cap KeysOf(mv), s.at, n) = {}
    <3>1. ASSUME NEW k \in r.always, mv[k] # 0, IdIn(k, n) < r.at + 1 PROVE FALSE
      <4>1. ~(IdIn(k, n) < r.at)
        BY <1>1, <1>3 DEF Sane, ClearSane, Passed
      <4>2. k \in MapKey /\ IdIn(k, n) \in 0..n - 1
        BY <1>3, <1>4
      <4>3. IdIn(k, n) = r.at
        BY <1>3, <1>4, <3>1, <4>1, <4>2
      <4> QED BY <2>3, <2>4, <3>1, <4>2, <4>3
    <3> QED BY <2>1, <3>1 DEF Passed, KeysOf
  <2>8. Pre(s, mv, n)
    BY <2>1, <2>7 DEF Pre, HeldSane, UpdateSane, RangeSane, CountSane, Ranges, Updates
  <2> QED BY <1>2, <2>1, <2>2, <2>3, <2>6, <2>8, GoStep
<1> QED BY <1>5, <1>6 DEF ClearStep
\* A range locks a stripe: those keys are to do.
LEMMA StripeStep ==
    ASSUME MapIInv, NEW g \in MapGo, NEW op \in Ranges, LockStripe(g, op)
    PROVE  MapIInv'
<1> DEFINE r == mapGo[g]
           n == hashMapNum
           S == Stripe(r.at)
           s == [r EXCEPT !.held = TRUE, !.todo = S]
<1>1. /\ r.op = op /\ ~r.held /\ Becomes(mapVal, [mapGo EXCEPT ![g] = s])
      /\ IF op = "RLockRange" THEN FreeToRead(r.at) ELSE Free(r.at)
  BY DEF LockStripe, AtStripe, Proceeds
<1>2. mapKind # "none"
  BY <1>1 DEF MapIInv, Ranges
<1>3. r \in MapRec /\ Sane(r, mapVal, n) /\ n \in Nat \ {0} /\ mapVal \in MapContents
      /\ \A k \in MapKey : GetArrayIdByKey(k) = IdIn(k, n) /\ IdIn(k, n) \in 0..n - 1
  BY <1>2, MapTypes
<1>4. /\ r.always \in SUBSET MapKey /\ r.ever \in SUBSET MapKey /\ r.out \in SUBSET MapKey
      /\ r.at \in Nat
  BY <1>3 DEF MapRec
<1>5. /\ \A k \in MapKey : k \in S <=> k \in KeysOf(mapVal) /\ IdIn(k, n) = r.at
      /\ r.always \subseteq KeysOf(mapVal) /\ KeysOf(mapVal) \subseteq r.ever
      /\ S \in SUBSET MapKey
  BY <1>1, <1>3 DEF Stripe, KeysOf, Sane, WalkSane, Walks
<1> HIDE DEF S
<1>6. /\ s \in MapRec /\ s.op = op /\ s.held /\ s.at = r.at /\ s.todo = S /\ s.out = r.out
      /\ s.always = r.always /\ s.ever = r.ever
  BY <1>1, <1>3, <1>5 DEF MapRec
<1> HIDE DEF s
<1>7. RangeSane(r, n)
  BY <1>3 DEF Sane
<1>8. RangeSane(s, n)
  <2>1. \A k \in r.out : IdIn(k, n) < r.at
    BY <1>1, <1>7 DEF RangeSane
  <2>2. \A k \in r.out : IdIn(k, n) # r.at
    BY <1>3, <1>4, <2>1
  <2>3. S \cap r.out = {}
    BY <1>4, <1>5, <2>2
  <2>4. r.out \subseteq r.ever /\ S \subseteq r.ever
    BY <1>1, <1>5, <1>7 DEF RangeSane
  <2>5. \A k \in r.always : IdIn(k, n) = r.at => k \in S
    BY <1>4, <1>5
  <2>6. \A k \in r.always : IdIn(k, n) < r.at => k \in r.out
    BY <1>1, <1>7 DEF RangeSane
  <2>7. \A k \in S : IdIn(k, n) = r.at
    BY <1>5
  <2> QED BY <1>6, <2>1, <2>3, <2>4, <2>5, <2>6, <2>7 DEF RangeSane
<1>9. op \notin Updates /\ op # "Len" /\ op # "ClearMap"
  BY DEF Ranges, Updates
<1>10. Pre(s, mapVal, n)
  BY <1>6, <1>8, <1>9 DEF Pre, HeldSane, UpdateSane, CountSane
<1>11. \A h \in MapGo \ {g} : mapGo[h].held /\ mapGo[h].at = s.at =>
           s.op = "RLockRange" /\ mapGo[h].op = "RLockRange"
  BY <1>1, <1>6 DEF Free, FreeToRead
<1> QED BY <1>1, <1>2, <1>3, <1>6, <1>10, <1>11, GoStep

\* f is called for a key: it is done, and gone if f deletes it, which only the
\* range that holds the lock alone lets it.
LEMMA PassStep ==
    ASSUME MapIInv, NEW g \in MapGo, NEW k \in MapKey, RangeCall(g, k)
    PROVE  MapIInv'
<1> DEFINE r == mapGo[g]
           n == hashMapNum
           s == [r EXCEPT !.todo = r.todo \ {k}, !.out = r.out \cup {k}]
<1>1. r.op \in Ranges /\ k \in r.todo
  BY DEF RangeCall
<1>2. PICK v \in {mapVal[k]} \cup (IF r.op = "LockRange" THEN {0} ELSE {}) :
          Becomes([mapVal EXCEPT ![k] = v], [mapGo EXCEPT ![g].todo = @ \ {k}, ![g].out = @ \cup {k}])
  BY DEF RangeCall
<1> DEFINE mv == [mapVal EXCEPT ![k] = v]
<1>3. mapKind # "none"
  BY <1>1 DEF MapIInv, Ranges
<1>4. /\ r \in MapRec /\ Sane(r, mapVal, n) /\ n \in Nat \ {0} /\ mapVal \in MapContents
      /\ mapGo \in [MapGo -> MapRec] /\ \A j \in MapKey : mapVal[j] \in 0..MaxVal
      /\ \A j \in MapKey : IdIn(j, n) \in 0..n - 1
  BY <1>3, MapTypes DEF MapIInv
<1>5. Becomes(mv, [mapGo EXCEPT ![g] = s])
  <2>1. [mapGo EXCEPT ![g].todo = @ \ {k}, ![g].out = @ \cup {k}] = [mapGo EXCEPT ![g] = s]
    BY <1>4 DEF MapRec
  <2> QED BY <1>2, <2>1
<1>6. /\ mv \in MapContents /\ \A j \in MapKey : mv[j] # mapVal[j] => j = k
      /\ r.op # "LockRange" => \A j \in MapKey : mv[j] = mapVal[j]
  BY <1>2, <1>4, UMapAssumption DEF MapContents
<1> HIDE DEF mv
<1>7. /\ r.held /\ IdIn(k, n) = r.at /\ RangeSane(r, n)
  BY <1>1, <1>4 DEF Sane, RangeSane
<1>8. /\ s \in MapRec /\ s.op = r.op /\ s.held /\ s.at = r.at /\ s.todo = r.todo \ {k}
      /\ s.out = r.out \cup {k} /\ s.always = r.always /\ s.ever = r.ever
  BY <1>4, <1>7 DEF MapRec
<1> HIDE DEF s
<1>9. RangeSane(s, n)
  BY <1>1, <1>7, <1>8 DEF RangeSane
<1>10. r.op \notin Updates /\ r.op # "Len" /\ r.op # "ClearMap"
  BY <1>1 DEF Ranges, Updates
<1>11. Pre(s, mv, n)
  BY <1>1, <1>8, <1>9, <1>10 DEF Pre, HeldSane, UpdateSane, CountSane
<1>12. \A h \in MapGo \ {g} : mapGo[h].held /\ mapGo[h].at = r.at =>
           r.op = "RLockRange" /\ mapGo[h].op = "RLockRange"
  BY <1>7 DEF MapIInv, Exclusive
<1>13. ASSUME NEW h \in MapGo \ {g}, mapGo[h].op \in Updates
       PROVE  mv[mapGo[h].key] = mapVal[mapGo[h].key]
  <2>1. mapGo[h].held /\ mapGo[h].key \in MapKey /\ mapGo[h].at = IdIn(mapGo[h].key, n)
    BY <1>3, <1>13, MapTypes DEF Sane, UpdateSane
  <2>2. mapGo[h].key # k
    BY <1>7, <1>12, <1>13, <2>1 DEF Updates
  <2> QED BY <1>6, <2>1, <2>2
<1>14. \A h \in MapGo \ {g} : s.held /\ mapGo[h].held /\ mapGo[h].at = s.at =>
           s.op = "RLockRange" /\ mapGo[h].op = "RLockRange"
  BY <1>8, <1>12
<1> QED BY <1>3, <1>5, <1>6, <1>8, <1>11, <1>13, <1>14, GoStep

\* A range that has no key to do goes on to the next stripe.
LEMMA UnlockStep ==
    ASSUME MapIInv, NEW g \in MapGo, UnlockStripe(g)
    PROVE  MapIInv'
<1> DEFINE r == mapGo[g]
           n == hashMapNum
           s == [r EXCEPT !.held = FALSE, !.at = r.at + 1]
<1>1. /\ r.op \in Ranges /\ r.held /\ r.todo = {} /\ Becomes(mapVal, [mapGo EXCEPT ![g] = s])
  BY DEF UnlockStripe, Proceeds
<1>2. mapKind # "none"
  BY <1>1 DEF MapIInv, Ranges
<1>3. r \in MapRec /\ Sane(r, mapVal, n) /\ n \in Nat \ {0} /\ mapVal \in MapContents
      /\ \A k \in MapKey : IdIn(k, n) \in 0..n - 1
  BY <1>2, MapTypes
<1>4. /\ r.always \in SUBSET MapKey /\ r.out \in SUBSET MapKey /\ r.at \in Nat
      /\ \A k \in MapKey : IdIn(k, n) \in Nat
  BY <1>3 DEF MapRec
<1>5. /\ s \in MapRec /\ s.op = r.op /\ ~s.held /\ s.at = r.at + 1 /\ s.todo = {}
      /\ s.out = r.out /\ s.always = r.always /\ s.ever = r.ever
  <2> DEFINE i == r.at + 1
  <2>1. i \in Nat /\ r \in MapRec /\ r.todo = {}
    BY <1>1, <1>3, <1>4
  <2> HIDE DEF i
  <2>2. s = [r EXCEPT !.held = FALSE, !.at = i]
    BY DEF i
  <2>3. /\ s \in MapRec /\ s.op = r.op /\ s.held = FALSE /\ s.at = i /\ s.todo = r.todo
        /\ s.out = r.out /\ s.always = r.always /\ s.ever = r.ever
    BY <2>1, <2>2 DEF MapRec
  <2> QED BY <2>1, <2>3 DEF i
<1> HIDE DEF s
<1>6. RangeSane(r, n)
  BY <1>3 DEF Sane
<1>7. RangeSane(s, n)
  <2>1. \A k \in r.out : IdIn(k, n) < r.at \/ IdIn(k, n) = r.at
    BY <1>1, <1>6 DEF RangeSane
  <2>2. \A k \in r.out : IdIn(k, n) < r.at + 1
    BY <1>4, <2>1
  <2>3. \A k \in r.always : IdIn(k, n) < r.at \/ IdIn(k, n) = r.at => k \in r.out
    BY <1>1, <1>6 DEF RangeSane
  <2>4. \A k \in r.always : IdIn(k, n) < r.at + 1 => k \in r.out
    BY <1>4, <2>3
  <2>5. r.out \subseteq r.ever
    BY <1>1, <1>6 DEF RangeSane
  <2> QED BY <1>5, <2>2, <2>4, <2>5 DEF RangeSane
<1>8. r.op \notin Updates /\ r.op # "Len" /\ r.op # "ClearMap"
  BY <1>1 DEF Ranges, Updates
<1>9. Pre(s, mapVal, n)
  BY <1>5, <1>7, <1>8 DEF Pre, HeldSane, UpdateSane, CountSane
<1> QED BY <1>1, <1>2, <1>3, <1>5, <1>9, GoStep

\* The map is given its stripes while nobody uses it.
LEMMA MadeStep ==
    ASSUME MapIInv, (\E n \in HashMapNums : MapExInit(n)) \/ UseMap
    PROVE  MapIInv'
<1>1. /\ mapKind = "none" /\ UNCHANGED <<mapVal, mapGo, mapPanic>>
      /\ mapKind' \in {"MapEx", "Map"} /\ hashMapNum' \in HashMapNums \cup {1}
      /\ mapKind' = "Map" => hashMapNum' = 1
  BY DEF MapExInit, UseMap
<1>2. \A g \in MapGo : mapGo[g].op = "none" /\ ~mapGo[g].held
  BY <1>1 DEF MapIInv, Sane, HeldSane, Updates, Ranges
<1>3. \A g \in MapGo : Sane(mapGo[g], mapVal, hashMapNum')
  BY <1>2, IdleSane
<1>4. hashMapNum' \in Nat \ {0}
  BY <1>1, UMapAssumption
<1>5. PanicsOnlyInClear'
  BY <1>1 DEF PanicsOnlyInClear, MapIInv
<1> QED BY <1>1, <1>3, <1>4, <1>5 DEF MapIInv

\* Every step of the map keeps its promises.
LEMMA MapStep == MapIInv /\ [MapNext]_mapVars => MapIInv'
<1> SUFFICES ASSUME MapIInv, [MapNext]_mapVars PROVE MapIInv'
  OBVIOUS
<1>1. CASE UNCHANGED mapVars
  BY <1>1 DEF mapVars, MapIInv, PanicsOnlyInClear
<1>2. ASSUME NEW g \in MapGo, NEW k \in MapKey, Set(g, k) PROVE MapIInv'
  <2>1. 1 \in 0..MaxVal
    BY UMapAssumption
  <2> QED BY <1>2, <2>1, KeyStep DEF Set
<1>3. ASSUME NEW g \in MapGo, NEW k \in MapKey, Del(g, k) PROVE MapIInv'
  <2>1. 0 \in 0..MaxVal
    BY UMapAssumption
  <2> QED BY <1>3, <2>1, KeyStep DEF Del
<1> QED BY <1>1, <1>2, <1>3, UpdateStep, PassStep, StartStep, StripeStep, StoreStep, EndStep, LenCounts,
           ClearStripe, UnlockStep, MadeStep DEF MapNext

\* No update of a key is lost and no walk loses a key that stays, for any
\* goroutines, any finite set of keys and any number of stripes; only ClearMap
\* of a map with fewer stripes than the constant panics.
THEOREM MapSafe == MapSpec => []MapInv
<1>1. MapIInv => MapInv
  <2> SUFFICES ASSUME MapIInv PROVE MapInv
    OBVIOUS
  <2>1. \A g \in MapGo : mapGo[g] \in MapRec /\ Sane(mapGo[g], mapVal, hashMapNum)
    BY DEF MapIInv
  <2>2. MapTypeOK
    BY <2>1 DEF MapTypeOK, MapIInv, MapRec, MapContents
  <2>3. NoLostUpdate
    BY <2>1 DEF NoLostUpdate, Sane, UpdateSane
  <2>4. \A K, i : InStripesBelow(K, i) = Passed(K, i, hashMapNum)
    BY DEF InStripesBelow, Passed, GetArrayIdByKey, IdIn
  <2>5. ClearIsComplete
    BY <2>1, <2>4 DEF ClearIsComplete, Sane, ClearSane
  <2>6. ASSUME NEW g \in MapGo, mapGo[g].op = "Len"
        PROVE  mapGo[g].sum \in Cardinality(InStripesBelow(mapGo[g].always, mapGo[g].at))..
                                Cardinality(InStripesBelow(mapGo[g].ever, mapGo[g].at))
    <3> DEFINE r == mapGo[g]
    <3>1. r \in MapRec /\ r.always \in SUBSET MapKey /\ r.ever \in SUBSET MapKey /\ r.sum \in Nat
      BY <2>1 DEF MapRec
    <3>2. /\ Passed(r.always, r.at, hashMapNum) \in SUBSET MapKey
          /\ Passed(r.ever, r.at, hashMapNum) \in SUBSET MapKey
      BY <3>1 DEF Passed
    <3>3. /\ Cardinality(Passed(r.always, r.at, hashMapNum)) \in Nat
          /\ Cardinality(Passed(r.ever, r.at, hashMapNum)) \in Nat
      BY <3>2, FewerKeys
    <3>4. /\ Cardinality(Passed(r.always, r.at, hashMapNum)) <= r.sum
          /\ r.sum <= Cardinality(Passed(r.ever, r.at, hashMapNum))
      BY <2>1, <2>6 DEF Sane, CountSane
    <3> QED BY <2>4, <3>1, <3>3, <3>4
  <2>7. ASSUME NEW g \in MapGo, mapGo[g].op \in Ranges
        PROVE  /\ InStripesBelow(mapGo[g].always, mapGo[g].at) \subseteq mapGo[g].out
               /\ mapGo[g].out \subseteq mapGo[g].ever
               /\ mapGo[g].todo \cap mapGo[g].out = {}
    BY <2>1, <2>4, <2>7 DEF Sane, RangeSane, Passed
  <2>8. WalkIsRegular
    BY <2>6, <2>7 DEF WalkIsRegular
  <2> QED BY <2>2, <2>3, <2>5, <2>8 DEF MapInv, MapIInv
<1> QED BY MapInitInv, MapStep, <1>1, PTL DEF MapSpec

=============================================================================
