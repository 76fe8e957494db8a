------------------------------ MODULE RingQueue ------------------------------
(***************************************************************************)
(* queue.Queue (util/queue/queue.go), the ring buffer: Add, Peek, Get and  *)
(* Pop with the resizing in both directions.  It is not safe for several   *)
(* goroutines, so every operation is one step.                             *)
(*                                                                         *)
(* The code reduces an index with & (len(buf) - 1), which is % len(buf)    *)
(* while len(buf) is a power of two (LenIsPowerOfTwo).                     *)
(***************************************************************************)
EXTENDS Integers, Sequences

CONSTANTS Val, Nil,
          Panic,         \* the outcome of a call that panics
          MinQueueLen,   \* minQueueLen, 16 in the code
          MaxCount       \* bound on the elements in the queue

\* A power of two is a number with no odd divisor but 1.
PowerOfTwo(n) == \A d, q \in 1..n : d * q = n /\ d # 1 => d % 2 = 0

ASSUME QueueAssumption ==
    /\ Nil \notin Val /\ Panic \notin Val \cup {Nil} /\ MinQueueLen \in Nat \ {0} /\ MaxCount \in Nat
    /\ PowerOfTwo(MinQueueLen)

VARIABLES buf, len,          \* the slots, from 0, and len(buf)
          head, tail, count,
          res                \* the last operation and what it returned

queueVars == <<buf, len, head, tail, count, res>>

Ret(op, v) == [op |-> op, val |-> v]

QueueTypeOK ==
    /\ len \in Nat \ {0} /\ buf \in [0..(len - 1) -> Val \cup {Nil}]
    /\ head \in 0..(len - 1) /\ tail \in 0..(len - 1) /\ count \in 0..len
    /\ res \in [op : {"none", "add", "peek", "get", "pop"}, val : Val \cup {Nil}]

QueueInit ==
    /\ len = MinQueueLen /\ buf = [k \in 0..(MinQueueLen - 1) |-> Nil]
    /\ head = 0 /\ tail = 0 /\ count = 0 /\ res = Ret("none", Nil)

\* The elements b[from], ..., b[to - 1].
Slice(b, from, to) == [k \in 1..(to - from) |-> b[from + k - 1]]

\* Mutant of Copied: a full buffer is taken for an empty one.
CopiedFullIsEmpty(b, h, t) ==
    IF t >= h THEN Slice(b, h, t) ELSE Slice(b, h, len) \o Slice(b, 0, t)

\* What resize copies: the slots from head to tail, around the end if need be.
Copied(b, h, t) ==
    IF t > h THEN Slice(b, h, t) ELSE Slice(b, h, len) \o Slice(b, 0, t)

\* resize: a buffer of twice n slots with the elements at its start.
Resized(b, h, t, n) ==
    LET s == Copied(b, h, t)
    IN  [k \in 0..(2 * n - 1) |-> IF k < Len(s) THEN s[k + 1] ELSE Nil]

Add(e) ==
    /\ count < MaxCount
    /\ \/ /\ count < len
          /\ buf' = [buf EXCEPT ![tail] = e] /\ tail' = (tail + 1) % len
          /\ UNCHANGED <<len, head>>
       \/ /\ count = len
          /\ buf' = [Resized(buf, head, tail, count) EXCEPT ![count] = e]
          /\ len' = 2 * count /\ head' = 0 /\ tail' = (count + 1) % (2 * count)
    /\ count' = count + 1 /\ res' = Ret("add", Nil)

Peek ==
    /\ res' = Ret("peek", IF count <= 0 THEN Nil ELSE buf[head])
    /\ UNCHANGED <<buf, len, head, tail, count>>

Get(i) ==
    LET j == IF i < 0 THEN i + count ELSE i
    IN  /\ res' = Ret("get", IF j < 0 \/ j >= count THEN Nil ELSE buf[(head + j) % len])
        /\ UNCHANGED <<buf, len, head, tail, count>>

\* Mutant of Pop: the buffer shrinks as soon as it is less than half full.
PopShrinksAtHalf ==
    LET b == [buf EXCEPT ![head] = Nil]
        h == (head + 1) % len
        n == count - 1
    IN  /\ count > 0 /\ count' = n /\ res' = Ret("pop", buf[head])
        /\ \/ /\ len > MinQueueLen /\ 2 * n < len
              /\ buf' = Resized(b, h, tail, n) /\ len' = 2 * n /\ head' = 0 /\ tail' = n
           \/ /\ ~(len > MinQueueLen /\ 2 * n < len)
              /\ buf' = b /\ head' = h /\ UNCHANGED <<len, tail>>

\* Pop of an empty queue returns nil; one that leaves a large buffer a quarter
\* full makes it smaller.
Pop ==
    LET b == [buf EXCEPT ![head] = Nil]
        h == (head + 1) % len
        n == count - 1
    IN  \/ count <= 0 /\ res' = Ret("pop", Nil) /\ UNCHANGED <<buf, len, head, tail, count>>
        \/ /\ count > 0 /\ count' = n /\ res' = Ret("pop", buf[head])
           /\ \/ /\ len > MinQueueLen /\ 4 * n = len
                 /\ buf' = Resized(b, h, tail, n) /\ len' = 2 * n /\ head' = 0 /\ tail' = n
              \/ /\ ~(len > MinQueueLen /\ 4 * n = len)
                 /\ buf' = b /\ head' = h /\ UNCHANGED <<len, tail>>

QueueNext ==
    \/ Pop \/ Peek
    \/ \E e \in Val : Add(e)
    \/ \E i \in (-count - 1)..count : Get(i)

QueueSpec == QueueInit /\ [][QueueNext]_queueVars

-----------------------------------------------------------------------------
(* Properties.                                                             *)

\* The mask len(buf) - 1 is a remainder only for powers of two: growing and
\* shrinking keep the length one, and never below minQueueLen.
LenIsPowerOfTwo == len >= MinQueueLen /\ PowerOfTwo(len)

\* A slot that holds no element of the queue holds nil: Pop and resize keep no
\* reference to what has left the queue.
FreeSlotsAreNil ==
    \A k \in 0..(len - 1) :
        (\A i \in 0..(count - 1) : (head + i) % len # k) => buf[k] = Nil

\* The queue as a sequence.
Contents == [i \in 1..count |-> buf[(head + i - 1) % len]]

\* The last operation was to return an element.
Reads(r) == r.op \in {"peek", "get", "pop"}

\* The documented outcome of the last operation.  The comments of Peek, Get and
\* Pop and the tests promise a panic where there is no element; the code returns
\* nil there, and no element is nil.
DocRes == IF Reads(res) /\ res.val = Nil THEN Ret(res.op, Panic) ELSE res

AsFifo == INSTANCE Fifo WITH items <- Contents, res <- DocRes

\* Through every wrap-around and resize the ring buffer behaves as the queue its
\* comments describe, but for one promise it breaks: exactly where they have the
\* call panic it returns nil, and leaves the queue as it was.
FifoPromise == AsFifo!FifoSpec

\* The shape of the buffer in every state.
RingInv == QueueTypeOK /\ LenIsPowerOfTwo /\ FreeSlotsAreNil

=============================================================================
