-------------------------------- MODULE Fifo --------------------------------
(***************************************************************************)
(* What the comments of queue.Queue promise: a sequence that grows at one  *)
(* end, shrinks at the other and can be read at any index, from either     *)
(* end; to read where there is no element panics.  res holds the last      *)
(* operation and what it returned, or Panic.                               *)
(***************************************************************************)
EXTENDS Integers, Sequences

CONSTANTS Val,    \* the elements
          Nil,    \* what an operation without a result returns
          Panic   \* in place of a result: the call panicked

VARIABLES items, res

fifoVars == <<items, res>>

Ret(op, v) == [op |-> op, val |-> v]

FifoInit == items = <<>> /\ res = Ret("none", Nil)

FifoAdd(e) == items' = Append(items, e) /\ res' = Ret("add", Nil)

\* The element at index i, counted from the end if i is negative: the call
\* panics if the index is invalid.
ItemAt(i) ==
    LET j == IF i < 0 THEN i + Len(items) ELSE i
    IN  IF j \in 0..(Len(items) - 1) THEN items[j + 1] ELSE Panic

FifoGet(i) == res' = Ret("get", ItemAt(i)) /\ UNCHANGED items
FifoPeek == res' = Ret("peek", ItemAt(0)) /\ UNCHANGED items

\* Pop panics if the queue is empty, which stays what it is.
FifoPop ==
    /\ res' = Ret("pop", ItemAt(0))
    /\ items' = IF items = <<>> THEN <<>> ELSE Tail(items)

FifoNext ==
    \/ FifoPop \/ FifoPeek
    \/ \E e \in Val : FifoAdd(e)
    \/ \E i \in (-Len(items) - 1)..Len(items) : FifoGet(i)

FifoSpec == FifoInit /\ [][FifoNext]_fifoVars

=============================================================================
