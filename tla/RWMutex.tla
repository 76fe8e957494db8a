------------------------------- MODULE RWMutex -------------------------------
(***************************************************************************)
(* sync.RWMutex as the code relies on it: a lock is a record of the        *)
(* goroutine that holds it for writing, the one that has asked to and      *)
(* waits for the readers to leave, and the number of read locks.  A writer *)
(* that waits keeps new readers out, so a goroutine that asks for a read   *)
(* lock it already holds can wait for ever.                                *)
(***************************************************************************)
EXTENDS Naturals

Unlocked == [writer |-> {}, asked |-> {}, readers |-> 0]

CanRLock(l) == l.writer = {} /\ l.asked = {}
RLocked(l) == [l EXCEPT !.readers = @ + 1]
RUnlocked(l) == [l EXCEPT !.readers = @ - 1]

\* Lock is two steps: keep new readers out, and wait until the last one left.
CanAsk(l) == l.writer = {} /\ l.asked = {}
Asked(l, g) == [l EXCEPT !.asked = {g}]
CanLock(l, g) == l.asked = {g} /\ l.readers = 0
Locked(l, g) == [l EXCEPT !.asked = {}, !.writer = {g}]
Released(l) == [l EXCEPT !.writer = {}]

=============================================================================
