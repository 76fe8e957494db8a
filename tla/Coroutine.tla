------------------------------ MODULE Coroutine ------------------------------
(***************************************************************************)
(* coroutine.Go and GoRecover (util/coroutine/coroutine.go): F runs a      *)
(* callback on a goroutine of its own and starts itself again when the     *)
(* callback panics, as often as recoverNum says.  The callback is the      *)
(* user's: each time it may return or panic.                               *)
(***************************************************************************)
EXTENDS Integers

CONSTANTS MaxRecoverNum   \* bound on the argument of GoRecover

VARIABLES asked,        \* the recoverNum that GoRecover was called with
          recoverNum,   \* the one of the F that runs
          at            \* none, running, returned, or gone: panicked and not started again

vars == <<asked, recoverNum, at>>

Init == asked = 0 /\ recoverNum = 0 /\ at = "none"

\* Go(callback) is GoRecover(callback, 0).
GoRecover(n) == at = "none" /\ asked' = n /\ recoverNum' = n /\ at' = "running"

\* F returns.
Returns == at = "running" /\ at' = "returned" /\ UNCHANGED <<asked, recoverNum>>

\* The callback panics, or is no function: the deferred recover of F.
Recovers ==
    /\ at = "running"
    /\ \/ /\ recoverNum = -1 \/ recoverNum - 1 >= 0
          /\ recoverNum' = recoverNum - 1 /\ UNCHANGED at
       \/ /\ recoverNum # -1 /\ recoverNum - 1 < 0
          /\ at' = "gone" /\ UNCHANGED recoverNum
    /\ UNCHANGED asked

Next == (\E n \in -1..MaxRecoverNum : GoRecover(n)) \/ Returns \/ Recovers

Spec == Init /\ [][Next]_vars

\* A callback that GoRecover runs with -1 is started again after every panic.
AlwaysRecovers == asked = -1 => at # "gone"

=============================================================================
