-------------------------------- MODULE MCLoop --------------------------------
(***************************************************************************)
(* What the loop of a service waits for besides calls, for TLC: the timers *)
(* of a module and the events of the service.  They share no state, so a   *)
(* behaviour takes steps of one of them while the other is as it was       *)
(* created: the states add up and do not multiply.                         *)
(***************************************************************************)
EXTENDS ModuleTimer, EventProcessor

vars == <<timerVars, eventVars>>

Init == TimerInit /\ EventInit

TimerStep == EventInit /\ TimerNext /\ UNCHANGED eventVars
EventStep == TimerInit /\ EventNext /\ UNCHANGED timerVars

Next == TimerStep \/ EventStep

Spec == Init /\ [][Next]_vars /\ TimerFairness /\ EventFairness

=============================================================================
