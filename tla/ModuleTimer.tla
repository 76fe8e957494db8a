----------------------------- MODULE ModuleTimer -----------------------------
(***************************************************************************)
(* The timers of one module of a service: Timer, Cron and Dispatcher       *)
(* (util/timer/timer.go), Module.AfterFunc, Module.CronFunc and the part   *)
(* of Module.ReleaseModule that stops them (service/module.go), and the    *)
(* timer case of Service.Run (service/service.go).                         *)
(*                                                                         *)
(* The Go runtime runs the function of a timer that comes due in a         *)
(* goroutine of its own, which sends the timer to Dispatcher.ChanTimer;    *)
(* all else runs on the one goroutine of the service.  A Timer object is   *)
(* named by the order of its creation; its owner is "ex" (AfterFuncEx,     *)
(* used by Module.AfterFunc), "plain" (Dispatcher.AfterFunc) or the Cron   *)
(* whose firing it is.  Times are left out: a timer may come due any time  *)
(* after it is armed.                                                      *)
(***************************************************************************)
EXTENDS Naturals, Sequences

CONSTANTS Cron,        \* the crons the module creates
          Plain,       \* Dispatcher.AfterFunc is used as well
          ChanLen,     \* capacity of ChanTimer
          MaxTimers    \* bound on the Timer objects created

ASSUME TimerAssumption ==
    /\ Plain \in BOOLEAN /\ ChanLen \in Nat \ {0} /\ MaxTimers \in Nat \ {0}
    /\ Cron \cap {"ex", "plain"} = {}

VARIABLES
    owner,           \* the owner of each Timer object, in order of creation
    st,              \* free, armed, off (stopped in time), sending, sent
    stopped,         \* the timers whose Stop was called: Timer.cb is nil
    late,            \* history: those stopped between coming due and reaching Cb
    ChanTimer,       \* Dispatcher.ChanTimer
    crons,           \* the crons created
    cronT,           \* Cron.t of each, or 0 for nil
    mapActiveTimer,  \* Module.mapActiveTimer
    mapActiveCron,   \* Module.mapActiveCron
    cur,             \* the timer whose Cb is running, or 0
    ran,             \* history: timers whose callback was called
    released,        \* ReleaseModule was called for the module
    crashed          \* Cb called the nil function

timerVars == <<owner, st, stopped, late, ChanTimer, crons, cronT, mapActiveTimer, mapActiveCron, cur,
          ran, released, crashed>>

Ids == 1..MaxTimers
Timers == 1..Len(owner)

TimerTypeOK ==
    /\ owner \in Seq({"ex", "plain"} \cup Cron) /\ Len(owner) <= MaxTimers
    /\ st \in [Ids -> {"free", "armed", "off", "sending", "sent"}]
    /\ stopped \subseteq Timers /\ late \subseteq stopped /\ ran \subseteq Timers
    /\ ChanTimer \in Seq(Timers) /\ Len(ChanTimer) <= ChanLen
    /\ cronT \in [Cron -> Timers \cup {0}] /\ crons \subseteq Cron
    /\ mapActiveTimer \subseteq Timers /\ mapActiveCron \subseteq Cron
    /\ cur \in Timers \cup {0} /\ released \in BOOLEAN /\ crashed \in BOOLEAN

TimerInit ==
    /\ owner = <<>> /\ st = [i \in Ids |-> "free"] /\ stopped = {} /\ late = {} /\ ChanTimer = <<>>
    /\ crons = {} /\ cronT = [c \in Cron |-> 0] /\ mapActiveTimer = {} /\ mapActiveCron = {}
    /\ cur = 0 /\ ran = {} /\ released = FALSE /\ crashed = FALSE

-----------------------------------------------------------------------------
(* The runtime's timers.                                                   *)

\* time.AfterFunc: a new timer object, armed.
Arm(o) ==
    /\ Len(owner) < MaxTimers
    /\ owner' = Append(owner, o) /\ st' = [st EXCEPT ![Len(owner) + 1] = "armed"]

\* The timer comes due and its goroutine starts.
Fire(i) ==
    /\ ~crashed /\ st[i] = "armed" /\ st' = [st EXCEPT ![i] = "sending"]
    /\ UNCHANGED <<owner, stopped, late, ChanTimer, crons, cronT, mapActiveTimer, mapActiveCron, cur, ran,
                   released, crashed>>

\* Mutant of Send: the timer is dropped when the channel is full.
SendOrDrop(i) ==
    /\ ~crashed /\ st[i] = "sending" /\ st' = [st EXCEPT ![i] = "sent"]
    /\ ChanTimer' = IF Len(ChanTimer) < ChanLen THEN Append(ChanTimer, i) ELSE ChanTimer
    /\ UNCHANGED <<owner, stopped, late, crons, cronT, mapActiveTimer, mapActiveCron, cur, ran, released,
                   crashed>>

\* That goroutine sends the timer, once there is room.
Send(i) ==
    /\ ~crashed /\ st[i] = "sending" /\ Len(ChanTimer) < ChanLen
    /\ st' = [st EXCEPT ![i] = "sent"] /\ ChanTimer' = Append(ChanTimer, i)
    /\ UNCHANGED <<owner, stopped, late, crons, cronT, mapActiveTimer, mapActiveCron, cur, ran, released,
                   crashed>>

\* Timer.Stop of every timer of S: those still armed never fire, and cb is
\* cleared in all of them.
Stop(S) ==
    /\ st' = [i \in Ids |-> IF i \in S /\ st[i] = "armed" THEN "off" ELSE st[i]]
    /\ stopped' = stopped \cup S
    /\ late' = late \cup {i \in S : st[i] \in {"sending", "sent"} /\ i \notin ran}

-----------------------------------------------------------------------------
(* What the service's goroutine does, in a callback or between two.        *)

\* Module.AfterFunc.
AfterFunc ==
    /\ ~crashed /\ ~released /\ Arm("ex")
    /\ mapActiveTimer' = mapActiveTimer \cup {Len(owner) + 1}
    /\ UNCHANGED <<stopped, late, ChanTimer, crons, cronT, mapActiveCron, cur, ran, released, crashed>>

\* Dispatcher.AfterFunc.
DispatcherAfterFunc ==
    /\ ~crashed /\ Plain /\ Arm("plain")
    /\ UNCHANGED <<stopped, late, ChanTimer, crons, cronT, mapActiveTimer, mapActiveCron, cur, ran, released,
                   crashed>>

\* Module.CronFunc; an expression without a next time gives a Cron without a
\* timer.
CronFunc(c) ==
    /\ ~crashed /\ ~released /\ c \notin crons /\ crons' = crons \cup {c}
    /\ \/ Arm(c) /\ cronT' = [cronT EXCEPT ![c] = Len(owner) + 1]
       \/ UNCHANGED <<owner, st, cronT>>
    /\ mapActiveCron' = mapActiveCron \cup {c}
    /\ UNCHANGED <<stopped, late, ChanTimer, mapActiveTimer, cur, ran, released, crashed>>

\* Timer.Stop by the module's code.
TimerStop(i) ==
    /\ ~crashed /\ owner[i] \in {"ex", "plain"} /\ i \notin stopped /\ Stop({i})
    /\ UNCHANGED <<owner, ChanTimer, crons, cronT, mapActiveTimer, mapActiveCron, cur, ran, released,
                   crashed>>

\* Cron.Stop.
CronTimers(C) == {cronT[c] : c \in C} \ {0}

CronStop(c) ==
    /\ ~crashed /\ c \in crons /\ Stop(CronTimers({c}))
    /\ UNCHANGED <<owner, ChanTimer, crons, cronT, mapActiveTimer, mapActiveCron, cur, ran, released,
                   crashed>>

\* ReleaseModule stops what the two maps hold and drops the maps.
ReleaseTimers ==
    /\ ~crashed /\ ~released /\ released' = TRUE
    /\ Stop(mapActiveTimer \cup CronTimers(mapActiveCron))
    /\ mapActiveTimer' = {} /\ mapActiveCron' = {}
    /\ UNCHANGED <<owner, ChanTimer, crons, cronT, cur, ran, crashed>>

-----------------------------------------------------------------------------
(* Service.Run takes a timer and calls Cb.                                 *)

\* The function the dispatcher gave timer i is nil: Stop cleared cb, and only
\* AfterFuncEx uses cbex.
NilCb(i) == i \in stopped /\ owner[i] # "ex"

\* Mutant of Rearm: the next firing is not stored in Cron.t.
RearmUnstored(c) == (Arm(c) \/ UNCHANGED <<owner, st>>) /\ UNCHANGED cronT

\* The function of a cron's timer arms the next firing, if there is one, and
\* calls the callback last (defer).
Rearm(c) ==
    \/ Arm(c) /\ cronT' = [cronT EXCEPT ![c] = Len(owner) + 1]
    \/ UNCHANGED <<owner, st, cronT>>

Cb ==
    LET i == Head(ChanTimer)
    IN  /\ ~crashed /\ cur = 0 /\ ChanTimer # <<>>
        /\ ChanTimer' = Tail(ChanTimer)
        /\ \/ NilCb(i) /\ crashed' = TRUE /\ UNCHANGED <<owner, st, cronT, cur, ran>>
           \/ /\ ~NilCb(i) /\ cur' = i /\ ran' = ran \cup {i}
              /\ \/ owner[i] \in Cron /\ Rearm(owner[i])
                 \/ owner[i] \notin Cron /\ UNCHANGED <<owner, st, cronT>>
              /\ UNCHANGED crashed
        /\ UNCHANGED <<stopped, late, crons, mapActiveTimer, mapActiveCron, released>>

\* The callback returns and the module forgets the timer, or the cron.
EndCb ==
    /\ ~crashed /\ cur # 0 /\ cur' = 0
    /\ mapActiveTimer' = mapActiveTimer \ {cur}
    /\ mapActiveCron' = mapActiveCron \ {owner[cur]}
    /\ UNCHANGED <<owner, st, stopped, late, ChanTimer, crons, cronT, ran, released, crashed>>

-----------------------------------------------------------------------------
Runtime(i) == Fire(i) \/ Send(i)

Code ==
    \/ AfterFunc \/ DispatcherAfterFunc \/ ReleaseTimers
    \/ \E c \in Cron : CronFunc(c) \/ CronStop(c)
    \/ \E i \in Timers : TimerStop(i)

TimerNext == Code \/ Cb \/ EndCb \/ \E i \in Timers : Runtime(i)

TimerSpec == TimerInit /\ [][TimerNext]_timerVars

\* Time passes, goroutines that can run do run and callbacks return.  Senders on
\* a full channel wait in line in Go; as each timer sends once, weak fairness is
\* enough here to have them all served.
TimerFairness ==
    /\ WF_timerVars(Cb) /\ WF_timerVars(EndCb)
    /\ \A i \in Ids :
           WF_timerVars(i \in Timers /\ Fire(i)) /\ WF_timerVars(i \in Timers /\ Send(i))

TimerFairSpec == TimerSpec /\ TimerFairness

-----------------------------------------------------------------------------
(* Properties.                                                             *)

Queued(i) == \E k \in DOMAIN ChanTimer : ChanTimer[k] = i

\* Timer i can still reach Cb.
Live(i) == st[i] \in {"armed", "sending"} \/ Queued(i)

\* Cron.t is the one timer of the cron that can still reach Cb, also while the
\* cron's callback runs: this is what makes Cron.Stop reach it.
CronTracksTimer == \A i \in Timers : owner[i] \in Cron /\ Live(i) => i = cronT[owner[i]]

\* ReleaseModule leaves no timer of Module.AfterFunc armed, and no cron that
\* has not fired yet.
ReleaseDisarms ==
    released => \A i \in Timers :
        st[i] = "armed" =>
            \/ owner[i] = "plain"
            \/ \E j \in ran : j < i /\ owner[j] = owner[i] /\ owner[i] \in Cron

\* A Stop that comes before the timer is due is final, and the process dies only
\* of a later one: a timer of Dispatcher.AfterFunc or of a cron that is stopped
\* on its way to Cb comes to the cleared cb.
StopIsFinal ==
    /\ \A i \in stopped \ late : ~Live(i)
    /\ crashed => \E i \in late : owner[i] # "ex"

\* mapActiveTimer holds no timer that is done: it grows only with timers that
\* were stopped, can still come, or whose callback is running.
ActiveIsLive == \A i \in mapActiveTimer : Live(i) \/ i \in stopped \/ i = cur

\* A timer that is not stopped runs its callback, also when ChanTimer is full
\* while it comes due (unless the process dies).
TimerRuns ==
    \A i \in Ids : st[i] = "armed" ~> i \in ran \/ i \in stopped \/ crashed

\* Handles and maps agree with the timers that can still run, so that Stop and
\* ReleaseModule find what they have to stop.
TrackInv ==
    TimerTypeOK /\ CronTracksTimer /\ StopIsFinal /\ ActiveIsLive /\ ReleaseDisarms

=============================================================================
