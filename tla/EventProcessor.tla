---------------------------- MODULE EventProcessor ----------------------------
(***************************************************************************)
(* event.EventProcessor (event/event.go) and the event case of the select  *)
(* in Service.Run (service/service.go): goroutines outside the service,    *)
(* and its own event handlers, call NotifyEvent; the service's goroutines  *)
(* call GetEventChan before every select and take the events.              *)
(*                                                                         *)
(* EventChan is created by the first GetEventChan.  NotifyEvent reads the  *)
(* field with no lock: a send that saw nil waits on the nil channel for    *)
(* ever, also after the channel is created.  Senders that find the channel *)
(* full wait in a line, and a receive takes the first one's event in.      *)
(***************************************************************************)
EXTENDS Naturals, Sequences, FiniteSets

CONSTANTS Notifier,      \* goroutines outside the service that call NotifyEvent
          EventLoop,     \* goroutines in Service.Run
          ChanNums,      \* arguments of SetEventChanNum
          DefaultLen,    \* Default_EventChannelLen (10000 in the code)
          MaxEvents      \* bound on the events notified

ASSUME EventAssumption ==
    /\ Notifier \cap EventLoop = {} /\ IsFiniteSet(EventLoop)
    /\ ChanNums \subseteq Nat /\ DefaultLen \in Nat \ {0} /\ MaxEvents \in Nat

VARIABLES
    eventChanNum,
    eventChans,      \* the channels made so far: capacity, buffer, waiting senders
    eventGo,         \* each goroutine: where it is, its channel (0 is nil), its event
    events,          \* the events notified: the goroutine that called NotifyEvent
    accepted,        \* history: events in the order EventChan took them
    handled,         \* history: events in the order the select took them
    eventStop        \* closeSig is closed

eventVars == <<eventChanNum, eventChans, eventGo, events, accepted, handled, eventStop>>

EventGoroutine == Notifier \cup EventLoop
EventIds == 1..MaxEvents
EventAt(l, c, e) == [at |-> l, ch |-> c, ev |-> e]
MadeChan(n) == [cap |-> n, buf |-> <<>>, wait |-> <<>>]

\* The field EventChan: the channel made last, 0 before the first.
EventChan == Len(eventChans)

EventTypeOK ==
    /\ eventChanNum \in ChanNums \cup {0, DefaultLen}
    /\ \A c \in DOMAIN eventChans : eventChans[c].buf \in Seq(EventIds)
    /\ eventGo \in [EventGoroutine ->
           [at : {"idle", "top", "select", "handle", "send", "wait", "stopped"},
            ch : 0..Len(eventChans), ev : 0..MaxEvents]]
    /\ events \in Seq(EventGoroutine) /\ Len(events) <= MaxEvents
    /\ accepted \in Seq(EventIds) /\ handled \in Seq(EventIds) /\ eventStop \in BOOLEAN

\* The service is created and Start has not run its goroutines yet.
EventInit ==
    /\ eventChanNum = 0 /\ eventChans = <<>>
    /\ eventGo = [g \in EventGoroutine |->
                     EventAt(IF g \in EventLoop THEN "top" ELSE "idle", 0, 0)]
    /\ events = <<>> /\ accepted = <<>> /\ handled = <<>> /\ eventStop = FALSE

-----------------------------------------------------------------------------
\* It is set once: zero counts as not set, and GetEventChan sets the default.
SetEventChanNum(n) ==
    /\ eventChanNum = 0 /\ eventChanNum' = n
    /\ UNCHANGED <<eventChans, eventGo, events, accepted, handled, eventStop>>

\* Mutant of GetEventChan: every goroutine makes its own channel.
GetEventChanUnshared(l) ==
    LET n == IF eventChanNum = 0 THEN DefaultLen ELSE eventChanNum
    IN  /\ eventGo[l].at = "top" /\ eventChanNum' = n
        /\ eventChans' = IF eventGo[l].ch = 0 THEN Append(eventChans, MadeChan(n))
                         ELSE eventChans
        /\ eventGo' = [eventGo EXCEPT ![l] = EventAt("select", Len(eventChans'), 0)]
        /\ UNCHANGED <<events, accepted, handled, eventStop>>

\* Goroutine l gets the channel, under the lock, at the top of Run's loop.
GetEventChan(l) ==
    LET n == IF eventChanNum = 0 THEN DefaultLen ELSE eventChanNum
    IN  /\ eventGo[l].at = "top" /\ eventChanNum' = n
        /\ eventChans' = IF EventChan = 0 THEN <<MadeChan(n)>> ELSE eventChans
        /\ eventGo' = [eventGo EXCEPT ![l] = EventAt("select", Len(eventChans'), 0)]
        /\ UNCHANGED <<events, accepted, handled, eventStop>>

\* Where NotifyEvent returns to.
Caller(g) == IF g \in EventLoop THEN "handle" ELSE "idle"

\* case event := <-eventChan, and OnEventHandler is called.  The first sender
\* that waits gets the free slot.
TakeEvent(l) ==
    LET c == eventGo[l].ch
        w == eventChans[c].wait
    IN  /\ eventGo[l].at = "select" /\ eventChans[c].buf # <<>>
        /\ handled' = Append(handled, Head(eventChans[c].buf))
        /\ \/ /\ w = <<>> /\ UNCHANGED accepted
              /\ eventChans' = [eventChans EXCEPT ![c].buf = Tail(@)]
              /\ eventGo' = [eventGo EXCEPT ![l].at = "handle"]
           \/ /\ w # <<>> /\ accepted' = Append(accepted, eventGo[Head(w)].ev)
              /\ eventChans' = [eventChans EXCEPT
                     ![c].buf = Append(Tail(@), eventGo[Head(w)].ev), ![c].wait = Tail(@)]
              /\ eventGo' = [eventGo EXCEPT ![l].at = "handle",
                                            ![Head(w)].at = Caller(Head(w))]
        /\ UNCHANGED <<eventChanNum, events, eventStop>>

\* Mutant of EventHandlerReturns: a handler's error ends the goroutine.
EventHandlerEndsLoop(l) ==
    /\ eventGo[l].at = "handle"
    /\ \E to \in {"top", "stopped"} : eventGo' = [eventGo EXCEPT ![l].at = to]
    /\ UNCHANGED <<eventChanNum, eventChans, events, accepted, handled, eventStop>>

\* The handler returns, with or without an error, to the top of the loop.
EventHandlerReturns(l) ==
    /\ eventGo[l].at = "handle" /\ eventGo' = [eventGo EXCEPT ![l].at = "top"]
    /\ UNCHANGED <<eventChanNum, eventChans, events, accepted, handled, eventStop>>

\* case <-closeSig.
TakeEventStop(l) ==
    /\ eventGo[l].at = "select" /\ eventStop /\ eventGo' = [eventGo EXCEPT ![l].at = "stopped"]
    /\ UNCHANGED <<eventChanNum, eventChans, events, accepted, handled, eventStop>>

\* The node closes closeSig.
CloseEventSig ==
    /\ ~eventStop /\ eventStop' = TRUE
    /\ UNCHANGED <<eventChanNum, eventChans, eventGo, events, accepted, handled>>

-----------------------------------------------------------------------------
\* NotifyEvent, called by a goroutine outside the service or by a handler of
\* its own: the length test only logs; the channel to send on is read here.
NotifyEvent(g) ==
    /\ eventGo[g].at \in {"idle", "handle"} /\ Len(events) < MaxEvents
    /\ events' = Append(events, g)
    /\ eventGo' = [eventGo EXCEPT ![g] = EventAt("send", EventChan, Len(events) + 1)]
    /\ UNCHANGED <<eventChanNum, eventChans, accepted, handled, eventStop>>

\* The send of NotifyEvent: the event goes in, or the goroutine joins the line.
SendEvent(g) ==
    LET c == eventGo[g].ch
    IN  /\ eventGo[g].at = "send" /\ c # 0
        /\ \/ /\ Len(eventChans[c].buf) < eventChans[c].cap
              /\ eventChans' = [eventChans EXCEPT ![c].buf = Append(@, eventGo[g].ev)]
              /\ accepted' = Append(accepted, eventGo[g].ev)
              /\ eventGo' = [eventGo EXCEPT ![g].at = Caller(g)]
           \/ /\ Len(eventChans[c].buf) = eventChans[c].cap
              /\ eventChans' = [eventChans EXCEPT ![c].wait = Append(@, g)]
              /\ eventGo' = [eventGo EXCEPT ![g].at = "wait"] /\ UNCHANGED accepted
        /\ UNCHANGED <<eventChanNum, events, handled, eventStop>>

-----------------------------------------------------------------------------
RunEventLoop(l) ==
    GetEventChan(l) \/ TakeEvent(l) \/ EventHandlerReturns(l) \/ TakeEventStop(l)

EventNext ==
    \/ \E l \in EventLoop : RunEventLoop(l)
    \/ \E g \in EventGoroutine : NotifyEvent(g) \/ SendEvent(g)
    \/ \E n \in ChanNums : SetEventChanNum(n)
    \/ CloseEventSig

EventSpec == EventInit /\ [][EventNext]_eventVars

\* Goroutines that can run do run, once a goroutine of the service has run.
EventFairness ==
    /\ \A l \in EventLoop : WF_eventVars(EventChan # 0 /\ RunEventLoop(l))
    /\ \A g \in EventGoroutine : WF_eventVars(SendEvent(g))

-----------------------------------------------------------------------------
(* Properties.                                                             *)

\* Every goroutine of the loop is in a handler that waits to send into the full
\* channel which only they can empty.
SelfSending ==
    /\ EventChan # 0 /\ Len(eventChans[EventChan].buf) = eventChans[EventChan].cap
    /\ \A l \in EventLoop : eventGo[l].at \in {"send", "wait"}

\* All goroutines of the loop and all senders that found a channel use the same
\* one, made with the capacity that SetEventChanNum reported as set.
OneEventChan ==
    /\ Len(eventChans) <= 1
    /\ \A l \in EventLoop : eventGo[l].at = "select" => eventGo[l].ch = EventChan
    /\ EventChan # 0 => eventChans[EventChan].cap = eventChanNum

\* No event is lost or handled twice and the loop takes them in the order they
\* were accepted; the events of one goroutine are accepted in the order it
\* notified them.
EventsInOrder ==
    /\ accepted = handled \o (IF EventChan = 0 THEN <<>> ELSE eventChans[EventChan].buf)
    /\ \A i, j \in DOMAIN accepted :
           i < j /\ events[accepted[i]] = events[accepted[j]] => accepted[i] < accepted[j]

\* The channel is shared and keeps its promise.
EventInv == EventTypeOK /\ OneEventChan /\ EventsInOrder

\* NotifyEvent returns, unless it ran before the first GetEventChan, the
\* service has stopped, or all goroutines of the loop wait to send to themselves.
NotifyReturns ==
    \A g \in EventGoroutine :
        eventGo[g].at = "send" /\ eventGo[g].ch # 0
            ~> eventGo[g].at \notin {"send", "wait"} \/ eventStop \/ SelfSending

=============================================================================
