------------------------------ MODULE LoopProofs ------------------------------
(***************************************************************************)
(* Safety of what the loop of a service waits for besides calls: the event *)
(* channel, for any goroutines, capacities and number of events, and the   *)
(* timers of a module, for any crons, capacity and number of timers; of    *)
(* the tree of modules below the service, for any modules and ids; and of  *)
(* the search for the next time of a cron, for any calendar.               *)
(***************************************************************************)
EXTENDS ModuleTimer, EventProcessor, ModuleTree, CronExpr, ProofLemmas

(***************************************************************************)
(* The events.  An event is with the goroutine that sends it, which has no *)
(* other, until the channel takes it; so it is later than all events of    *)
(* that goroutine which were accepted.  The line of a full channel holds   *)
(* every waiting sender once.                                              *)
(***************************************************************************)
ChanRec == [cap : Nat, buf : Seq(EventIds), wait : Seq(EventGoroutine)]
GoRec == [at : {"idle", "top", "select", "handle", "send", "wait", "stopped"},
          ch : {0, 1}, ev : 0..MaxEvents]

\* The events of one goroutine are on s in the order it notified them; f is events.
Ordered(f, s) == \A i, j \in 1..Len(s) : i < j /\ f[s[i]] = f[s[j]] => s[i] < s[j]

EventVarsInv ==
    /\ eventChanNum \in ChanNums \cup {0, DefaultLen}
    /\ eventChans \in Seq(ChanRec) /\ Len(eventChans) <= 1
    /\ eventGo \in [EventGoroutine -> GoRec]
    /\ events \in Seq(EventGoroutine) /\ Len(events) <= MaxEvents
    /\ accepted \in Seq(EventIds) /\ handled \in Seq(EventIds)

\* The channel has the capacity that was set, and GetEventChan set one.
MadeInv == EventChan = 1 => eventChanNum # 0 /\ eventChans[1].cap = eventChanNum

\* A goroutine uses the channel once there is one.
UseInv ==
    \A g \in EventGoroutine :
        /\ eventGo[g].ch = 1 => EventChan = 1
        /\ eventGo[g].at = "select" => eventGo[g].ch = 1

LineInv ==
    EventChan = 1 =>
        /\ Once(eventChans[1].wait)
        /\ \A g \in EventGoroutine : On(eventChans[1].wait, g) => eventGo[g].at = "wait"

SenderInv ==
    \A g \in EventGoroutine : eventGo[g].at \in {"send", "wait"} =>
        /\ eventGo[g].ev \in 1..Len(events) /\ events[eventGo[g].ev] = g
        /\ \A e \in EventIds : On(accepted, e) /\ events[e] = g => e < eventGo[g].ev

AcceptInv ==
    /\ \A e \in EventIds : On(accepted, e) => e \in 1..Len(events)
    /\ Ordered(events, accepted)

FlowInv ==
    /\ EventChan = 0 => accepted = handled
    /\ EventChan = 1 => accepted = handled \o eventChans[1].buf

EventIInv ==
    /\ EventVarsInv /\ eventStop \in BOOLEAN /\ MadeInv /\ UseInv /\ LineInv
    /\ SenderInv /\ AcceptInv /\ FlowInv

\* The records of channels and goroutines, field by field.
LEMMA EventRecs ==
    /\ \A l \in {"idle", "top", "select", "handle", "send", "wait", "stopped"},
          c \in {0, 1}, e \in 0..MaxEvents : EventAt(l, c, e) \in GoRec
    /\ \A r \in GoRec : r.at \in {"idle", "top", "select", "handle", "send", "wait", "stopped"}
                        /\ r.ch \in {0, 1} /\ r.ev \in 0..MaxEvents
    /\ \A r \in ChanRec : r.cap \in Nat /\ r.buf \in Seq(EventIds) /\ r.wait \in Seq(EventGoroutine)
BY DEF EventAt, GoRec, ChanRec

\* An event put at the end, later than all of its goroutine that are there.
LEMMA OrderedAppend ==
    ASSUME NEW s \in Seq(EventIds), NEW x \in EventIds, NEW f, Ordered(f, s),
           \A e \in EventIds : On(s, e) /\ f[e] = f[x] => e < x
    PROVE  Ordered(f, Append(s, x))
<1>1. /\ Len(s) \in Nat /\ Len(Append(s, x)) = Len(s) + 1 /\ Append(s, x)[Len(s) + 1] = x
      /\ \A i \in 1..Len(s) : Append(s, x)[i] = s[i] /\ s[i] \in EventIds
  BY SeqAppend, ElementOfSeq
<1> SUFFICES ASSUME NEW i \in 1..Len(s) + 1, NEW j \in 1..Len(s) + 1, i < j,
                    f[Append(s, x)[i]] = f[Append(s, x)[j]]
             PROVE  Append(s, x)[i] < Append(s, x)[j]
  BY <1>1 DEF Ordered
<1>2. i \in 1..Len(s)
  BY <1>1
<1>3. Append(s, x)[i] = s[i] /\ On(s, s[i]) /\ s[i] \in EventIds
  BY <1>1, <1>2 DEF On
<1>4. CASE j = Len(s) + 1
  BY <1>1, <1>3, <1>4
<1>5. CASE j \in 1..Len(s)
  BY <1>1, <1>2, <1>5 DEF Ordered
<1> QED BY <1>1, <1>4, <1>5

\* The channel takes the event of sender g, and NotifyEvent returns to g.
AcceptedFrom(g) ==
    /\ eventGo[g].at \in {"send", "wait"} /\ accepted' = Append(accepted, eventGo[g].ev)
    /\ events' = events
    /\ \A h \in EventGoroutine : eventGo'[h].at \in {"send", "wait"} => h # g /\ eventGo'[h] = eventGo[h]

\* NotifyEvent's event is accepted in its order, and the other senders keep theirs.
LEMMA Accepted ==
    ASSUME EventIInv, NEW g \in EventGoroutine, AcceptedFrom(g)
    PROVE  /\ SenderInv' /\ AcceptInv'
           /\ accepted' \in Seq(EventIds) /\ eventGo[g].ev \in EventIds
<1> DEFINE x == eventGo[g].ev
<1>1. accepted \in Seq(EventIds) /\ Len(events) \in Nat /\ Len(events) <= MaxEvents
  BY DEF EventIInv, EventVarsInv
<1>2. x \in 1..Len(events) /\ events[x] = g
      /\ \A e \in EventIds : On(accepted, e) /\ events[e] = g => e < x
  BY DEF EventIInv, SenderInv, AcceptedFrom
<1>3. x \in EventIds
  BY <1>1, <1>2, EventAssumption DEF EventIds
<1>4. accepted' = Append(accepted, x) /\ events' = events
  BY DEF AcceptedFrom
<1> HIDE DEF x
<1>5. \A e : On(accepted', e) <=> On(accepted, e) \/ e = x
  BY <1>1, <1>3, <1>4, OnAppend
<1>6. accepted' \in Seq(EventIds)
  BY <1>1, <1>3, <1>4, SeqAppend
<1>7. AcceptInv'
  <2>1. \A e \in EventIds : On(accepted', e) => e \in 1..Len(events')
    BY <1>2, <1>4, <1>5 DEF EventIInv, AcceptInv
  <2>2. Ordered(events, Append(accepted, x))
    BY <1>1, <1>2, <1>3, OrderedAppend DEF EventIInv, AcceptInv
  <2> QED BY <1>4, <2>1, <2>2 DEF AcceptInv
<1>8. SenderInv'
  <2> SUFFICES ASSUME NEW h \in EventGoroutine, eventGo'[h].at \in {"send", "wait"}
               PROVE  /\ eventGo'[h].ev \in 1..Len(events') /\ events'[eventGo'[h].ev] = h
                      /\ \A e \in EventIds :
                            On(accepted', e) /\ events'[e] = h => e < eventGo'[h].ev
    BY DEF SenderInv
  <2>1. h # g /\ eventGo'[h] = eventGo[h]
    BY DEF AcceptedFrom
  <2>2. /\ eventGo[h].ev \in 1..Len(events) /\ events[eventGo[h].ev] = h
        /\ \A e \in EventIds : On(accepted, e) /\ events[e] = h => e < eventGo[h].ev
    BY <2>1 DEF EventIInv, SenderInv
  <2> QED BY <1>2, <1>4, <1>5, <2>1, <2>2
<1> QED BY <1>3, <1>6, <1>7, <1>8 DEF x

\* A step that keeps the events and takes none in, after which no goroutine
\* sends that did not.
NoneAccepted ==
    /\ accepted' = accepted /\ events' = events
    /\ \A h \in EventGoroutine : eventGo'[h].at \in {"send", "wait"} =>
           eventGo[h].at \in {"send", "wait"} /\ eventGo'[h].ev = eventGo[h].ev

\* Such a step keeps what is known of senders and of accepted events.
LEMMA KeptEvents ==
    ASSUME EventIInv, NoneAccepted
    PROVE  SenderInv' /\ AcceptInv'
<1>1. AcceptInv'
  BY DEF EventIInv, AcceptInv, NoneAccepted
<1>2. SenderInv'
  BY DEF EventIInv, SenderInv, NoneAccepted
<1> QED BY <1>1, <1>2

-----------------------------------------------------------------------------
\* The one channel: there is none, or it is channel 1.
LEMMA OneChan ==
    ASSUME EventIInv
    PROVE  /\ EventChan \in {0, 1}
           /\ EventChan = 0 => eventChans = <<>>
           /\ EventChan = 1 => /\ eventChans[1] \in ChanRec /\ DOMAIN eventChans = {1}
                               /\ eventChans[1].buf \in Seq(EventIds)
                               /\ eventChans[1].wait \in Seq(EventGoroutine)
<1>1. eventChans \in Seq(ChanRec) /\ Len(eventChans) \in {0, 1} /\ EventChan = Len(eventChans)
  <2>1. eventChans \in Seq(ChanRec) /\ Len(eventChans) <= 1
    BY DEF EventIInv, EventVarsInv
  <2>2. Len(eventChans) \in Nat
    BY <2>1, LenProperties
  <2>3. \A n \in Nat : n <= 1 => n \in {0, 1}
    OBVIOUS
  <2> QED BY <2>1, <2>2, <2>3, Zenon DEF EventChan
<1>2. EventChan = 0 => eventChans = <<>>
  BY <1>1, EmptySeq
<1>3. ASSUME EventChan = 1 PROVE eventChans[1] \in ChanRec /\ DOMAIN eventChans = {1}
  <2>1. 1 \in 1..Len(eventChans) /\ 1..Len(eventChans) = {1}
    BY <1>1, <1>3
  <2> QED BY <1>1, <2>1, ElementOfSeq, LenProperties
<1> QED BY <1>1, <1>2, <1>3, EventRecs

\* A step of goroutine l that only moves it.
MovedOn(l) ==
    /\ \E p \in {"top", "stopped"} : eventGo' = [eventGo EXCEPT ![l].at = p]
    /\ eventGo[l].at \in {"handle", "select"}
    /\ UNCHANGED <<eventChanNum, eventChans, events, accepted, handled, eventStop>>

\* A handler that returns, and a goroutine of the loop that sees closeSig.
LEMMA MovedOnStep ==
    ASSUME EventIInv, NEW l \in EventGoroutine, MovedOn(l)
    PROVE  EventIInv'
<1>1. PICK p \in {"top", "stopped"} : eventGo' = [eventGo EXCEPT ![l].at = p]
  BY DEF MovedOn
<1>2. eventGo \in [EventGoroutine -> GoRec]
  BY DEF EventIInv, EventVarsInv
<1>3. eventGo[l] \in GoRec /\ [eventGo[l] EXCEPT !.at = p] \in GoRec
  BY <1>2 DEF GoRec
<1>4. /\ eventGo' \in [EventGoroutine -> GoRec]
      /\ eventGo'[l].at = p /\ eventGo'[l].ch = eventGo[l].ch /\ eventGo'[l].ev = eventGo[l].ev
      /\ \A g \in EventGoroutine : g # l => eventGo'[g] = eventGo[g]
  BY <1>1, <1>2, <1>3 DEF GoRec
<1>5. EventVarsInv' /\ (eventStop \in BOOLEAN)'
  BY <1>4 DEF EventIInv, EventVarsInv, MovedOn
<1>6. MadeInv' /\ FlowInv'
  BY DEF EventIInv, MadeInv, FlowInv, MovedOn, EventChan
<1>7. UseInv'
  BY <1>4 DEF EventIInv, UseInv, MovedOn, EventChan
<1>8. LineInv'
  BY <1>4 DEF EventIInv, LineInv, MovedOn, EventChan
<1>9. NoneAccepted
  BY <1>4 DEF NoneAccepted, MovedOn
<1> QED BY <1>5, <1>6, <1>7, <1>8, <1>9, KeptEvents DEF EventIInv

\* GetEventChan: the first one makes the channel.
LEMMA GetEventChanStep ==
    ASSUME EventIInv, NEW l \in EventLoop, GetEventChan(l)
    PROVE  EventIInv'
<1> DEFINE n == IF eventChanNum = 0 THEN DefaultLen ELSE eventChanNum
<1>1. /\ eventGo[l].at = "top" /\ eventChanNum' = n
      /\ eventChans' = IF EventChan = 0 THEN <<MadeChan(n)>> ELSE eventChans
      /\ eventGo' = [eventGo EXCEPT ![l] = EventAt("select", Len(eventChans'), 0)]
      /\ UNCHANGED <<events, accepted, handled, eventStop>>
  BY DEF GetEventChan
<1>2. n \in Nat \ {0} /\ n \in ChanNums \cup {0, DefaultLen}
  BY EventAssumption DEF EventIInv, EventVarsInv
<1>3. EventChan = 1 => n = eventChanNum
  BY DEF EventIInv, MadeInv
<1> HIDE DEF n
<1>4. MadeChan(n) \in ChanRec /\ MadeChan(n).cap = n /\ MadeChan(n).buf = <<>> /\ MadeChan(n).wait = <<>>
  BY <1>2 DEF MadeChan, ChanRec
<1>5. /\ eventChans' \in Seq(ChanRec) /\ Len(eventChans') = 1
      /\ EventChan = 0 => eventChans'[1] = MadeChan(n)
      /\ EventChan = 1 => eventChans' = eventChans
  <2>1. CASE EventChan = 0
    BY <1>1, <1>4, <2>1
  <2>2. CASE EventChan = 1
    BY <1>1, <2>2 DEF EventIInv, EventVarsInv, EventChan
  <2> QED BY <2>1, <2>2, OneChan
<1>6. l \in EventGoroutine /\ eventGo \in [EventGoroutine -> GoRec]
  BY DEF EventIInv, EventVarsInv, EventGoroutine
<1>7. EventAt("select", 1, 0) \in GoRec
  BY EventRecs, EventAssumption
<1>8. /\ eventGo' \in [EventGoroutine -> GoRec]
      /\ eventGo'[l].at = "select" /\ eventGo'[l].ch = 1
      /\ \A g \in EventGoroutine : g # l => eventGo'[g] = eventGo[g]
  BY <1>1, <1>5, <1>6, <1>7 DEF EventAt
<1>9. EventVarsInv' /\ (eventStop \in BOOLEAN)'
  BY <1>1, <1>2, <1>5, <1>8 DEF EventIInv, EventVarsInv
<1>10. EventChan' = 1
  BY <1>5 DEF EventChan
<1>11. MadeInv'
  <2>1. CASE EventChan = 0
    BY <1>1, <1>2, <1>4, <1>5, <2>1 DEF MadeInv
  <2>2. CASE EventChan = 1
    BY <1>1, <1>2, <1>3, <1>5, <2>2 DEF EventIInv, MadeInv
  <2> QED BY <2>1, <2>2, OneChan
<1>12. FlowInv'
  <2>1. CASE EventChan = 0
    <3>1. accepted = handled /\ handled \in Seq(EventIds)
      BY <2>1 DEF EventIInv, EventVarsInv, FlowInv
    <3>2. handled \o <<>> = handled
      BY <3>1, ConcatEmptySeq
    <3> QED BY <1>1, <1>4, <1>5, <1>10, <2>1, <3>1, <3>2 DEF FlowInv
  <2>2. CASE EventChan = 1
    BY <1>1, <1>5, <1>10, <2>2 DEF EventIInv, FlowInv
  <2> QED BY <2>1, <2>2, OneChan
<1>13. UseInv'
  BY <1>8, <1>10 DEF EventIInv, UseInv
<1>14. LineInv'
  <2>1. CASE EventChan = 0
    <3>1. eventChans'[1].wait = <<>>
      BY <1>4, <1>5, <2>1
    <3> QED BY <3>1 DEF LineInv, Once, On
  <2>2. CASE EventChan = 1
    BY <1>1, <1>5, <1>8, <2>2 DEF EventIInv, LineInv
  <2> QED BY <2>1, <2>2, OneChan
<1>15. NoneAccepted
  BY <1>1, <1>8 DEF NoneAccepted
<1> QED BY <1>9, <1>11, <1>12, <1>13, <1>14, <1>15, KeptEvents DEF EventIInv

\* One element of a sequence replaced.
LEMMA SeqExcept ==
    ASSUME NEW S, NEW s \in Seq(S), NEW i \in 1..Len(s), NEW e \in S
    PROVE  /\ [s EXCEPT ![i] = e] \in Seq(S) /\ Len([s EXCEPT ![i] = e]) = Len(s)
           /\ [s EXCEPT ![i] = e][i] = e
BY ExceptSeq

\* The channel with other contents.
LEMMA ChanChanged ==
    ASSUME EventIInv, EventChan = 1, NEW b \in Seq(EventIds), NEW w \in Seq(EventGoroutine),
           eventChans' = [eventChans EXCEPT ![1].buf = b, ![1].wait = w]
    PROVE  /\ eventChans' \in Seq(ChanRec) /\ Len(eventChans') = 1 /\ EventChan' = 1
           /\ eventChans'[1].buf = b /\ eventChans'[1].wait = w
           /\ eventChans'[1].cap = eventChans[1].cap
<1>1. eventChans[1] \in ChanRec /\ DOMAIN eventChans = {1}
  BY OneChan
<1>2. eventChans \in Seq(ChanRec) /\ Len(eventChans) = 1
  BY DEF EventIInv, EventVarsInv, EventChan
<1> DEFINE r == [eventChans[1] EXCEPT !.buf = b, !.wait = w]
<1>3. r \in ChanRec /\ r.buf = b /\ r.wait = w /\ r.cap = eventChans[1].cap
  BY <1>1 DEF ChanRec
<1>4. eventChans' = [eventChans EXCEPT ![1] = r]
  BY <1>1
<1> HIDE DEF r
<1>5. 1 \in 1..Len(eventChans)
  BY <1>2
<1>6. eventChans' \in Seq(ChanRec) /\ Len(eventChans') = 1 /\ eventChans'[1] = r
  <2>1. r \in ChanRec /\ eventChans \in Seq(ChanRec)
    BY <1>2, <1>3
  <2>2. ASSUME NEW s \in Seq(ChanRec), NEW i \in 1..Len(s), NEW e \in ChanRec
        PROVE  /\ [s EXCEPT ![i] = e] \in Seq(ChanRec) /\ Len([s EXCEPT ![i] = e]) = Len(s)
               /\ [s EXCEPT ![i] = e][i] = e
    BY SeqExcept
  <2>3. /\ [eventChans EXCEPT ![1] = r] \in Seq(ChanRec)
        /\ Len([eventChans EXCEPT ![1] = r]) = Len(eventChans)
        /\ [eventChans EXCEPT ![1] = r][1] = r
    BY <1>5, <2>1, <2>2
  <2> QED BY <1>2, <1>4, <2>3
<1> QED BY <1>3, <1>6 DEF EventChan

\* The select takes an event, and no sender waits.
LEMMA TakeFirst ==
    ASSUME EventIInv, NEW l \in EventLoop, TakeEvent(l), eventChans[eventGo[l].ch].wait = <<>>
    PROVE  EventIInv'
<1> DEFINE b == eventChans[1].buf
           w == eventChans[1].wait
<1>0. l \in EventGoroutine /\ eventGo \in [EventGoroutine -> GoRec]
  BY DEF EventIInv, EventVarsInv, EventGoroutine
<1>1. eventGo[l].ch = 1 /\ EventChan = 1
  BY <1>0 DEF EventIInv, UseInv, TakeEvent
<1>2. /\ eventGo[l].at = "select" /\ b # <<>> /\ w = <<>>
      /\ handled' = Append(handled, Head(b)) /\ accepted' = accepted
      /\ eventChans' = [eventChans EXCEPT ![1].buf = Tail(b)]
      /\ eventGo' = [eventGo EXCEPT ![l].at = "handle"]
      /\ UNCHANGED <<eventChanNum, events, eventStop>>
  BY <1>1 DEF TakeEvent
<1>3. b \in Seq(EventIds) /\ w \in Seq(EventGoroutine) /\ eventChans[1] \in ChanRec
      /\ DOMAIN eventChans = {1}
  BY <1>1, OneChan
<1>4. Head(b) \in EventIds /\ Tail(b) \in Seq(EventIds)
  BY <1>2, <1>3, SeqTail
<1>5. eventChans' = [eventChans EXCEPT ![1].buf = Tail(b), ![1].wait = w]
  BY <1>2, <1>3 DEF ChanRec
<1>6. /\ eventChans' \in Seq(ChanRec) /\ Len(eventChans') = 1 /\ EventChan' = 1
      /\ eventChans'[1].buf = Tail(b) /\ eventChans'[1].wait = w
      /\ eventChans'[1].cap = eventChans[1].cap
  BY <1>1, <1>3, <1>4, <1>5, ChanChanged
<1>7. handled \in Seq(EventIds) /\ handled' \in Seq(EventIds)
  BY <1>2, <1>4, SeqAppend DEF EventIInv, EventVarsInv
<1>8. [eventGo[l] EXCEPT !.at = "handle"] \in GoRec
  BY <1>0 DEF GoRec
<1>9. /\ eventGo' \in [EventGoroutine -> GoRec]
      /\ eventGo'[l].at = "handle" /\ eventGo'[l].ch = eventGo[l].ch
      /\ \A g \in EventGoroutine : g # l => eventGo'[g] = eventGo[g]
  BY <1>0, <1>2, <1>8 DEF GoRec
<1>10. EventVarsInv' /\ (eventStop \in BOOLEAN)'
  BY <1>2, <1>6, <1>7, <1>9 DEF EventIInv, EventVarsInv
<1>11. MadeInv'
  BY <1>1, <1>2, <1>6 DEF EventIInv, MadeInv
<1>12. FlowInv'
  <2>1. accepted = handled \o b
    BY <1>1 DEF EventIInv, FlowInv
  <2>2. Append(handled, Head(b)) \o Tail(b) = handled \o b
    BY <1>2, <1>3, <1>7, TakenAndQueued
  <2>3. accepted' = handled' \o eventChans'[1].buf
    BY <1>2, <1>6, <2>1, <2>2
  <2> QED BY <1>6, <2>3 DEF FlowInv
<1>13. UseInv'
  BY <1>1, <1>6, <1>9 DEF EventIInv, UseInv
<1>14. LineInv'
  BY <1>1, <1>2, <1>6, <1>9 DEF EventIInv, LineInv
<1>15. NoneAccepted
  BY <1>2, <1>9 DEF NoneAccepted
<1> QED BY <1>10, <1>11, <1>12, <1>13, <1>14, <1>15, KeptEvents DEF EventIInv

\* The select takes an event, and the first sender in line gets the free slot.
LEMMA TakeAndLetIn ==
    ASSUME EventIInv, NEW l \in EventLoop, TakeEvent(l), eventChans[eventGo[l].ch].wait # <<>>
    PROVE  EventIInv'
<1> DEFINE b == eventChans[1].buf
           w == eventChans[1].wait
           h == Head(w)
           x == eventGo[h].ev
<1>0. l \in EventGoroutine /\ eventGo \in [EventGoroutine -> GoRec]
  BY DEF EventIInv, EventVarsInv, EventGoroutine
<1>1. eventGo[l].ch = 1 /\ EventChan = 1
  BY <1>0 DEF EventIInv, UseInv, TakeEvent
<1>2. /\ eventGo[l].at = "select" /\ b # <<>> /\ w # <<>>
      /\ handled' = Append(handled, Head(b)) /\ accepted' = Append(accepted, x)
      /\ eventChans' = [eventChans EXCEPT ![1].buf = Append(Tail(b), x), ![1].wait = Tail(w)]
      /\ eventGo' = [eventGo EXCEPT ![l].at = "handle", ![h].at = Caller(h)]
      /\ UNCHANGED <<eventChanNum, events, eventStop>>
  <2>1. eventChans' = [eventChans EXCEPT ![1].buf = Append(Tail(@), x), ![1].wait = Tail(@)]
    BY <1>1 DEF TakeEvent
  <2>2. eventChans[1] \in ChanRec /\ DOMAIN eventChans = {1}
    BY <1>1, OneChan
  <2>3. eventChans' = [eventChans EXCEPT ![1].buf = Append(Tail(b), x), ![1].wait = Tail(w)]
    BY <2>1, <2>2 DEF ChanRec
  <2> QED BY <1>1, <2>3 DEF TakeEvent
<1>3. b \in Seq(EventIds) /\ w \in Seq(EventGoroutine)
  BY <1>1, OneChan
<1>4. /\ Head(b) \in EventIds /\ Tail(b) \in Seq(EventIds)
      /\ h \in EventGoroutine /\ Tail(w) \in Seq(EventGoroutine)
  BY <1>2, <1>3, SeqTail
<1>5. /\ On(w, h) /\ \A q : On(w, q) <=> On(Tail(w), q) \/ q = h
      /\ Once(w) => Once(Tail(w)) /\ ~On(Tail(w), h)
  BY <1>2, <1>3, OnTail
<1>6. /\ Once(w) /\ \A g \in EventGoroutine : On(w, g) => eventGo[g].at = "wait"
  BY <1>1 DEF EventIInv, LineInv
<1>7. eventGo[h].at = "wait" /\ h # l
  BY <1>2, <1>4, <1>5, <1>6
<1>8. Caller(h) \in {"handle", "idle"}
  BY DEF Caller
<1> HIDE DEF b, w, h
<1>9. [eventGo[l] EXCEPT !.at = "handle"] \in GoRec /\ [eventGo[h] EXCEPT !.at = Caller(h)] \in GoRec
  BY <1>0, <1>4, <1>8 DEF GoRec
<1>10. /\ eventGo' \in [EventGoroutine -> GoRec]
       /\ eventGo'[l].at = "handle" /\ eventGo'[l].ch = eventGo[l].ch
       /\ eventGo'[h].at = Caller(h) /\ eventGo'[h].ch = eventGo[h].ch
       /\ \A g \in EventGoroutine : g # l /\ g # h => eventGo'[g] = eventGo[g]
  BY <1>0, <1>2, <1>4, <1>7, <1>9 DEF GoRec
<1>11. AcceptedFrom(h)
  BY <1>2, <1>7, <1>8, <1>10 DEF AcceptedFrom
<1>12. SenderInv' /\ AcceptInv' /\ accepted' \in Seq(EventIds) /\ x \in EventIds
  BY <1>4, <1>11, Accepted
<1> HIDE DEF x
<1>13. Append(Tail(b), x) \in Seq(EventIds)
  BY <1>4, <1>12, SeqAppend
<1>14. /\ eventChans' \in Seq(ChanRec) /\ Len(eventChans') = 1 /\ EventChan' = 1
       /\ eventChans'[1].buf = Append(Tail(b), x) /\ eventChans'[1].wait = Tail(w)
       /\ eventChans'[1].cap = eventChans[1].cap
  BY <1>1, <1>2, <1>4, <1>13, ChanChanged
<1>15. handled \in Seq(EventIds) /\ handled' \in Seq(EventIds)
  BY <1>2, <1>4, SeqAppend DEF EventIInv, EventVarsInv
<1>16. EventVarsInv' /\ (eventStop \in BOOLEAN)'
  <2>1. Len(eventChans') <= 1
    BY <1>14
  <2> QED BY <1>2, <1>10, <1>12, <1>14, <1>15, <2>1 DEF EventIInv, EventVarsInv
<1>17. MadeInv'
  BY <1>1, <1>2, <1>14 DEF EventIInv, MadeInv
<1>18. FlowInv'
  <2>1. accepted = handled \o b
    BY <1>1 DEF EventIInv, FlowInv, b
  <2>2. Append(handled, Head(b)) \o Tail(b) = handled \o b
    BY <1>2, <1>3, <1>15, TakenAndQueued
  <2>3. handled' \o Append(Tail(b), x) = Append(handled' \o Tail(b), x)
    BY <1>4, <1>12, <1>15, TakenAndQueued
  <2>4. accepted' = handled' \o eventChans'[1].buf
    BY <1>2, <1>14, <2>1, <2>2, <2>3
  <2> QED BY <1>14, <2>4 DEF FlowInv
<1>19. UseInv'
  BY <1>1, <1>8, <1>10, <1>14 DEF EventIInv, UseInv
<1>20. LineInv'
  <2>1. ASSUME NEW g \in EventGoroutine, On(Tail(w), g) PROVE eventGo'[g].at = "wait"
    <3>1. g # h /\ eventGo[g].at = "wait"
      BY <1>5, <1>6, <2>1
    <3> QED BY <1>2, <1>10, <3>1
  <2> QED BY <1>5, <1>6, <1>14, <2>1 DEF LineInv
<1> QED BY <1>12, <1>16, <1>17, <1>18, <1>19, <1>20 DEF EventIInv

\* NotifyEvent: the goroutine has a new event to send.
LEMMA NotifyEventStep ==
    ASSUME EventIInv, NEW g \in EventGoroutine, NotifyEvent(g)
    PROVE  EventIInv'
<1> DEFINE n == Len(events) + 1
<1>1. /\ eventGo[g].at \in {"idle", "handle"} /\ Len(events) < MaxEvents
      /\ events' = Append(events, g) /\ eventGo' = [eventGo EXCEPT ![g] = EventAt("send", EventChan, n)]
      /\ UNCHANGED <<eventChanNum, eventChans, accepted, handled, eventStop>>
  BY DEF NotifyEvent
<1>2. events \in Seq(EventGoroutine) /\ eventGo \in [EventGoroutine -> GoRec]
  BY DEF EventIInv, EventVarsInv
<1>3. /\ events' \in Seq(EventGoroutine) /\ Len(events) \in Nat /\ Len(events') = Len(events) + 1
      /\ events'[Len(events) + 1] = g /\ \A i \in 1..Len(events) : events'[i] = events[i]
  BY <1>1, <1>2, SeqAppend
<1>4. n \in 1..Len(events') /\ n \in 1..MaxEvents /\ n \in 0..MaxEvents /\ Len(events') <= MaxEvents
      /\ 1..Len(events) \subseteq 1..Len(events') /\ \A e \in 1..Len(events) : e < n
  BY <1>1, <1>3, EventAssumption
<1>5. events'[n] = g
  BY <1>3
<1> HIDE DEF n
<1>6. EventAt("send", EventChan, n) \in GoRec /\ EventChan \in {0, 1}
  BY <1>4, OneChan, EventRecs
<1>7. /\ eventGo' \in [EventGoroutine -> GoRec]
      /\ eventGo'[g].at = "send" /\ eventGo'[g].ch = EventChan /\ eventGo'[g].ev = n
      /\ \A h \in EventGoroutine : h # g => eventGo'[h] = eventGo[h]
  BY <1>1, <1>2, <1>6 DEF EventAt
<1>8. EventVarsInv' /\ (eventStop \in BOOLEAN)'
  BY <1>1, <1>3, <1>4, <1>7 DEF EventIInv, EventVarsInv
<1>9. EventChan' = EventChan
  BY <1>1 DEF EventChan
<1>10. MadeInv' /\ FlowInv'
  BY <1>1, <1>9 DEF EventIInv, MadeInv, FlowInv
<1>11. UseInv'
  BY <1>7, <1>9 DEF EventIInv, UseInv
<1>12. LineInv'
  BY <1>1, <1>7, <1>9 DEF EventIInv, LineInv
<1>13. \A e \in EventIds : On(accepted, e) => e \in 1..Len(events)
  BY DEF EventIInv, AcceptInv
<1>14. AcceptInv'
  <2>1. accepted \in Seq(EventIds)
    BY DEF EventIInv, EventVarsInv
  <2>2. ASSUME NEW i \in 1..Len(accepted) PROVE events'[accepted[i]] = events[accepted[i]]
    <3>1. accepted[i] \in EventIds /\ On(accepted, accepted[i])
      BY <2>1, ElementOfSeq DEF On
    <3> QED BY <1>3, <1>13, <3>1
  <2>3. Ordered(events', accepted)
    BY <2>2 DEF EventIInv, AcceptInv, Ordered
  <2> QED BY <1>1, <1>4, <1>13, <2>3 DEF AcceptInv
<1>15. SenderInv'
  <2> SUFFICES ASSUME NEW h \in EventGoroutine, eventGo'[h].at \in {"send", "wait"}
               PROVE  /\ eventGo'[h].ev \in 1..Len(events') /\ events'[eventGo'[h].ev] = h
                      /\ \A e \in EventIds :
                            On(accepted', e) /\ events'[e] = h => e < eventGo'[h].ev
    BY DEF SenderInv
  <2>1. CASE h = g
    BY <1>1, <1>4, <1>5, <1>7, <1>13, <2>1
  <2>2. CASE h # g
    <3>1. eventGo'[h] = eventGo[h]
      BY <1>7, <2>2
    <3>2. /\ eventGo[h].ev \in 1..Len(events) /\ events[eventGo[h].ev] = h
          /\ \A e \in EventIds : On(accepted, e) /\ events[e] = h => e < eventGo[h].ev
      BY <3>1 DEF EventIInv, SenderInv
    <3> QED BY <1>1, <1>3, <1>4, <1>13, <3>1, <3>2
  <2> QED BY <2>1, <2>2
<1> QED BY <1>8, <1>10, <1>11, <1>12, <1>14, <1>15 DEF EventIInv

\* The send: into the channel when there is room.
LEMMA SendInto ==
    ASSUME EventIInv, NEW g \in EventGoroutine, SendEvent(g),
           Len(eventChans[eventGo[g].ch].buf) < eventChans[eventGo[g].ch].cap
    PROVE  EventIInv'
<1> DEFINE b == eventChans[1].buf
           w == eventChans[1].wait
           x == eventGo[g].ev
<1>0. eventGo \in [EventGoroutine -> GoRec]
  BY DEF EventIInv, EventVarsInv
<1>1. eventGo[g].ch = 1
  BY <1>0, EventRecs DEF SendEvent
<1>2. EventChan = 1
  BY <1>1 DEF EventIInv, UseInv
<1>3. b \in Seq(EventIds) /\ w \in Seq(EventGoroutine) /\ eventChans[1] \in ChanRec
      /\ DOMAIN eventChans = {1}
  BY <1>2, OneChan
<1>4. Len(b) \in Nat /\ Len(b) # eventChans[1].cap
  <2>1. Len(b) \in Nat /\ eventChans[1].cap \in Nat
    BY <1>3, LenProperties, EventRecs
  <2> QED BY <1>1, <2>1
<1>5. /\ eventGo[g].at = "send" /\ accepted' = Append(accepted, x)
      /\ eventChans' = [eventChans EXCEPT ![1].buf = Append(@, x)]
      /\ eventGo' = [eventGo EXCEPT ![g].at = Caller(g)]
      /\ UNCHANGED <<eventChanNum, events, handled, eventStop>>
  BY <1>1, <1>4 DEF SendEvent
<1>6. Caller(g) \in {"handle", "idle"}
  BY DEF Caller
<1>7. [eventGo[g] EXCEPT !.at = Caller(g)] \in GoRec
  BY <1>0, <1>6 DEF GoRec
<1>8. /\ eventGo' \in [EventGoroutine -> GoRec]
      /\ eventGo'[g].at = Caller(g) /\ eventGo'[g].ch = eventGo[g].ch
      /\ \A h \in EventGoroutine : h # g => eventGo'[h] = eventGo[h]
  BY <1>0, <1>5, <1>7 DEF GoRec
<1>9. AcceptedFrom(g)
  BY <1>5, <1>6, <1>8 DEF AcceptedFrom
<1>10. SenderInv' /\ AcceptInv' /\ accepted' \in Seq(EventIds) /\ x \in EventIds
  BY <1>9, Accepted
<1>11. Append(b, x) \in Seq(EventIds)
  BY <1>3, <1>10, SeqAppend
<1>12. eventChans' = [eventChans EXCEPT ![1].buf = Append(b, x), ![1].wait = w]
  BY <1>3, <1>5 DEF ChanRec
<1>13. /\ eventChans' \in Seq(ChanRec) /\ Len(eventChans') = 1 /\ EventChan' = 1
       /\ eventChans'[1].buf = Append(b, x) /\ eventChans'[1].wait = w
       /\ eventChans'[1].cap = eventChans[1].cap
  BY <1>2, <1>3, <1>11, <1>12, ChanChanged
<1>14. EventVarsInv' /\ (eventStop \in BOOLEAN)'
  <2>1. Len(eventChans') <= 1
    BY <1>13
  <2> QED BY <1>5, <1>8, <1>10, <1>13, <2>1 DEF EventIInv, EventVarsInv
<1>15. MadeInv'
  BY <1>2, <1>5, <1>13 DEF EventIInv, MadeInv
<1>16. FlowInv'
  <2>1. accepted = handled \o b /\ handled \in Seq(EventIds)
    BY <1>2 DEF EventIInv, FlowInv, EventVarsInv
  <2>2. handled \o Append(b, x) = Append(handled \o b, x)
    BY <1>3, <1>10, <2>1, TakenAndQueued
  <2>3. accepted' = handled' \o eventChans'[1].buf
    BY <1>5, <1>13, <2>1, <2>2
  <2> QED BY <1>13, <2>3 DEF FlowInv
<1>17. UseInv'
  BY <1>2, <1>6, <1>8, <1>13 DEF EventIInv, UseInv
<1>18. LineInv'
  BY <1>2, <1>5, <1>8, <1>13 DEF EventIInv, LineInv
<1> QED BY <1>10, <1>14, <1>15, <1>16, <1>17, <1>18 DEF EventIInv

\* The send: into the line when the channel is full.
LEMMA SendWaits ==
    ASSUME EventIInv, NEW g \in EventGoroutine, SendEvent(g),
           Len(eventChans[eventGo[g].ch].buf) = eventChans[eventGo[g].ch].cap
    PROVE  EventIInv'
<1> DEFINE b == eventChans[1].buf
           w == eventChans[1].wait
<1>0. eventGo \in [EventGoroutine -> GoRec]
  BY DEF EventIInv, EventVarsInv
<1>1. eventGo[g].ch = 1
  BY <1>0, EventRecs DEF SendEvent
<1>2. EventChan = 1
  BY <1>1 DEF EventIInv, UseInv
<1>3. b \in Seq(EventIds) /\ w \in Seq(EventGoroutine) /\ eventChans[1] \in ChanRec
      /\ DOMAIN eventChans = {1}
  BY <1>2, OneChan
<1>4. ~(Len(b) < eventChans[1].cap)
  <2>1. Len(b) \in Nat /\ eventChans[1].cap \in Nat
    BY <1>3, LenProperties, EventRecs
  <2> QED BY <1>1, <2>1
<1>5. /\ eventGo[g].at = "send" /\ accepted' = accepted
      /\ eventChans' = [eventChans EXCEPT ![1].wait = Append(@, g)]
      /\ eventGo' = [eventGo EXCEPT ![g].at = "wait"]
      /\ UNCHANGED <<eventChanNum, events, handled, eventStop>>
  BY <1>1, <1>4 DEF SendEvent
<1>6. [eventGo[g] EXCEPT !.at = "wait"] \in GoRec
  BY <1>0 DEF GoRec
<1>7. /\ eventGo' \in [EventGoroutine -> GoRec]
      /\ eventGo'[g].at = "wait" /\ eventGo'[g].ch = eventGo[g].ch /\ eventGo'[g].ev = eventGo[g].ev
      /\ \A h \in EventGoroutine : h # g => eventGo'[h] = eventGo[h]
  BY <1>0, <1>5, <1>6 DEF GoRec
<1>8. Append(w, g) \in Seq(EventGoroutine)
  BY <1>3, SeqAppend
<1>9. eventChans' = [eventChans EXCEPT ![1].buf = b, ![1].wait = Append(w, g)]
  BY <1>3, <1>5 DEF ChanRec
<1>10. /\ eventChans' \in Seq(ChanRec) /\ Len(eventChans') = 1 /\ EventChan' = 1
       /\ eventChans'[1].buf = b /\ eventChans'[1].wait = Append(w, g)
       /\ eventChans'[1].cap = eventChans[1].cap
  BY <1>2, <1>3, <1>8, <1>9, ChanChanged
<1>11. EventVarsInv' /\ (eventStop \in BOOLEAN)'
  <2>1. Len(eventChans') <= 1
    BY <1>10
  <2> QED BY <1>5, <1>7, <1>10, <2>1 DEF EventIInv, EventVarsInv
<1>12. MadeInv'
  BY <1>2, <1>5, <1>10 DEF EventIInv, MadeInv
<1>13. FlowInv'
  <2>1. accepted' = handled' \o eventChans'[1].buf
    BY <1>2, <1>5, <1>10 DEF EventIInv, FlowInv
  <2> QED BY <1>10, <2>1 DEF FlowInv
<1>14. UseInv'
  BY <1>2, <1>7, <1>10 DEF EventIInv, UseInv
<1>15. LineInv'
  <2>1. Once(w) /\ \A h \in EventGoroutine : On(w, h) => eventGo[h].at = "wait"
    BY <1>2 DEF EventIInv, LineInv
  <2>2. ~On(w, g)
    BY <1>5, <2>1
  <2>3. /\ \A h : On(Append(w, g), h) <=> On(w, h) \/ h = g
        /\ Once(w) /\ ~On(w, g) => Once(Append(w, g))
    BY <1>3, OnAppend
  <2> QED BY <1>7, <1>10, <2>1, <2>2, <2>3 DEF LineInv
<1>16. NoneAccepted
  BY <1>5, <1>7 DEF NoneAccepted
<1> QED BY <1>11, <1>12, <1>13, <1>14, <1>15, <1>16, KeptEvents DEF EventIInv

\* SetEventChanNum before the channel is made, and CloseEventSig.
LEMMA EventFlagSteps ==
    ASSUME EventIInv, CloseEventSig \/ \E n \in ChanNums : SetEventChanNum(n)
    PROVE  EventIInv'
<1>1. /\ UNCHANGED <<eventChans, eventGo, events, accepted, handled>>
      /\ eventChanNum' \in ChanNums \cup {0, DefaultLen}
      /\ eventChanNum = 0 \/ eventChanNum' = eventChanNum
  BY DEF EventIInv, EventVarsInv, CloseEventSig, SetEventChanNum
<1>2. (eventStop \in BOOLEAN)'
  BY DEF EventIInv, CloseEventSig, SetEventChanNum
<1>3. EventChan' = EventChan
  BY <1>1 DEF EventChan
<1>4. EventVarsInv'
  BY <1>1 DEF EventIInv, EventVarsInv
<1>5. MadeInv'
  BY <1>1, <1>3 DEF EventIInv, MadeInv
<1>6. UseInv' /\ LineInv' /\ FlowInv'
  BY <1>1, <1>3 DEF EventIInv, UseInv, LineInv, FlowInv
<1>7. NoneAccepted
  BY <1>1 DEF NoneAccepted
<1> QED BY <1>2, <1>4, <1>5, <1>6, <1>7, KeptEvents DEF EventIInv

\* What EventIInv says of the channel.
LEMMA EventPromise == EventIInv => EventInv
<1> SUFFICES ASSUME EventIInv PROVE EventInv
  OBVIOUS
<1>1. EventTypeOK
  <2>1. eventGo \in [EventGoroutine -> GoRec] /\ Len(eventChans) \in {0, 1} /\ EventChan = Len(eventChans)
    BY OneChan DEF EventIInv, EventVarsInv, EventChan
  <2>2. ASSUME NEW g \in EventGoroutine PROVE eventGo[g].ch \in 0..Len(eventChans)
    <3>1. eventGo[g].ch \in {0, 1} /\ (eventGo[g].ch = 1 => Len(eventChans) = 1)
      BY <2>1, EventRecs DEF EventIInv, UseInv
    <3> QED BY <2>1, <3>1
  <2> DEFINE R == [at : {"idle", "top", "select", "handle", "send", "wait", "stopped"},
                   ch : 0..Len(eventChans), ev : 0..MaxEvents]
  <2>3. ASSUME NEW g \in EventGoroutine PROVE eventGo[g] \in R
    BY <2>1, <2>2 DEF GoRec
  <2>4. eventGo \in [EventGoroutine -> R]
    BY <2>1, <2>3
  <2>5. ASSUME NEW c \in DOMAIN eventChans PROVE eventChans[c].buf \in Seq(EventIds)
    <3>1. CASE EventChan = 0
      BY <3>1, OneChan
    <3>2. CASE EventChan = 1
      BY <3>2, OneChan
    <3> QED BY <3>1, <3>2, OneChan
  <2> HIDE DEF R
  <2> QED BY <2>4, <2>5 DEF EventTypeOK, EventIInv, EventVarsInv, R
<1>2. OneEventChan
  <2>1. ASSUME NEW l \in EventLoop, eventGo[l].at = "select" PROVE eventGo[l].ch = EventChan
    BY <2>1 DEF EventIInv, UseInv, EventGoroutine
  <2>2. EventChan # 0 => eventChans[EventChan].cap = eventChanNum
    BY OneChan DEF EventIInv, MadeInv
  <2> QED BY <2>1, <2>2 DEF OneEventChan, EventIInv, EventVarsInv
<1>3. EventsInOrder
  <2>1. accepted = handled \o (IF EventChan = 0 THEN <<>> ELSE eventChans[EventChan].buf)
    <3>1. handled \in Seq(EventIds) /\ handled \o <<>> = handled
      BY ConcatEmptySeq DEF EventIInv, EventVarsInv
    <3>2. CASE EventChan = 0
      BY <3>1, <3>2 DEF EventIInv, FlowInv
    <3>3. CASE EventChan = 1
      BY <3>3 DEF EventIInv, FlowInv
    <3> QED BY <3>2, <3>3, OneChan
  <2>2. accepted \in Seq(EventIds)
    BY DEF EventIInv, EventVarsInv
  <2>3. DOMAIN accepted = 1..Len(accepted)
    BY <2>2, LenProperties
  <2> QED BY <2>1, <2>3 DEF EventsInOrder, EventIInv, AcceptInv, Ordered
<1> QED BY <1>1, <1>2, <1>3 DEF EventInv

\* The event channel keeps its promise whatever the goroutines, the capacity set
\* and the number of events: EventProcessor and the loop share one channel, of
\* that capacity, and the loop takes every accepted event once and in order, those
\* of one goroutine in the order of its calls of NotifyEvent.
THEOREM EventSafe == EventSpec => []EventInv
<1>1. EventInit => EventIInv
  <2> SUFFICES ASSUME EventInit PROVE EventIInv
    OBVIOUS
  <2>1. EventChan = 0 /\ Len(eventChans) <= 1 /\ Len(events) <= MaxEvents
    BY EventAssumption DEF EventInit, EventChan
  <2>2. \A g \in EventGoroutine :
            eventGo[g] \in GoRec /\ eventGo[g].at \in {"top", "idle"} /\ eventGo[g].ch = 0
    <3>1. \A l \in {"top", "idle"} : EventAt(l, 0, 0) \in GoRec
      BY EventRecs, EventAssumption
    <3> QED BY <3>1 DEF EventInit, EventAt
  <2>3. EventVarsInv /\ eventStop \in BOOLEAN
    <3>1. eventGo \in [EventGoroutine -> GoRec]
      BY <2>2 DEF EventInit
    <3>2. eventChans \in Seq(ChanRec) /\ events \in Seq(EventGoroutine)
          /\ accepted \in Seq(EventIds) /\ handled \in Seq(EventIds)
      BY DEF EventInit
    <3>3. eventChanNum \in ChanNums \cup {0, DefaultLen} /\ eventStop \in BOOLEAN
      BY DEF EventInit
    <3> QED BY <2>1, <3>1, <3>2, <3>3 DEF EventVarsInv
  <2>4. MadeInv /\ UseInv /\ LineInv /\ FlowInv
    BY <2>1, <2>2 DEF EventInit, MadeInv, UseInv, LineInv, FlowInv
  <2>5. SenderInv /\ AcceptInv
    BY <2>2 DEF EventInit, SenderInv, AcceptInv, On, Ordered
  <2> QED BY <2>3, <2>4, <2>5 DEF EventIInv
<1>2. EventIInv /\ [EventNext]_eventVars => EventIInv'
  <2> SUFFICES ASSUME EventIInv, [EventNext]_eventVars PROVE EventIInv'
    OBVIOUS
  <2>1. CASE UNCHANGED eventVars
    BY <2>1 DEF eventVars, EventIInv, EventVarsInv, MadeInv, UseInv, LineInv, SenderInv, AcceptInv,
                FlowInv, EventChan
  <2>2. ASSUME NEW l \in EventLoop, RunEventLoop(l) PROVE EventIInv'
    <3>1. CASE GetEventChan(l)
      BY <3>1, GetEventChanStep
    <3>2. CASE TakeEvent(l)
      BY <3>2, TakeFirst, TakeAndLetIn
    <3>3. CASE EventHandlerReturns(l) \/ TakeEventStop(l)
      <4>1. MovedOn(l) /\ l \in EventGoroutine
        BY <3>3 DEF MovedOn, EventHandlerReturns, TakeEventStop, EventGoroutine
      <4> QED BY <4>1, MovedOnStep
    <3> QED BY <2>2, <3>1, <3>2, <3>3 DEF RunEventLoop
  <2>3. ASSUME NEW g \in EventGoroutine, NotifyEvent(g) PROVE EventIInv'
    BY <2>3, NotifyEventStep
  <2>4. ASSUME NEW g \in EventGoroutine, SendEvent(g) PROVE EventIInv'
    BY <2>4, SendInto, SendWaits DEF SendEvent
  <2>5. CASE CloseEventSig \/ \E n \in ChanNums : SetEventChanNum(n)
    BY <2>5, EventFlagSteps
  <2> QED BY <2>1, <2>2, <2>3, <2>4, <2>5 DEF EventNext
<1> QED BY <1>1, <1>2, EventPromise, PTL DEF EventSpec

(***************************************************************************)
(* The timers.  A timer goes through its states in order and is at one     *)
(* place at a time; the timers of a cron are created one after the other,  *)
(* each when the one before is being called, so Cron.t is the last one.    *)
(***************************************************************************)
TimerVarsInv ==
    /\ owner \in Seq({"ex", "plain"} \cup Cron) /\ Len(owner) <= MaxTimers
    /\ st \in [Ids -> {"free", "armed", "off", "sending", "sent"}]
    /\ stopped \subseteq Timers /\ late \subseteq stopped /\ ran \subseteq Timers
    /\ ChanTimer \in Seq(Timers) /\ Len(ChanTimer) <= ChanLen
    /\ cronT \in [Cron -> Timers \cup {0}] /\ crons \subseteq Cron
    /\ mapActiveTimer \subseteq Timers /\ mapActiveCron \subseteq Cron
    /\ cur \in Timers \cup {0}

FlagsInv == released \in BOOLEAN /\ crashed \in BOOLEAN

\* Where a timer can be: in ChanTimer once it is sent and until it is called.
PlaceInv ==
    /\ Once(ChanTimer)
    /\ \A i \in Timers : On(ChanTimer, i) => st[i] = "sent" /\ i \notin ran
    /\ \A i \in ran : st[i] = "sent"
    /\ cur # 0 => cur \in ran

\* Timer i can still reach Cb.
Alive(i) == st[i] \in {"armed", "sending"} \/ On(ChanTimer, i)

CronsInv ==
    \A i \in Timers : owner[i] \in Cron =>
        /\ owner[i] \in crons /\ i <= cronT[owner[i]]
        /\ Alive(i) => i = cronT[owner[i]]

StopsInv ==
    /\ \A i \in stopped : Alive(i) => i \in late
    /\ crashed => \E i \in late : owner[i] # "ex"

ActiveInv == \A i \in mapActiveTimer : Alive(i) \/ i \in stopped \/ i = cur

\* A timer of the same cron was called before timer i.
Again(i) == owner[i] \in Cron /\ \E j \in ran : j < i /\ owner[j] = owner[i]

\* Until the release the maps lead to every armed timer, but those of crons that
\* have run.
ArmedInv ==
    \A i \in Timers : st[i] = "armed" =>
        \/ owner[i] = "plain" \/ Again(i)
        \/ ~released /\ owner[i] = "ex" /\ i \in mapActiveTimer
        \/ ~released /\ owner[i] \in Cron /\ owner[i] \in mapActiveCron

TimerIInv ==
    /\ TimerVarsInv /\ FlagsInv /\ PlaceInv /\ CronsInv /\ StopsInv /\ ActiveInv /\ ArmedInv

\* The timers that are in ChanTimer, and the numbers of timers.
LEMMA TimerFacts ==
    ASSUME TimerIInv
    PROVE  /\ Len(owner) \in Nat /\ Timers \subseteq Ids /\ 0 \notin Timers
           /\ ChanTimer \in Seq(Timers)
           /\ \A i : On(ChanTimer, i) => i \in Timers
           /\ \A i \in Timers : owner[i] \in {"ex", "plain"} \cup Cron
<1>1. /\ owner \in Seq({"ex", "plain"} \cup Cron) /\ Len(owner) <= MaxTimers
      /\ ChanTimer \in Seq(Timers)
  BY DEF TimerIInv, TimerVarsInv
<1>2. Len(owner) \in Nat
  BY <1>1, LenProperties
<1>3. Timers \subseteq Ids /\ 0 \notin Timers
  BY <1>1, <1>2, TimerAssumption DEF Timers, Ids
<1>4. \A i : On(ChanTimer, i) => i \in Timers
  BY <1>1, ElementOfSeq DEF On
<1>5. \A i \in Timers : owner[i] \in {"ex", "plain"} \cup Cron
  BY <1>1, ElementOfSeq DEF Timers
<1> QED BY <1>1, <1>2, <1>3, <1>4, <1>5

\* time.AfterFunc: the new timer and the old ones.
LEMMA ArmFacts ==
    ASSUME TimerIInv, NEW o \in {"ex", "plain"} \cup Cron, Arm(o)
    PROVE  LET n == Len(owner) + 1
           IN  /\ n \in Ids /\ n \notin Timers /\ n # 0 /\ Timers' = Timers \cup {n}
               /\ \A i \in Timers : i < n
               /\ owner' \in Seq({"ex", "plain"} \cup Cron) /\ Len(owner') <= MaxTimers
               /\ owner'[n] = o /\ \A i \in Timers : owner'[i] = owner[i]
               /\ st' \in [Ids -> {"free", "armed", "off", "sending", "sent"}]
               /\ st'[n] = "armed" /\ \A i \in Timers : st'[i] = st[i]
               /\ \A s \in Seq(Timers) : s \in Seq(Timers')
<1> DEFINE n == Len(owner) + 1
<1>1. /\ Len(owner) < MaxTimers /\ owner' = Append(owner, o) /\ st' = [st EXCEPT ![n] = "armed"]
  BY DEF Arm
<1>2. owner \in Seq({"ex", "plain"} \cup Cron)
      /\ st \in [Ids -> {"free", "armed", "off", "sending", "sent"}]
  BY DEF TimerIInv, TimerVarsInv
<1>3. /\ owner' \in Seq({"ex", "plain"} \cup Cron) /\ Len(owner) \in Nat
      /\ Len(owner') = n /\ owner'[n] = o /\ \A i \in 1..Len(owner) : owner'[i] = owner[i]
  BY <1>1, <1>2, SeqAppend
<1>4. n \in Ids /\ n \notin Timers /\ n # 0 /\ n <= MaxTimers /\ \A i \in Timers : i < n
  BY <1>1, <1>3, TimerAssumption DEF Ids, Timers
<1>5. Timers' = Timers \cup {n}
  BY <1>3 DEF Timers
<1> HIDE DEF n
<1>6. /\ st' \in [Ids -> {"free", "armed", "off", "sending", "sent"}]
      /\ st'[n] = "armed" /\ \A i \in Timers : st'[i] = st[i]
  BY <1>1, <1>2, <1>4, TimerFacts
<1>7. \A s \in Seq(Timers) : s \in Seq(Timers')
  BY <1>5, SeqMonotonic
<1>8. Len(owner') <= MaxTimers /\ \A i \in Timers : owner'[i] = owner[i]
  BY <1>3, <1>4 DEF Timers
<1> QED BY <1>3, <1>4, <1>5, <1>6, <1>7, <1>8 DEF n

\* The module's code creates timer n for owner o.
ArmStep(o) ==
    /\ ~crashed /\ Arm(o)
    /\ UNCHANGED <<stopped, late, ChanTimer, cur, ran, released, crashed>>
    /\ o \in Cron => /\ o \notin crons /\ crons' = crons \cup {o} /\ ~released
                     /\ cronT' = [cronT EXCEPT ![o] = Len(owner) + 1]
                     /\ mapActiveCron' = mapActiveCron \cup {o}
    /\ o \notin Cron => UNCHANGED <<crons, cronT, mapActiveCron>>
    /\ o = "ex" => mapActiveTimer' = mapActiveTimer \cup {Len(owner) + 1} /\ ~released
    /\ o # "ex" => mapActiveTimer' = mapActiveTimer

\* AfterFunc, Dispatcher.AfterFunc and CronFunc keep the invariant.
LEMMA ArmSteps ==
    ASSUME TimerIInv, NEW o \in {"ex", "plain"} \cup Cron, ArmStep(o)
    PROVE  TimerIInv'
<1> DEFINE n == Len(owner) + 1
<1>1. /\ n \in Ids /\ n \notin Timers /\ n # 0 /\ Timers' = Timers \cup {n}
      /\ \A i \in Timers : i < n
      /\ owner' \in Seq({"ex", "plain"} \cup Cron) /\ Len(owner') <= MaxTimers
      /\ owner'[n] = o /\ \A i \in Timers : owner'[i] = owner[i]
      /\ st' \in [Ids -> {"free", "armed", "off", "sending", "sent"}]
      /\ st'[n] = "armed" /\ \A i \in Timers : st'[i] = st[i]
      /\ \A s \in Seq(Timers) : s \in Seq(Timers')
  BY ArmFacts DEF ArmStep
<1>2. UNCHANGED <<stopped, late, ChanTimer, cur, ran, released, crashed>>
  BY DEF ArmStep
<1>3. /\ o \in Cron => /\ o \notin crons /\ crons' = crons \cup {o} /\ ~released
                       /\ cronT' = [cronT EXCEPT ![o] = n] /\ mapActiveCron' = mapActiveCron \cup {o}
      /\ o \notin Cron => UNCHANGED <<crons, cronT, mapActiveCron>>
      /\ o = "ex" => mapActiveTimer' = mapActiveTimer \cup {n} /\ ~released
      /\ o # "ex" => mapActiveTimer' = mapActiveTimer
  BY DEF ArmStep
<1> HIDE DEF n
<1>4. /\ crons \subseteq Cron /\ cronT \in [Cron -> Timers \cup {0}] /\ mapActiveCron \subseteq Cron
      /\ mapActiveTimer \subseteq Timers /\ stopped \subseteq Timers /\ ran \subseteq Timers
      /\ late \subseteq stopped
  BY DEF TimerIInv, TimerVarsInv
<1>5. TimerVarsInv'
  <2>1. cronT' \in [Cron -> Timers' \cup {0}] /\ crons' \subseteq Cron /\ mapActiveCron' \subseteq Cron
    BY <1>1, <1>3, <1>4
  <2>2. /\ mapActiveTimer' \subseteq Timers' /\ stopped' \subseteq Timers' /\ ran' \subseteq Timers'
        /\ late' \subseteq stopped' /\ cur' \in Timers' \cup {0}
    BY <1>1, <1>2, <1>3, <1>4 DEF TimerIInv, TimerVarsInv
  <2>3. ChanTimer' \in Seq(Timers') /\ Len(ChanTimer') <= ChanLen
    BY <1>1, <1>2 DEF TimerIInv, TimerVarsInv
  <2> QED BY <1>1, <2>1, <2>2, <2>3 DEF TimerVarsInv
<1>6. FlagsInv'
  BY <1>2 DEF TimerIInv, FlagsInv
<1>7. ~On(ChanTimer, n) /\ n \notin ran /\ n \notin stopped
  BY <1>1, <1>4, TimerFacts
<1>8. PlaceInv'
  BY <1>1, <1>2, <1>4, <1>7 DEF TimerIInv, PlaceInv
<1>9. \A i \in Timers : Alive(i)' <=> Alive(i)
  BY <1>1, <1>2 DEF Alive
<1>10. CronsInv'
  <2> SUFFICES ASSUME NEW i \in Timers \cup {n}, owner'[i] \in Cron
               PROVE  /\ owner'[i] \in crons' /\ i <= cronT'[owner'[i]]
                      /\ Alive(i)' => i = cronT'[owner'[i]]
    BY <1>1 DEF CronsInv
  <2>1. CASE i = n
    <3>1. n <= n
      BY <1>1 DEF Ids
    <3> QED BY <1>1, <1>3, <1>4, <2>1, <3>1
  <2>2. CASE i \in Timers
    <3>1. /\ owner'[i] = owner[i] /\ owner[i] \in crons /\ i <= cronT[owner[i]]
          /\ Alive(i) => i = cronT[owner[i]]
      BY <1>1, <2>2 DEF TimerIInv, CronsInv
    <3>2. owner[i] \in crons' /\ cronT'[owner[i]] = cronT[owner[i]]
      BY <1>3, <1>4, <3>1
    <3> QED BY <1>9, <2>2, <3>1, <3>2
  <2> QED BY <2>1, <2>2
<1>11. StopsInv'
  <2>1. \A i \in stopped : Alive(i)' => i \in late
    BY <1>4, <1>9 DEF TimerIInv, StopsInv
  <2>2. crashed => \E i \in late : owner'[i] # "ex"
    BY <1>1, <1>4 DEF TimerIInv, StopsInv
  <2> QED BY <1>2, <2>1, <2>2 DEF StopsInv
<1>12. ActiveInv'
  <2> SUFFICES ASSUME NEW i \in mapActiveTimer' PROVE Alive(i)' \/ i \in stopped' \/ i = cur'
    BY DEF ActiveInv
  <2>1. CASE i = n
    BY <1>1, <2>1 DEF Alive
  <2>2. CASE i \in mapActiveTimer
    BY <1>2, <1>4, <1>9, <2>2 DEF TimerIInv, ActiveInv
  <2> QED BY <1>3, <2>1, <2>2
<1>13. \A i \in Timers : Again(i) => Again(i)'
  BY <1>1, <1>2, <1>4 DEF Again
<1>14. ArmedInv'
  <2> SUFFICES ASSUME NEW i \in Timers \cup {n}, st'[i] = "armed"
               PROVE  \/ owner'[i] = "plain" \/ Again(i)'
                      \/ ~released' /\ owner'[i] = "ex" /\ i \in mapActiveTimer'
                      \/ ~released' /\ owner'[i] \in Cron /\ owner'[i] \in mapActiveCron'
    BY <1>1 DEF ArmedInv
  <2>1. CASE i = n
    BY <1>1, <1>2, <1>3, <2>1
  <2>2. CASE i \in Timers
    <3>1. \/ owner[i] = "plain" \/ Again(i)
          \/ ~released /\ owner[i] = "ex" /\ i \in mapActiveTimer
          \/ ~released /\ owner[i] \in Cron /\ owner[i] \in mapActiveCron
      BY <1>1, <2>2 DEF TimerIInv, ArmedInv
    <3>2. mapActiveTimer \subseteq mapActiveTimer' /\ mapActiveCron \subseteq mapActiveCron'
      BY <1>3
    <3> QED BY <1>1, <1>2, <1>13, <2>2, <3>1, <3>2
  <2> QED BY <2>1, <2>2
<1> QED BY <1>5, <1>6, <1>8, <1>10, <1>11, <1>12, <1>14 DEF TimerIInv

-----------------------------------------------------------------------------
\* A step that creates no timer and brings none back.
OldTimers ==
    /\ owner' = owner /\ cronT' = cronT /\ crons \subseteq crons'
    /\ \A i \in Timers : Alive(i)' => Alive(i)

\* Such a step keeps Cron.t the last timer of its cron.
LEMMA OldCrons ==
    ASSUME TimerIInv, OldTimers
    PROVE  CronsInv' /\ Timers' = Timers /\ \A i : ran \subseteq ran' /\ Again(i) => Again(i)'
<1>1. Timers' = Timers
  BY DEF OldTimers, Timers
<1>2. CronsInv'
  BY <1>1 DEF TimerIInv, CronsInv, OldTimers
<1>3. \A i : ran \subseteq ran' /\ Again(i) => Again(i)'
  BY DEF Again, OldTimers
<1> QED BY <1>1, <1>2, <1>3

\* A step that stops nothing.
LEMMA OldStops ==
    ASSUME TimerIInv, OldTimers, UNCHANGED <<stopped, late, crashed>>
    PROVE  StopsInv'
<1>1. stopped \subseteq Timers
  BY DEF TimerIInv, TimerVarsInv
<1> QED BY <1>1 DEF TimerIInv, StopsInv, OldTimers

\* A step that leaves the maps.
LEMMA OldMaps ==
    ASSUME TimerIInv, OldTimers, ran \subseteq ran', mapActiveTimer' = mapActiveTimer,
           mapActiveCron \subseteq mapActiveCron', released' = released,
           \A i \in Timers : st'[i] = "armed" => st[i] = "armed"
    PROVE  ArmedInv'
<1> SUFFICES ASSUME NEW i \in Timers, st'[i] = "armed"
             PROVE  \/ owner'[i] = "plain" \/ Again(i)'
                    \/ ~released' /\ owner'[i] = "ex" /\ i \in mapActiveTimer'
                    \/ ~released' /\ owner'[i] \in Cron /\ owner'[i] \in mapActiveCron'
  BY OldCrons DEF ArmedInv
<1>1. \/ owner[i] = "plain" \/ Again(i)
      \/ ~released /\ owner[i] = "ex" /\ i \in mapActiveTimer
      \/ ~released /\ owner[i] \in Cron /\ owner[i] \in mapActiveCron
  BY DEF TimerIInv, ArmedInv
<1>2. owner' = owner /\ (Again(i) => Again(i)')
  BY OldCrons DEF OldTimers
<1> QED BY <1>1, <1>2

\* Module.CronFunc with an expression that has no next time.
LEMMA CronNeverStep ==
    ASSUME TimerIInv, NEW c \in Cron, crons' = crons \cup {c}, mapActiveCron' = mapActiveCron \cup {c},
           UNCHANGED <<owner, st, cronT, stopped, late, ChanTimer, mapActiveTimer, cur, ran, released,
                       crashed>>
    PROVE  TimerIInv'
<1>1. OldTimers
  BY DEF OldTimers, Alive
<1>2. Timers' = Timers
  BY <1>1, OldCrons
<1>3. TimerVarsInv'
  BY <1>2 DEF TimerIInv, TimerVarsInv
<1>4. FlagsInv' /\ PlaceInv'
  BY <1>2 DEF TimerIInv, FlagsInv, PlaceInv
<1>5. ActiveInv'
  BY DEF TimerIInv, ActiveInv, Alive
<1>6. CronsInv' /\ StopsInv' /\ ArmedInv'
  BY <1>1, OldCrons, OldStops, OldMaps
<1> QED BY <1>3, <1>4, <1>5, <1>6 DEF TimerIInv

\* A timer comes due.
LEMMA FireStep ==
    ASSUME TimerIInv, NEW h \in Timers, Fire(h)
    PROVE  TimerIInv'
<1>1. /\ st[h] = "armed" /\ st' = [st EXCEPT ![h] = "sending"]
      /\ UNCHANGED <<owner, stopped, late, ChanTimer, crons, cronT, mapActiveTimer, mapActiveCron, cur,
                     ran, released, crashed>>
  BY DEF Fire
<1>2. /\ st' \in [Ids -> {"free", "armed", "off", "sending", "sent"}] /\ st'[h] = "sending"
      /\ \A i \in Timers : i # h => st'[i] = st[i]
  BY <1>1, TimerFacts DEF TimerIInv, TimerVarsInv
<1>3. \A i \in Timers : Alive(i)' <=> Alive(i)
  BY <1>1, <1>2 DEF Alive
<1>4. OldTimers
  BY <1>1, <1>3 DEF OldTimers
<1>5. Timers' = Timers
  BY <1>4, OldCrons
<1>6. TimerVarsInv'
  BY <1>1, <1>2, <1>5 DEF TimerIInv, TimerVarsInv
<1>7. FlagsInv'
  BY <1>1 DEF TimerIInv, FlagsInv
<1>8. PlaceInv'
  <2>1. ran \subseteq Timers
    BY DEF TimerIInv, TimerVarsInv
  <2> QED BY <1>1, <1>2, <1>5, <2>1 DEF TimerIInv, PlaceInv
<1>9. ActiveInv'
  <2>1. mapActiveTimer \subseteq Timers
    BY DEF TimerIInv, TimerVarsInv
  <2> QED BY <1>1, <1>3, <2>1 DEF TimerIInv, ActiveInv
<1>10. \A i \in Timers : st'[i] = "armed" => st[i] = "armed"
  BY <1>1, <1>2
<1>11. CronsInv' /\ StopsInv' /\ ArmedInv'
  BY <1>1, <1>4, <1>10, OldCrons, OldStops, OldMaps
<1> QED BY <1>6, <1>7, <1>8, <1>9, <1>11 DEF TimerIInv

\* The goroutine of a timer sends it.
LEMMA SendStep ==
    ASSUME TimerIInv, NEW h \in Timers, Send(h)
    PROVE  TimerIInv'
<1>1. /\ st[h] = "sending" /\ st' = [st EXCEPT ![h] = "sent"] /\ Len(ChanTimer) < ChanLen
      /\ ChanTimer' = Append(ChanTimer, h)
      /\ UNCHANGED <<owner, stopped, late, crons, cronT, mapActiveTimer, mapActiveCron, cur, ran,
                     released, crashed>>
  BY DEF Send
<1>2. /\ st' \in [Ids -> {"free", "armed", "off", "sending", "sent"}] /\ st'[h] = "sent"
      /\ \A i \in Timers : i # h => st'[i] = st[i]
  BY <1>1, TimerFacts DEF TimerIInv, TimerVarsInv
<1>3. /\ \A i : On(ChanTimer', i) <=> On(ChanTimer, i) \/ i = h
      /\ Once(ChanTimer) /\ ~On(ChanTimer, h) => Once(ChanTimer')
  BY <1>1, TimerFacts, OnAppend
<1>4. \A i \in Timers : Alive(i)' <=> Alive(i)
  BY <1>1, <1>2, <1>3 DEF Alive
<1>5. OldTimers
  BY <1>1, <1>4 DEF OldTimers
<1>6. Timers' = Timers
  BY <1>5, OldCrons
<1>7. TimerVarsInv'
  <2>1. ChanTimer' \in Seq(Timers) /\ Len(ChanTimer') = Len(ChanTimer) + 1 /\ Len(ChanTimer) \in Nat
    BY <1>1, TimerFacts, SeqAppend
  <2>2. Len(ChanTimer') <= ChanLen
    BY <1>1, <2>1, TimerAssumption
  <2> QED BY <1>1, <1>2, <1>6, <2>1, <2>2 DEF TimerIInv, TimerVarsInv
<1>8. FlagsInv'
  BY <1>1 DEF TimerIInv, FlagsInv
<1>9. PlaceInv'
  <2>1. ran \subseteq Timers /\ h \notin ran /\ ~On(ChanTimer, h)
    BY <1>1 DEF TimerIInv, TimerVarsInv, PlaceInv
  <2> QED BY <1>1, <1>2, <1>3, <1>6, <2>1 DEF TimerIInv, PlaceInv
<1>10. ActiveInv'
  <2>1. mapActiveTimer \subseteq Timers
    BY DEF TimerIInv, TimerVarsInv
  <2> QED BY <1>1, <1>4, <2>1 DEF TimerIInv, ActiveInv
<1>11. \A i \in Timers : st'[i] = "armed" => st[i] = "armed"
  BY <1>1, <1>2
<1>12. CronsInv' /\ StopsInv' /\ ArmedInv'
  BY <1>1, <1>5, <1>11, OldCrons, OldStops, OldMaps
<1> QED BY <1>7, <1>8, <1>9, <1>10, <1>12 DEF TimerIInv

\* Stop of the timers S, by Timer.Stop and Cron.Stop, or by ReleaseModule for
\* what the maps hold.
StopStep(S) ==
    /\ ~crashed /\ Stop(S)
    /\ UNCHANGED <<owner, ChanTimer, crons, cronT, cur, ran, crashed>>
    /\ \/ UNCHANGED <<mapActiveTimer, mapActiveCron, released>>
       \/ /\ S = mapActiveTimer \cup CronTimers(mapActiveCron)
          /\ released' = TRUE /\ mapActiveTimer' = {} /\ mapActiveCron' = {}

\* Timer.Stop, Cron.Stop and ReleaseModule keep the invariant.
LEMMA StopSteps ==
    ASSUME TimerIInv, NEW S \in SUBSET Timers, StopStep(S)
    PROVE  TimerIInv'
<1>1. /\ ~crashed /\ UNCHANGED <<owner, ChanTimer, crons, cronT, cur, ran, crashed>>
      /\ st' = [i \in Ids |-> IF i \in S /\ st[i] = "armed" THEN "off" ELSE st[i]]
      /\ stopped' = stopped \cup S
      /\ late' = late \cup {i \in S : st[i] \in {"sending", "sent"} /\ i \notin ran}
  BY DEF StopStep, Stop
<1>2. /\ stopped \subseteq Timers /\ late \subseteq stopped /\ ran \subseteq Timers
      /\ mapActiveTimer \subseteq Timers /\ mapActiveCron \subseteq Cron
      /\ st \in [Ids -> {"free", "armed", "off", "sending", "sent"}]
  BY DEF TimerIInv, TimerVarsInv
<1>3. \A i \in Timers : IF i \in S /\ st[i] = "armed" THEN st'[i] = "off" ELSE st'[i] = st[i]
  BY <1>1, TimerFacts
<1>4. st' \in [Ids -> {"free", "armed", "off", "sending", "sent"}]
  BY <1>1, <1>2
<1>5. \A i \in Timers : Alive(i)' => Alive(i)
  BY <1>1, <1>3 DEF Alive
<1>6. \A i \in Timers : i \notin S /\ Alive(i) => Alive(i)'
  BY <1>1, <1>3 DEF Alive
<1>7. OldTimers
  BY <1>1, <1>5 DEF OldTimers
<1>8. Timers' = Timers
  BY <1>7, OldCrons
<1>9. TimerVarsInv'
  <2>1. stopped' \subseteq Timers /\ late' \subseteq stopped'
    BY <1>1, <1>2
  <2>2. mapActiveTimer' \subseteq Timers /\ mapActiveCron' \subseteq Cron
    BY <1>2 DEF StopStep
  <2> QED BY <1>1, <1>4, <1>8, <2>1, <2>2 DEF TimerIInv, TimerVarsInv
<1>10. FlagsInv'
  BY <1>1 DEF TimerIInv, FlagsInv, StopStep
<1>11. PlaceInv'
  BY <1>1, <1>2, <1>3, <1>8 DEF TimerIInv, PlaceInv
<1>12. StopsInv'
  <2>1. ASSUME NEW i \in stopped', Alive(i)' PROVE i \in late'
    <3>1. i \in Timers /\ Alive(i)
      BY <1>1, <1>2, <1>5, <2>1
    <3>2. CASE i \in stopped
      BY <1>1, <3>1, <3>2 DEF TimerIInv, StopsInv
    <3>3. CASE i \in S
      <4>1. st[i] # "armed"
        <5>1. ASSUME st[i] = "armed" PROVE FALSE
          <6>1. st'[i] = "off" /\ ~On(ChanTimer, i)
            BY <1>3, <3>1, <3>3, <5>1 DEF TimerIInv, PlaceInv
          <6> QED BY <1>1, <2>1, <6>1 DEF Alive
        <5> QED BY <5>1
      <4>2. st[i] \in {"sending", "sent"} /\ i \notin ran
        BY <3>1, <4>1 DEF Alive, TimerIInv, PlaceInv
      <4> QED BY <1>1, <3>3, <4>2
    <3> QED BY <1>1, <3>2, <3>3
  <2> QED BY <1>1, <2>1 DEF StopsInv
<1>13. ActiveInv'
  <2> SUFFICES ASSUME NEW i \in mapActiveTimer' PROVE Alive(i)' \/ i \in stopped' \/ i = cur'
    BY DEF ActiveInv
  <2>1. i \in mapActiveTimer /\ i \in Timers
    BY <1>2 DEF StopStep
  <2> QED BY <1>1, <1>6, <2>1 DEF TimerIInv, ActiveInv
<1>14. ArmedInv'
  <2>1. \A i \in Timers : st'[i] = "armed" => st[i] = "armed" /\ i \notin S
    BY <1>3
  <2>2. CASE UNCHANGED <<mapActiveTimer, mapActiveCron, released>>
    BY <1>1, <1>7, <2>1, <2>2, OldMaps
  <2>3. CASE S = mapActiveTimer \cup CronTimers(mapActiveCron)
    <3> SUFFICES ASSUME NEW i \in Timers, st'[i] = "armed"
                 PROVE  owner'[i] = "plain" \/ Again(i)'
      BY <1>8 DEF ArmedInv
    <3>1. st[i] = "armed" /\ i \notin S
      BY <2>1
    <3>2. \/ owner[i] = "plain" \/ Again(i)
          \/ ~released /\ owner[i] = "ex" /\ i \in mapActiveTimer
          \/ ~released /\ owner[i] \in Cron /\ owner[i] \in mapActiveCron
      BY <3>1 DEF TimerIInv, ArmedInv
    <3>3. i \notin mapActiveTimer
      BY <2>3, <3>1
    <3>4. ASSUME owner[i] \in Cron, owner[i] \in mapActiveCron PROVE FALSE
      <4>1. i = cronT[owner[i]]
        BY <3>1, <3>4 DEF TimerIInv, CronsInv, Alive
      <4>2. i \in CronTimers(mapActiveCron)
        BY <3>4, <4>1, TimerFacts DEF CronTimers
      <4> QED BY <2>3, <3>1, <4>2
    <3>5. Again(i) => Again(i)'
      BY <1>1, <1>7, OldCrons
    <3> QED BY <1>1, <3>2, <3>3, <3>4, <3>5
  <2> QED BY <2>2, <2>3 DEF StopStep
<1> QED BY <1>7, <1>9, <1>10, <1>11, <1>12, <1>13, <1>14, OldCrons DEF TimerIInv

-----------------------------------------------------------------------------
\* The loop takes timer h from ChanTimer.
TakenTimer(h) ==
    /\ cur = 0 /\ ChanTimer # <<>> /\ h = Head(ChanTimer) /\ ChanTimer' = Tail(ChanTimer)
    /\ UNCHANGED <<stopped, late, crons, mapActiveTimer, mapActiveCron, released>>

\* Timer h was there once, had not run, and if a cron's is Cron.t.
LEMMA TakenFacts ==
    ASSUME TimerIInv, NEW h, TakenTimer(h)
    PROVE  /\ h \in Timers /\ On(ChanTimer, h) /\ st[h] = "sent" /\ h \notin ran /\ ~On(ChanTimer', h)
           /\ \A i : i # h => (On(ChanTimer', i) <=> On(ChanTimer, i))
           /\ Once(ChanTimer') /\ ChanTimer' \in Seq(Timers) /\ Len(ChanTimer') <= ChanLen
           /\ owner[h] \in Cron => owner[h] \in crons /\ h = cronT[owner[h]]
<1>1. ChanTimer \in Seq(Timers) /\ ChanTimer # <<>> /\ h = Head(ChanTimer)
      /\ ChanTimer' = Tail(ChanTimer) /\ Len(ChanTimer) <= ChanLen /\ Once(ChanTimer)
  BY DEF TimerIInv, TimerVarsInv, PlaceInv, TakenTimer
<1>2. /\ On(ChanTimer, h) /\ \A i : On(ChanTimer, i) <=> On(ChanTimer', i) \/ i = h
      /\ Once(ChanTimer') /\ ~On(ChanTimer', h)
  BY <1>1, OnTail
<1>3. /\ h \in Timers /\ ChanTimer' \in Seq(Timers) /\ Len(ChanTimer) \in Nat
      /\ Len(ChanTimer') = Len(ChanTimer) - 1
  BY <1>1, SeqTail
<1>4. Len(ChanTimer') <= ChanLen
  BY <1>1, <1>3, TimerAssumption
<1>5. st[h] = "sent" /\ h \notin ran
  BY <1>2, <1>3 DEF TimerIInv, PlaceInv
<1>6. owner[h] \in Cron => owner[h] \in crons /\ h = cronT[owner[h]]
  BY <1>2, <1>3 DEF TimerIInv, CronsInv, Alive
<1> QED BY <1>2, <1>3, <1>4, <1>5, <1>6

\* Cb of a timer that was stopped on its way, with no function to call.
LEMMA NilCbStep ==
    ASSUME TimerIInv, NEW h, TakenTimer(h), NilCb(h), crashed' = TRUE,
           UNCHANGED <<owner, st, cronT, cur, ran>>
    PROVE  TimerIInv'
<1>1. /\ h \in Timers /\ On(ChanTimer, h) /\ ~On(ChanTimer', h)
      /\ \A i : i # h => (On(ChanTimer', i) <=> On(ChanTimer, i))
      /\ Once(ChanTimer') /\ ChanTimer' \in Seq(Timers) /\ Len(ChanTimer') <= ChanLen
  BY TakenFacts
<1>2. UNCHANGED <<stopped, late, crons, mapActiveTimer, mapActiveCron, released>>
  BY DEF TakenTimer
<1>3. \A i : Alive(i)' => Alive(i)
  BY <1>1 DEF Alive
<1>4. OldTimers
  BY <1>2, <1>3 DEF OldTimers
<1>5. Timers' = Timers /\ CronsInv'
  BY <1>4, OldCrons
<1>6. TimerVarsInv'
  BY <1>1, <1>2, <1>5 DEF TimerIInv, TimerVarsInv
<1>7. FlagsInv'
  BY <1>2 DEF TimerIInv, FlagsInv
<1>8. PlaceInv'
  BY <1>1, <1>5 DEF TimerIInv, PlaceInv
<1>9. StopsInv'
  <2>1. h \in late /\ owner[h] # "ex"
    BY <1>1 DEF TimerIInv, StopsInv, NilCb, Alive
  <2> QED BY <1>2, <1>3, <2>1 DEF TimerIInv, StopsInv
<1>10. ActiveInv'
  <2>1. \A i : i # h /\ Alive(i) => Alive(i)'
    BY <1>1 DEF Alive
  <2> QED BY <1>2, <2>1 DEF TimerIInv, ActiveInv, NilCb
<1>11. ArmedInv'
  BY <1>2, <1>4, OldMaps
<1> QED BY <1>5, <1>6, <1>7, <1>8, <1>9, <1>10, <1>11 DEF TimerIInv

\* Cb calls the function of timer h, which arms no other.
LEMMA CbStep ==
    ASSUME TimerIInv, NEW h, TakenTimer(h), cur' = h, ran' = ran \cup {h},
           UNCHANGED <<owner, st, cronT, crashed>>
    PROVE  TimerIInv'
<1>1. /\ h \in Timers /\ On(ChanTimer, h) /\ st[h] = "sent" /\ ~On(ChanTimer', h)
      /\ \A i : i # h => (On(ChanTimer', i) <=> On(ChanTimer, i))
      /\ Once(ChanTimer') /\ ChanTimer' \in Seq(Timers) /\ Len(ChanTimer') <= ChanLen
  BY TakenFacts
<1>2. cur = 0 /\ UNCHANGED <<stopped, late, crons, mapActiveTimer, mapActiveCron, released>>
  BY DEF TakenTimer
<1>3. \A i : Alive(i)' => Alive(i)
  BY <1>1 DEF Alive
<1>4. OldTimers
  BY <1>2, <1>3 DEF OldTimers
<1>5. Timers' = Timers /\ CronsInv'
  BY <1>4, OldCrons
<1>6. TimerVarsInv'
  BY <1>1, <1>2, <1>5 DEF TimerIInv, TimerVarsInv
<1>7. FlagsInv'
  BY <1>2 DEF TimerIInv, FlagsInv
<1>8. PlaceInv'
  BY <1>1, <1>5 DEF TimerIInv, PlaceInv
<1>9. ActiveInv'
  <2>1. \A i : i # h /\ Alive(i) => Alive(i)'
    BY <1>1 DEF Alive
  <2>2. 0 \notin mapActiveTimer
    BY TimerFacts DEF TimerIInv, TimerVarsInv
  <2> QED BY <1>2, <2>1, <2>2 DEF TimerIInv, ActiveInv
<1>10. StopsInv' /\ ArmedInv'
  BY <1>2, <1>4, OldStops, OldMaps
<1> QED BY <1>5, <1>6, <1>7, <1>8, <1>9, <1>10 DEF TimerIInv

\* Cb calls the function of a cron's timer h, which arms the next firing n.
LEMMA CbRearmStep ==
    ASSUME TimerIInv, NEW h, TakenTimer(h), cur' = h, ran' = ran \cup {h}, owner[h] \in Cron,
           Arm(owner[h]), cronT' = [cronT EXCEPT ![owner[h]] = Len(owner) + 1], crashed' = crashed
    PROVE  TimerIInv'
<1> DEFINE n == Len(owner) + 1
           o == owner[h]
<1>1. /\ n \in Ids /\ n \notin Timers /\ n # 0 /\ Timers' = Timers \cup {n}
      /\ \A i \in Timers : i < n
      /\ owner' \in Seq({"ex", "plain"} \cup Cron) /\ Len(owner') <= MaxTimers
      /\ owner'[n] = o /\ \A i \in Timers : owner'[i] = owner[i]
      /\ st' \in [Ids -> {"free", "armed", "off", "sending", "sent"}]
      /\ st'[n] = "armed" /\ \A i \in Timers : st'[i] = st[i]
      /\ \A s \in Seq(Timers) : s \in Seq(Timers')
  BY ArmFacts
<1>2. /\ h \in Timers /\ On(ChanTimer, h) /\ st[h] = "sent" /\ h \notin ran /\ ~On(ChanTimer', h)
      /\ \A i : i # h => (On(ChanTimer', i) <=> On(ChanTimer, i))
      /\ Once(ChanTimer') /\ ChanTimer' \in Seq(Timers) /\ Len(ChanTimer') <= ChanLen
      /\ o \in crons /\ h = cronT[o]
  BY TakenFacts
<1>3. cur = 0 /\ UNCHANGED <<stopped, late, crons, mapActiveTimer, mapActiveCron, released>>
  BY DEF TakenTimer
<1>4. o \in Cron /\ cronT' = [cronT EXCEPT ![o] = n]
  OBVIOUS
<1> HIDE DEF n, o
<1>5. /\ cronT \in [Cron -> Timers \cup {0}] /\ mapActiveTimer \subseteq Timers
      /\ stopped \subseteq Timers /\ ran \subseteq Timers /\ late \subseteq stopped
      /\ crons \subseteq Cron /\ mapActiveCron \subseteq Cron
  BY DEF TimerIInv, TimerVarsInv
<1>6. TimerVarsInv'
  <2>1. cronT' \in [Cron -> Timers' \cup {0}]
    BY <1>1, <1>4, <1>5
  <2>2. /\ mapActiveTimer' \subseteq Timers' /\ stopped' \subseteq Timers' /\ ran' \subseteq Timers'
        /\ late' \subseteq stopped' /\ cur' \in Timers' \cup {0}
        /\ crons' \subseteq Cron /\ mapActiveCron' \subseteq Cron
    BY <1>1, <1>2, <1>3, <1>5
  <2>3. ChanTimer' \in Seq(Timers')
    BY <1>1, <1>2
  <2> QED BY <1>1, <1>2, <2>1, <2>2, <2>3 DEF TimerVarsInv
<1>7. FlagsInv'
  BY <1>3 DEF TimerIInv, FlagsInv
<1>8. ~On(ChanTimer', n) /\ n \notin ran'
  <2>1. ~On(ChanTimer, n) /\ n # h
    BY <1>1, <1>2, TimerFacts
  <2> QED BY <1>1, <1>2, <1>5, <2>1
<1>9. PlaceInv'
  <2>1. ASSUME NEW i \in Timers', On(ChanTimer', i) PROVE st'[i] = "sent" /\ i \notin ran'
    <3>1. i \in Timers /\ i # h /\ On(ChanTimer, i)
      BY <1>1, <1>2, <1>8, <2>1
    <3> QED BY <1>1, <3>1 DEF TimerIInv, PlaceInv
  <2>2. \A i \in ran' : st'[i] = "sent"
    BY <1>1, <1>2, <1>5 DEF TimerIInv, PlaceInv
  <2> QED BY <1>2, <2>1, <2>2 DEF PlaceInv
<1>10. \A i \in Timers : Alive(i)' <=> Alive(i) /\ i # h
  BY <1>1, <1>2 DEF Alive
<1>11. CronsInv'
  <2> SUFFICES ASSUME NEW i \in Timers \cup {n}, owner'[i] \in Cron
               PROVE  /\ owner'[i] \in crons' /\ i <= cronT'[owner'[i]]
                      /\ Alive(i)' => i = cronT'[owner'[i]]
    BY <1>1 DEF CronsInv
  <2>1. CASE i = n
    <3>1. n <= n
      BY <1>1 DEF Ids
    <3> QED BY <1>1, <1>2, <1>3, <1>4, <1>5, <2>1, <3>1
  <2>2. CASE i \in Timers
    <3>1. /\ owner'[i] = owner[i] /\ owner[i] \in crons /\ i <= cronT[owner[i]]
          /\ Alive(i) => i = cronT[owner[i]]
      BY <1>1, <2>2 DEF TimerIInv, CronsInv
    <3>2. CASE owner[i] = o
      <4>1. cronT'[o] = n /\ i < n /\ i \in Ids
        BY <1>1, <1>4, <1>5, <2>2, TimerFacts
      <4>2. i <= n
        BY <1>1, <4>1 DEF Ids
      <4>3. ~Alive(i)'
        BY <1>2, <1>10, <2>2, <3>1, <3>2
      <4> QED BY <1>3, <3>1, <3>2, <4>1, <4>2, <4>3
    <3>3. CASE owner[i] # o
      <4>1. cronT'[owner[i]] = cronT[owner[i]]
        BY <1>4, <1>5, <3>1, <3>3
      <4> QED BY <1>3, <1>10, <2>2, <3>1, <4>1
    <3> QED BY <3>2, <3>3
  <2> QED BY <2>1, <2>2
<1>12. StopsInv'
  <2>1. \A i \in stopped : Alive(i)' => i \in late
    BY <1>5, <1>10 DEF TimerIInv, StopsInv
  <2>2. crashed => \E i \in late : owner'[i] # "ex"
    BY <1>1, <1>5 DEF TimerIInv, StopsInv
  <2> QED BY <1>3, <2>1, <2>2 DEF StopsInv
<1>13. ActiveInv'
  <2> SUFFICES ASSUME NEW i \in mapActiveTimer PROVE Alive(i)' \/ i \in stopped' \/ i = cur'
    BY <1>3 DEF ActiveInv
  <2>1. i \in Timers /\ i # 0
    BY <1>5, TimerFacts
  <2>2. Alive(i) \/ i \in stopped
    BY <1>3, <2>1 DEF TimerIInv, ActiveInv
  <2> QED BY <1>3, <1>10, <2>1, <2>2
<1>14. ArmedInv'
  <2> SUFFICES ASSUME NEW i \in Timers \cup {n}, st'[i] = "armed"
               PROVE  \/ owner'[i] = "plain" \/ Again(i)'
                      \/ ~released' /\ owner'[i] = "ex" /\ i \in mapActiveTimer'
                      \/ ~released' /\ owner'[i] \in Cron /\ owner'[i] \in mapActiveCron'
    BY <1>1 DEF ArmedInv
  <2>1. CASE i = n
    <3>1. h \in ran' /\ h < n /\ owner'[h] = o /\ owner'[n] = o
      BY <1>1, <1>2 DEF o
    <3>2. \A j : j = n => (owner'[j] \in Cron /\ \E k \in ran' : k < j /\ owner'[k] = owner'[j])
      BY <1>4, <3>1
    <3> QED BY <2>1, <3>2 DEF Again
  <2>2. CASE i \in Timers
    <3>1. \/ owner[i] = "plain" \/ Again(i)
          \/ ~released /\ owner[i] = "ex" /\ i \in mapActiveTimer
          \/ ~released /\ owner[i] \in Cron /\ owner[i] \in mapActiveCron
      BY <1>1, <2>2 DEF TimerIInv, ArmedInv
    <3>2. Again(i) => Again(i)'
      BY <1>1, <1>5, <2>2 DEF Again
    <3> QED BY <1>1, <1>3, <2>2, <3>1, <3>2
  <2> QED BY <2>1, <2>2
<1> QED BY <1>6, <1>7, <1>9, <1>11, <1>12, <1>13, <1>14 DEF TimerIInv

\* The callback returns.
LEMMA EndCbStep ==
    ASSUME TimerIInv, EndCb
    PROVE  TimerIInv'
<1>1. /\ cur # 0 /\ cur' = 0 /\ mapActiveTimer' = mapActiveTimer \ {cur}
      /\ mapActiveCron' = mapActiveCron \ {owner[cur]}
      /\ UNCHANGED <<owner, st, stopped, late, ChanTimer, crons, cronT, ran, released, crashed>>
  BY DEF EndCb
<1>2. cur \in ran /\ cur \in Timers /\ st[cur] = "sent" /\ ~On(ChanTimer, cur)
  BY <1>1 DEF TimerIInv, PlaceInv, TimerVarsInv
<1>3. \A i : Alive(i)' <=> Alive(i)
  BY <1>1 DEF Alive
<1>4. OldTimers
  BY <1>1, <1>3 DEF OldTimers
<1>5. Timers' = Timers /\ CronsInv' /\ StopsInv'
  BY <1>1, <1>4, OldCrons, OldStops
<1>6. TimerVarsInv'
  BY <1>1, <1>5 DEF TimerIInv, TimerVarsInv
<1>7. FlagsInv' /\ PlaceInv'
  BY <1>1, <1>5 DEF TimerIInv, FlagsInv, PlaceInv
<1>8. ActiveInv'
  BY <1>1, <1>3 DEF TimerIInv, ActiveInv
<1>9. ArmedInv'
  <2> SUFFICES ASSUME NEW i \in Timers, st[i] = "armed"
               PROVE  \/ owner[i] = "plain" \/ Again(i)
                      \/ ~released /\ owner[i] = "ex" /\ i \in mapActiveTimer'
                      \/ ~released /\ owner[i] \in Cron /\ owner[i] \in mapActiveCron'
    BY <1>1, <1>5 DEF ArmedInv, Again
  <2>1. \/ owner[i] = "plain" \/ Again(i)
        \/ ~released /\ owner[i] = "ex" /\ i \in mapActiveTimer
        \/ ~released /\ owner[i] \in Cron /\ owner[i] \in mapActiveCron
    BY DEF TimerIInv, ArmedInv
  <2>2. i # cur
    BY <1>2
  <2>3. ASSUME owner[i] \in Cron, owner[i] = owner[cur] PROVE Again(i)
    <3>1. i = cronT[owner[i]] /\ cur <= cronT[owner[cur]]
      BY <1>2, <2>3 DEF TimerIInv, CronsInv, Alive
    <3>2. cur \in Nat /\ i \in Nat
      BY <1>2, TimerFacts DEF Ids
    <3>3. cur < i
      BY <2>2, <2>3, <3>1, <3>2
    <3> QED BY <1>2, <2>3, <3>3 DEF Again
  <2> QED BY <1>1, <2>1, <2>2, <2>3
<1> QED BY <1>5, <1>6, <1>7, <1>8, <1>9 DEF TimerIInv

\* Every step of the module, the runtime and the loop.
LEMMA TimerSteps ==
    ASSUME TimerIInv, TimerNext
    PROVE  TimerIInv'
<1>1. CASE AfterFunc
  <2>1. ArmStep("ex")
    BY <1>1, TimerAssumption DEF AfterFunc, ArmStep
  <2> QED BY <2>1, ArmSteps
<1>2. CASE DispatcherAfterFunc
  <2>1. ArmStep("plain")
    BY <1>2, TimerAssumption DEF DispatcherAfterFunc, ArmStep
  <2> QED BY <2>1, ArmSteps
<1>3. ASSUME NEW c \in Cron, CronFunc(c) PROVE TimerIInv'
  <2>1. CASE Arm(c) /\ cronT' = [cronT EXCEPT ![c] = Len(owner) + 1]
    <3>1. ArmStep(c)
      BY <1>3, <2>1, TimerAssumption DEF CronFunc, ArmStep
    <3> QED BY <3>1, ArmSteps
  <2>2. CASE UNCHANGED <<owner, st, cronT>>
    BY <1>3, <2>2, CronNeverStep DEF CronFunc
  <2> QED BY <1>3, <2>1, <2>2 DEF CronFunc
<1>4. ASSUME NEW i \in Timers, TimerStop(i) PROVE TimerIInv'
  <2>1. StopStep({i})
    BY <1>4 DEF TimerStop, StopStep
  <2> QED BY <2>1, StopSteps
<1>5. \A C \in SUBSET Cron : CronTimers(C) \in SUBSET Timers
  BY DEF TimerIInv, TimerVarsInv, CronTimers
<1>6. ASSUME NEW c \in Cron, CronStop(c) PROVE TimerIInv'
  <2>1. StopStep(CronTimers({c}))
    BY <1>6 DEF CronStop, StopStep
  <2> QED BY <1>5, <2>1, StopSteps
<1>7. CASE ReleaseTimers
  <2>1. StopStep(mapActiveTimer \cup CronTimers(mapActiveCron))
    BY <1>7 DEF ReleaseTimers, StopStep
  <2>2. mapActiveTimer \cup CronTimers(mapActiveCron) \in SUBSET Timers
    BY <1>5 DEF TimerIInv, TimerVarsInv
  <2> QED BY <2>1, <2>2, StopSteps
<1>8. CASE Cb
  <2>1. PICK h : h = Head(ChanTimer)
    OBVIOUS
  <2>2. TakenTimer(h)
    BY <1>8, <2>1 DEF Cb, TakenTimer
  <2>3. CASE NilCb(h) /\ crashed' = TRUE /\ UNCHANGED <<owner, st, cronT, cur, ran>>
    BY <2>2, <2>3, NilCbStep
  <2>4. CASE /\ cur' = h /\ ran' = ran \cup {h} /\ owner[h] \in Cron /\ Rearm(owner[h])
             /\ UNCHANGED crashed
    BY <2>2, <2>4, CbRearmStep, CbStep DEF Rearm
  <2>5. CASE /\ cur' = h /\ ran' = ran \cup {h} /\ UNCHANGED <<owner, st, cronT>> /\ UNCHANGED crashed
    BY <2>2, <2>5, CbStep
  <2> QED BY <1>8, <2>1, <2>3, <2>4, <2>5 DEF Cb
<1>9. CASE EndCb
  BY <1>9, EndCbStep
<1>10. ASSUME NEW i \in Timers, Runtime(i) PROVE TimerIInv'
  BY <1>10, FireStep, SendStep DEF Runtime
<1> QED BY <1>1, <1>2, <1>3, <1>4, <1>6, <1>7, <1>8, <1>9, <1>10 DEF TimerNext, Code

\* What TimerIInv says of the handles and the maps.
LEMMA TimerPromise == TimerIInv => TrackInv
<1> SUFFICES ASSUME TimerIInv PROVE TrackInv
  OBVIOUS
<1>1. TimerTypeOK
  BY DEF TimerIInv, TimerVarsInv, FlagsInv, TimerTypeOK
<1>2. DOMAIN ChanTimer = 1..Len(ChanTimer)
  BY TimerFacts, LenProperties
<1>3. \A i : Live(i) <=> Alive(i)
  BY <1>2 DEF Live, Alive, Queued, On
<1>4. CronTracksTimer
  BY <1>3 DEF CronTracksTimer, TimerIInv, CronsInv
<1>5. StopIsFinal
  BY <1>3 DEF StopIsFinal, TimerIInv, StopsInv
<1>6. ActiveIsLive
  BY <1>3 DEF ActiveIsLive, TimerIInv, ActiveInv
<1>7. ReleaseDisarms
  <2> SUFFICES ASSUME released, NEW i \in Timers, st[i] = "armed"
               PROVE  \/ owner[i] = "plain"
                      \/ \E j \in ran : j < i /\ owner[j] = owner[i] /\ owner[i] \in Cron
    BY DEF ReleaseDisarms
  <2>1. owner[i] = "plain" \/ Again(i)
    BY DEF TimerIInv, ArmedInv
  <2> QED BY <2>1 DEF Again
<1> QED BY <1>1, <1>4, <1>5, <1>6, <1>7 DEF TrackInv

\* The handles and maps of a module lead to its timers whatever the number of
\* crons and timers and the capacity of ChanTimer: Cron.t is the timer of the cron
\* that can still come, ReleaseModule leaves nothing armed that the maps should
\* lead to, and a Stop in time is final.
THEOREM TimerSafe == TimerSpec => []TrackInv
<1>1. TimerInit => TimerIInv
  <2> SUFFICES ASSUME TimerInit PROVE TimerIInv
    OBVIOUS
  <2>1. Timers = {} /\ Len(owner) = 0 /\ Len(ChanTimer) = 0 /\ Len(owner) <= MaxTimers
        /\ Len(ChanTimer) <= ChanLen
    BY TimerAssumption DEF TimerInit, Timers
  <2>2. TimerVarsInv
    <3>1. owner \in Seq({"ex", "plain"} \cup Cron) /\ ChanTimer \in Seq(Timers)
      BY DEF TimerInit
    <3> QED BY <2>1, <3>1 DEF TimerInit, TimerVarsInv
  <2>3. FlagsInv
    BY DEF TimerInit, FlagsInv
  <2>4. PlaceInv
    <3>1. Once(ChanTimer)
      BY <2>1 DEF Once
    <3> QED BY <2>1, <3>1 DEF TimerInit, PlaceInv
  <2>5. CronsInv /\ StopsInv /\ ActiveInv /\ ArmedInv
    BY <2>1 DEF TimerInit, CronsInv, StopsInv, ActiveInv, ArmedInv
  <2> QED BY <2>2, <2>3, <2>4, <2>5 DEF TimerIInv
<1>2. TimerIInv /\ [TimerNext]_timerVars => TimerIInv'
  <2>1. ASSUME TimerIInv, UNCHANGED timerVars PROVE TimerIInv'
    <3>1. Timers' = Timers
      BY <2>1 DEF timerVars, Timers
    <3>2. TimerVarsInv' /\ FlagsInv'
      BY <2>1, <3>1 DEF timerVars, TimerIInv, TimerVarsInv, FlagsInv
    <3>3. PlaceInv' /\ CronsInv' /\ StopsInv' /\ ActiveInv' /\ ArmedInv'
      BY <2>1, <3>1 DEF timerVars, TimerIInv, PlaceInv, CronsInv, StopsInv, ActiveInv, ArmedInv, Again, Alive
    <3> QED BY <3>2, <3>3 DEF TimerIInv
  <2> QED BY <2>1, TimerSteps
<1> QED BY <1>1, <1>2, TimerPromise, PTL DEF TimerSpec

-----------------------------------------------------------------------------
(***************************************************************************)
(* The tree of modules.  While modules are released by their parents, the  *)
(* child maps form a forest of registered modules, also below a module     *)
(* whose OnInit failed; whoever releases, every registered module is below *)
(* the service or below a module that is not in the tree.  An AddModule in *)
(* progress keeps that: none of the parents on the way is below the module *)
(* it adds.                                                                *)
(***************************************************************************)
\* A set of ids that has, with an id, the children of its module: in the maps c
\* of children and the set d of descendants.
ClosedIn(c, d, C) == \A e \in d : e[1] \in C => c[e[2]] \subseteq C

BelowIn(c, d, S) ==
    {i \in ModuleIds : \A C \in SUBSET ModuleIds : S \subseteq C /\ ClosedIn(c, d, C) => i \in C}

\* The modules of D with an id in S, and the modules that are not in D.
FoundIn(d, S) == {m \in Module : \E e \in d : e[1] \in S /\ e[2] = m}
OutOf(d) == {m \in Module : ~\E e \in d : e[2] = m}

\* Where the walk over the child maps starts.
Starts(c, d) == c[Root] \cup UNION {c[m] : m \in OutOf(d)}

\* Ids are given once, in order, and a module is not its own child.
IdsInv ==
    /\ \A m \in Module : moduleId[m] <= seedModuleId /\ moduleId[m] \notin child[m]
    /\ \A n \in TreeNode : child[n] \subseteq 1..seedModuleId

\* The modules below m, without m.
Under(c, d, m) == FoundIn(d, BelowIn(c, d, c[m]))

\* A call of AddModule in progress: its module is new to the tree and to the
\* calls around it, its parent is in the tree or added by one of them, and the
\* parents of none of these calls are below its module.
AddingOk(k) ==
    /\ moduleId[adding[k][2]] # 0 /\ adding[k][2] \notin InTree
    /\ adding[k][1] \in InTree \/ \E j \in 1..(k - 1) : adding[k][1] = adding[j][2]
    /\ \A j \in 1..(k - 1) : adding[j][2] # adding[k][2]
    /\ \A j \in 1..k :
           /\ adding[j][1] # adding[k][2]
           /\ adding[j][1] \notin Under(child, descendants, adding[k][2])

AddingInv == \A k \in DOMAIN adding : AddingOk(k)

\* One parent, and it lists registered modules only.
ForestInv ==
    ~foreign =>
        /\ \A n \in TreeNode : child[n] \subseteq Registered
        /\ \A m, n \in TreeNode : m # n => child[m] \cap child[n] = {}

ReachInv == Registered \subseteq BelowIn(child, descendants, Starts(child, descendants))

TreeIInv ==
    TreeTypeOK /\ IdsInv /\ AddingInv /\ ForestInv /\ ReachInv /\ ReleaseSafe

\* A walk finds what it starts with and goes on to the children ...
LEMMA BelowFacts ==
    ASSUME NEW c, NEW d, NEW S \in SUBSET ModuleIds, \A e \in d : c[e[2]] \subseteq ModuleIds
    PROVE  /\ S \subseteq BelowIn(c, d, S) /\ BelowIn(c, d, S) \in SUBSET ModuleIds
           /\ ClosedIn(c, d, BelowIn(c, d, S))
<1>1. S \subseteq BelowIn(c, d, S) /\ BelowIn(c, d, S) \in SUBSET ModuleIds
  BY DEF BelowIn
<1>2. ASSUME NEW e \in d, e[1] \in BelowIn(c, d, S), NEW x \in c[e[2]]
      PROVE  x \in BelowIn(c, d, S)
  <2>1. x \in ModuleIds
    BY <1>2
  <2>2. ASSUME NEW C \in SUBSET ModuleIds, S \subseteq C, ClosedIn(c, d, C) PROVE x \in C
    <3>1. e[1] \in C
      BY <1>2, <2>2 DEF BelowIn
    <3> QED BY <1>2, <2>2, <3>1 DEF ClosedIn
  <2> QED BY <2>1, <2>2 DEF BelowIn
<1>3. ClosedIn(c, d, BelowIn(c, d, S))
  BY <1>2 DEF ClosedIn
<1> QED BY <1>1, <1>3

\* ... and to nothing else.
LEMMA BelowLeast ==
    ASSUME NEW c, NEW d, NEW S, NEW C \in SUBSET ModuleIds, S \subseteq C, ClosedIn(c, d, C)
    PROVE  BelowIn(c, d, S) \subseteq C
BY DEF BelowIn

\* The operators of the model in these terms.
LEMMA BelowIs ==
    ASSUME TreeTypeOK, NEW S
    PROVE  Below(S) = BelowIn(child, descendants, S) /\ Found(S) = FoundIn(descendants, S)
<1>1. \A i : GetModule(i) = {e[2] : e \in {x \in descendants : x[1] = i}}
  BY DEF GetModule
<1>2. ASSUME NEW C
      PROVE  (\A i \in C : \A m \in GetModule(i) : child[m] \subseteq C)
             <=> ClosedIn(child, descendants, C)
  BY <1>1 DEF ClosedIn
<1>3. Below(S) = BelowIn(child, descendants, S)
  BY <1>2 DEF Below, BelowIn
<1>4. \A e \in descendants : e[2] \in Module
  BY DEF TreeTypeOK
<1>5. Found(S) = FoundIn(descendants, S)
  BY <1>1, <1>4 DEF Found, FoundIn
<1> QED BY <1>3, <1>5

\* What the types say of the registered modules.
LEMMA TreeTypes ==
    ASSUME TreeTypeOK
    PROVE  /\ \A e \in descendants : e[2] \in Module /\ e[1] = moduleId[e[2]] /\ e[2] \in InTree
           /\ \A e \in descendants : e = <<moduleId[e[2]], e[2]>> /\ e[1] \in Registered
           /\ \A e \in descendants : child[e[2]] \subseteq ModuleIds
           /\ \A n \in TreeNode : child[n] \in SUBSET ModuleIds
           /\ \A m \in Module : m \in InTree <=> <<moduleId[m], m>> \in descendants
           /\ \A m \in Module : m \in InTree <=> \E e \in descendants : e[2] = m
<1>1. descendants \subseteq {<<moduleId[m], m>> : m \in Module} /\ Root \notin Module
  BY TreeAssumption DEF TreeTypeOK
<1>2. \A e \in descendants : e[2] \in Module /\ e[1] = moduleId[e[2]] /\ e[2] \in InTree
                            /\ e = <<moduleId[e[2]], e[2]>> /\ e[1] \in Registered
  BY <1>1 DEF InTree, Registered
<1>3. \A n \in TreeNode : child[n] \in SUBSET ModuleIds
  BY DEF TreeTypeOK
<1>4. \A e \in descendants : child[e[2]] \subseteq ModuleIds
  BY <1>2, <1>3 DEF TreeNode
<1>5. \A m \in Module : m \in InTree <=> \E e \in descendants : e[2] = m
  BY <1>1 DEF InTree
<1>6. \A m \in Module : m \in InTree <=> <<moduleId[m], m>> \in descendants
  BY <1>1, <1>2, <1>5
<1> QED BY <1>2, <1>3, <1>4, <1>5, <1>6

\* An empty service.
LEMMA TreeInitInv == TreeInit => TreeIInv
<1> SUFFICES ASSUME TreeInit PROVE TreeIInv
  OBVIOUS
<1>1. MaxId \in Nat /\ 0 \in 0..MaxId
  BY TreeAssumption
<1>2. TreeTypeOK
  <2>1. adding \in Seq(TreeNode \X Module)
    BY DEF TreeInit
  <2>2. moduleId \in [Module -> 0..MaxId] /\ \A m \in Module : moduleId[m] = 0
    BY <1>1 DEF TreeInit
  <2> QED BY <1>1, <2>1, <2>2 DEF TreeInit, TreeTypeOK
<1>3. IdsInv
  BY <1>1 DEF TreeInit, IdsInv, TreeNode
<1>4. AddingInv /\ ReleaseSafe
  BY DEF TreeInit, AddingInv, ReleaseSafe
<1>5. ForestInv
  BY DEF TreeInit, ForestInv
<1>6. ReachInv
  BY DEF TreeInit, ReachInv, Registered
<1> QED BY <1>2, <1>3, <1>4, <1>5, <1>6 DEF TreeIInv

\* AddModule up to OnInit: a module gets an id that no map has.
LEMMA AddModuleStep ==
    ASSUME TreeIInv, NEW p \in TreeNode, NEW m \in Module, AddModule(p, m)
    PROVE  TreeIInv'
<1>1. TreeTypeOK /\ IdsInv /\ AddingInv /\ ForestInv /\ ReachInv /\ ReleaseSafe
  BY DEF TreeIInv
<1>2. /\ p \in InTree \cup BeingAdded /\ m \notin InTree \cup BeingAdded
      /\ ({p} \cup {adding[k][1] : k \in DOMAIN adding}) \cap Found(Below(child[m])) = {}
      /\ NewModuleId(m)
      /\ adding' = IF moduleId'[m] \in child[p] THEN adding ELSE Append(adding, <<p, m>>)
      /\ UNCHANGED <<child, descendants, foreign, broken>>
  BY DEF AddModule
<1>3. /\ seedModuleId \in 0..MaxId /\ MaxId \in Nat /\ moduleId \in [Module -> 0..MaxId]
      /\ seedModuleId' \in 0..MaxId /\ seedModuleId <= seedModuleId'
      /\ moduleId' \in [Module -> 0..MaxId] /\ moduleId'[m] # 0 /\ moduleId'[m] <= seedModuleId'
      /\ \A n \in Module : n # m => moduleId'[n] = moduleId[n]
      /\ moduleId[m] # 0 => moduleId'[m] = moduleId[m] /\ seedModuleId' = seedModuleId
      /\ moduleId[m] = 0 => moduleId'[m] = seedModuleId + 1 /\ seedModuleId' = seedModuleId + 1
  <2>1. seedModuleId \in 0..MaxId /\ MaxId \in Nat /\ moduleId \in [Module -> 0..MaxId]
    BY <1>1, TreeAssumption DEF TreeTypeOK
  <2>2. CASE moduleId[m] # 0
    BY <1>1, <1>2, <2>1, <2>2 DEF NewModuleId, IdsInv
  <2>3. CASE moduleId[m] = 0
    BY <1>2, <2>1, <2>3 DEF NewModuleId
  <2> QED BY <2>2, <2>3
<1>4. \A e \in descendants : e[2] \in Module /\ e[2] # m /\ e = <<moduleId'[e[2]], e[2]>>
  BY <1>1, <1>2, <1>3, TreeTypes
<1>5. InTree' = InTree /\ Registered' = Registered
  BY <1>2 DEF InTree, Registered
<1>6. TreeTypeOK'
  <2>1. \A a, b \in Module : a # b /\ moduleId'[a] # 0 => moduleId'[a] # moduleId'[b]
    <3> SUFFICES ASSUME NEW a \in Module, NEW b \in Module, a # b, moduleId'[a] # 0
                 PROVE  moduleId'[a] # moduleId'[b]
      OBVIOUS
    <3>1. /\ moduleId[a] # 0 => moduleId[a] # moduleId[b]
          /\ moduleId[b] # 0 => moduleId[b] # moduleId[a]
      BY <1>1 DEF TreeTypeOK
    <3>2. moduleId[a] \in 0..seedModuleId /\ moduleId[b] \in 0..seedModuleId
      BY <1>1, <1>3 DEF IdsInv
    <3> QED BY <1>3, <3>1, <3>2
  <2>2. descendants' \subseteq {<<moduleId'[n], n>> : n \in Module}
    BY <1>2, <1>4
  <2>3. adding' \in Seq(TreeNode \X Module)
    <3>1. adding \in Seq(TreeNode \X Module) /\ <<p, m>> \in TreeNode \X Module
      BY <1>1 DEF TreeTypeOK
    <3> QED BY <1>2, <3>1
  <2> QED BY <1>1, <1>2, <1>3, <2>1, <2>2, <2>3 DEF TreeTypeOK
<1>7. IdsInv'
  <2>1. \A n \in TreeNode : child[n] \subseteq 1..seedModuleId
    BY <1>1 DEF IdsInv
  <2>2. \A n \in TreeNode : child[n] \subseteq 1..seedModuleId'
    BY <1>3, <2>1
  <2>3. ASSUME NEW n \in Module PROVE moduleId'[n] <= seedModuleId' /\ moduleId'[n] \notin child[n]
    <3>1. moduleId[n] <= seedModuleId /\ moduleId[n] \notin child[n] /\ moduleId[n] \in Nat
      BY <1>1, <1>3 DEF IdsInv
    <3>2. child[n] \subseteq 1..seedModuleId
      BY <2>1 DEF TreeNode
    <3> QED BY <1>3, <3>1, <3>2
  <2> QED BY <1>2, <2>2, <2>3 DEF IdsInv
<1>8. ForestInv' /\ ReleaseSafe' /\ ReachInv'
  <2>1. OutOf(descendants)' = OutOf(descendants)
    BY <1>2 DEF OutOf
  <2>2. Starts(child, descendants)' = Starts(child, descendants)
    BY <1>2, <2>1 DEF Starts
  <2>3. ReachInv'
    BY <1>1, <1>2, <1>5, <2>2 DEF ReachInv, BelowIn, ClosedIn
  <2> QED BY <1>1, <1>2, <1>5, <2>3 DEF ForestInv, ReleaseSafe
<1>9. AddingInv'
  <2>10. adding \in Seq(TreeNode \X Module)
    BY <1>1 DEF TreeTypeOK
  <2>11. Len(adding) \in Nat /\ DOMAIN adding = 1..Len(adding)
    BY <2>10
  <2>0. PICK n \in Nat : /\ adding \in Seq(TreeNode \X Module) /\ n = Len(adding)
                         /\ DOMAIN adding = 1..n
    BY <2>10, <2>11
  <2>1. \A x : Under(child', descendants', x) = Under(child, descendants, x)
    BY <1>2
  <2>2. ASSUME NEW k \in 1..n
        PROVE  /\ moduleId'[adding[k][2]] # 0 /\ adding[k][2] \notin InTree'
               /\ adding[k][1] \in InTree' \/ \E j \in 1..(k - 1) : adding[k][1] = adding[j][2]
               /\ \A j \in 1..(k - 1) : adding[j][2] # adding[k][2]
               /\ \A j \in 1..k :
                      /\ adding[j][1] # adding[k][2]
                      /\ adding[j][1] \notin Under(child', descendants', adding[k][2])
    <3>1. AddingOk(k) /\ adding[k][2] \in Module
      BY <1>1, <2>0 DEF AddingInv
    <3>2. moduleId'[adding[k][2]] # 0
      BY <1>3, <3>1 DEF AddingOk
    <3> QED BY <1>5, <2>1, <3>1, <3>2 DEF AddingOk
  <2> DEFINE U == Under(child, descendants, m)
  <2>3. CASE adding' = adding
    BY <2>0, <2>2, <2>3 DEF AddingInv, AddingOk
  <2>4. CASE adding' = Append(adding, <<p, m>>)
    <3>1. /\ DOMAIN adding' = 1..(n + 1) /\ adding'[n + 1] = <<p, m>>
          /\ \A k \in 1..n : adding'[k] = adding[k]
      BY <2>0, <2>4
    <3>2. \A k \in 1..n : adding[k][2] # m
      BY <1>2, <2>0 DEF BeingAdded
    <3>3. p # m /\ (p \in InTree \/ \E j \in 1..n : p = adding[j][2])
      BY <1>2, <2>0 DEF BeingAdded
    <3>4. ASSUME NEW k \in 1..n PROVE adding[k][1] # m
      <4>1. AddingOk(k) /\ \A j \in 1..(k - 1) : j \in 1..n
        BY <1>1, <2>0 DEF AddingInv
      <4> QED BY <1>2, <3>2, <4>1 DEF AddingOk
    <3>5. p \notin U /\ \A k \in 1..n : adding[k][1] \notin U
      <4>1. U = Found(Below(child[m]))
        BY <1>1, BelowIs DEF Under, U
      <4> QED BY <1>2, <2>0, <4>1
    <3> HIDE DEF U
    <3>6. AddingOk(n + 1)'
      <4>1. (n + 1) - 1 = n /\ \A j \in 1..(n + 1) : j \in 1..n \/ j = n + 1
        BY <2>0
      <4>2. adding'[n + 1][1] = p /\ adding'[n + 1][2] = m
        BY <3>1
      <4>3. \A j \in 1..n : adding'[j][2] = adding[j][2] /\ adding'[j][1] = adding[j][1]
        BY <3>1
      <4>4. moduleId'[m] # 0 /\ m \notin InTree'
        BY <1>2, <1>3, <1>5
      <4>5. p \in InTree' \/ \E j \in 1..n : p = adding'[j][2]
        BY <1>5, <3>3, <4>3
      <4>6. \A j \in 1..n : adding'[j][2] # m
        BY <3>2, <4>3
      <4>7. \A j \in 1..(n + 1) : adding'[j][1] # m /\ adding'[j][1] \notin U
        BY <3>3, <3>4, <3>5, <4>1, <4>2, <4>3
      <4>8. \A j \in 1..(n + 1) :
                adding'[j][1] # m /\ adding'[j][1] \notin Under(child', descendants', m)
        BY <2>1, <4>7 DEF U
      <4> QED BY <4>1, <4>2, <4>4, <4>5, <4>6, <4>8 DEF AddingOk
    <3>7. ASSUME NEW k \in 1..n PROVE AddingOk(k)'
      <4>1. \A j \in 1..k : adding'[j] = adding[j]
        BY <2>0, <3>1
      <4>2. \A j \in 1..(k - 1) : adding'[j] = adding[j]
        BY <2>0, <3>1
      <4>3. adding'[k] = adding[k]
        BY <3>1
      <4> QED BY <2>2, <4>1, <4>2, <4>3 DEF AddingOk
    <3>8. \A k \in 1..(n + 1) : k \in 1..n \/ k = n + 1
      BY <2>0
    <3> QED BY <3>1, <3>6, <3>7, <3>8 DEF AddingInv
  <2> QED BY <1>2, <2>3, <2>4
<1> QED BY <1>6, <1>7, <1>8, <1>9 DEF TreeIInv

\* The innermost call and the ones around it.
LEMMA Innermost ==
    ASSUME TreeTypeOK, adding # <<>>, adding' = Front(adding)
    PROVE  \E n \in Nat :
               /\ DOMAIN adding = 1..(n + 1) /\ DOMAIN adding' = 1..n
               /\ Last(adding) = adding[n + 1]
               /\ adding[n + 1] \in TreeNode \X Module /\ adding' \in Seq(TreeNode \X Module)
               /\ \A k \in 1..n : adding'[k] = adding[k]
<1>1. adding \in Seq(TreeNode \X Module)
  BY DEF TreeTypeOK
<1>2. PICK n \in Nat : Len(adding) = n + 1
  <2>1. Len(adding) \in Nat /\ Len(adding) # 0
    BY <1>1
  <2>2. Len(adding) - 1 \in Nat /\ Len(adding) = (Len(adding) - 1) + 1
    BY <2>1
  <2> QED BY <2>2
<1>3. DOMAIN adding = 1..(n + 1) /\ adding[n + 1] \in TreeNode \X Module
  BY <1>1, <1>2
<1>4. Last(adding) = adding[n + 1]
  BY <1>2 DEF Last
<1>5. adding' = SubSeq(adding, 1, n)
  <2>1. (n + 1) - 1 = n
    OBVIOUS
  <2> QED BY <1>2, <2>1 DEF Front
<1>6. /\ adding' \in Seq(TreeNode \X Module) /\ Len(adding') = n
      /\ \A k \in 1..n : adding'[k] = adding[k]
  BY <1>1, <1>2, <1>5
<1>7. DOMAIN adding' = 1..n
  BY <1>6
<1> QED BY <1>3, <1>4, <1>6, <1>7

\* A failing OnInit takes its call away and nothing else.
LEMMA OnInitErrStep ==
    ASSUME TreeIInv, OnInitErr
    PROVE  TreeIInv'
<1>1. TreeTypeOK /\ IdsInv /\ AddingInv /\ ForestInv /\ ReachInv /\ ReleaseSafe
  BY DEF TreeIInv
<1>2. /\ adding # <<>> /\ adding' = Front(adding)
      /\ UNCHANGED <<seedModuleId, moduleId, child, descendants, foreign, broken>>
  BY DEF OnInitErr
<1>3. PICK n \in Nat :
               /\ DOMAIN adding = 1..(n + 1) /\ DOMAIN adding' = 1..n
               /\ Last(adding) = adding[n + 1]
               /\ adding[n + 1] \in TreeNode \X Module /\ adding' \in Seq(TreeNode \X Module)
               /\ \A k \in 1..n : adding'[k] = adding[k]
  BY <1>1, <1>2, Innermost
<1>4. InTree' = InTree /\ Registered' = Registered
  BY <1>2 DEF InTree, Registered
<1>5. TreeTypeOK'
  BY <1>1, <1>2, <1>3 DEF TreeTypeOK
<1>6. IdsInv' /\ ForestInv' /\ ReleaseSafe'
  BY <1>1, <1>2, <1>4 DEF IdsInv, ForestInv, ReleaseSafe
<1>7. ReachInv'
  BY <1>1, <1>2, <1>4 DEF ReachInv
<1>8. ASSUME NEW k \in 1..n PROVE AddingOk(k)'
  <2>1. AddingOk(k)
    BY <1>1, <1>3 DEF AddingInv
  <2>2. \A j \in 1..k : adding'[j] = adding[j]
    BY <1>3
  <2>3. \A j \in 1..(k - 1) : adding'[j] = adding[j]
    BY <1>3
  <2>4. adding'[k] = adding[k]
    BY <1>3
  <2> QED BY <1>2, <1>4, <2>1, <2>2, <2>3, <2>4 DEF AddingOk
<1> QED BY <1>3, <1>5, <1>6, <1>7, <1>8 DEF TreeIInv, AddingInv

\* A succeeding OnInit: the module joins the tree, with what is below it.
LEMMA OnInitOkStep ==
    ASSUME TreeIInv, OnInitOk
    PROVE  TreeIInv'
<1> DEFINE d == descendants
           c == child
           p == Last(adding)[1]
           m == Last(adding)[2]
           i == moduleId[m]
<1>1. TreeTypeOK /\ IdsInv /\ AddingInv /\ ForestInv /\ ReachInv /\ ReleaseSafe
  BY DEF TreeIInv
<1>2. /\ adding # <<>> /\ adding' = Front(adding)
      /\ child' = [child EXCEPT ![p] = @ \cup {i}]
      /\ descendants' = descendants \cup {<<i, m>>}
      /\ UNCHANGED <<seedModuleId, moduleId, foreign, broken>>
  BY DEF OnInitOk
<1>3. PICK n \in Nat :
               /\ DOMAIN adding = 1..(n + 1) /\ DOMAIN adding' = 1..n
               /\ Last(adding) = adding[n + 1]
               /\ adding[n + 1] \in TreeNode \X Module /\ adding' \in Seq(TreeNode \X Module)
               /\ \A k \in 1..n : adding'[k] = adding[k]
  BY <1>1, <1>2, Innermost
<1>4. /\ p \in TreeNode /\ m \in Module /\ m \in TreeNode
      /\ adding[n + 1][1] = p /\ adding[n + 1][2] = m
  BY <1>3 DEF TreeNode
<1>5. /\ i # 0 /\ m \notin InTree /\ p # m /\ p \notin Under(c, d, m)
      /\ p \in InTree \/ \E j \in 1..n : p = adding[j][2]
      /\ \A j \in 1..n : adding[j][2] # m
      /\ \A j \in 1..(n + 1) : adding[j][1] # m /\ adding[j][1] \notin Under(c, d, m)
  <2>1. AddingOk(n + 1) /\ (n + 1) - 1 = n
    BY <1>1, <1>3 DEF AddingInv
  <2>2. n + 1 \in 1..(n + 1)
    OBVIOUS
  <2> HIDE DEF p, m
  <2> QED BY <1>4, <2>1, <2>2 DEF AddingOk
<1>6. i \in ModuleIds /\ i \in 1..seedModuleId /\ moduleId \in [Module -> 0..MaxId]
  <2>1. i \in 0..MaxId /\ moduleId \in [Module -> 0..MaxId] /\ seedModuleId \in 0..MaxId
    BY <1>1, <1>4, TreeAssumption DEF TreeTypeOK
  <2>2. i <= seedModuleId
    BY <1>1, <1>4 DEF IdsInv
  <2> QED BY <1>5, <2>1, <2>2, TreeAssumption DEF ModuleIds
<1> HIDE DEF p, m, i
<1>7. /\ \A e \in d : /\ e[2] \in Module /\ e[2] # m /\ e[1] = moduleId[e[2]]
                     /\ e = <<moduleId[e[2]], e[2]>>
      /\ \A e \in d : c[e[2]] \in SUBSET ModuleIds
      /\ \A r \in TreeNode : c[r] \in SUBSET ModuleIds
  BY <1>1, <1>5, TreeTypes DEF i
<1>8. /\ child' \in [TreeNode -> SUBSET ModuleIds] /\ child'[p] = child[p] \cup {i}
      /\ \A r \in TreeNode : r # p => child'[r] = child[r]
  BY <1>1, <1>2, <1>4, <1>6 DEF TreeTypeOK
<1>9. /\ InTree' = InTree \cup {m} /\ Registered' = Registered \cup {i}
      /\ \A e : e \in descendants' <=> e \in d \/ e = <<i, m>>
      /\ OutOf(descendants') = OutOf(d) \ {m}
  <2>0. /\ \A e : e \in descendants' <=> e \in d \/ e = <<i, m>>
        /\ <<i, m>>[1] = i /\ <<i, m>>[2] = m
    BY <1>2
  <2>1. InTree' = InTree \cup {m}
    <3>1. \A r : (\E e \in descendants' : e[2] = r) <=> (\E e \in d : e[2] = r) \/ r = m
      BY <2>0
    <3> QED BY <3>1 DEF InTree
  <2>2. Registered' = Registered \cup {i}
    <3>1. \A r : (\E e \in descendants' : e[1] = r) <=> (\E e \in d : e[1] = r) \/ r = i
      BY <2>0
    <3> QED BY <3>1 DEF Registered
  <2>3. OutOf(descendants') = OutOf(d) \ {m}
    <3>1. \A r : (\E e \in descendants' : e[2] = r) <=> (\E e \in d : e[2] = r) \/ r = m
      BY <2>0
    <3> HIDE DEF d
    <3> QED BY <3>1 DEF OutOf
  <2> QED BY <2>0, <2>1, <2>2, <2>3
<1>10. TreeTypeOK'
  <2>1. descendants' \subseteq {<<moduleId[r], r>> : r \in Module}
    BY <1>4, <1>7, <1>9 DEF i
  <2> QED BY <1>1, <1>2, <1>3, <1>8, <2>1 DEF TreeTypeOK
<1>11. IdsInv'
  <2>1. \A r \in TreeNode : child'[r] \subseteq 1..seedModuleId
    BY <1>1, <1>6, <1>8 DEF IdsInv
  <2>2. ASSUME NEW r \in Module PROVE moduleId[r] \notin child'[r]
    <3>1. r \in TreeNode /\ moduleId[r] \notin child[r]
      BY <1>1 DEF IdsInv, TreeNode
    <3>2. r = p => moduleId[r] # i
      BY <1>1, <1>4, <1>5 DEF TreeTypeOK, i
    <3> QED BY <1>8, <3>1, <3>2
  <2> QED BY <1>1, <1>2, <2>1, <2>2 DEF IdsInv
<1>12. ForestInv'
  <2> SUFFICES ASSUME ~foreign
               PROVE  /\ \A r \in TreeNode : child'[r] \subseteq Registered'
                      /\ \A r, q \in TreeNode : r # q => child'[r] \cap child'[q] = {}
    BY <1>2 DEF ForestInv
  <2>1. /\ \A r \in TreeNode : child[r] \subseteq Registered
        /\ \A r, q \in TreeNode : r # q => child[r] \cap child[q] = {}
    BY <1>1 DEF ForestInv
  <2>2. i \notin Registered
    <3> SUFFICES ASSUME NEW e \in d, e[1] = i PROVE FALSE
      BY DEF Registered
    <3>1. e[2] \in Module /\ e[2] # m /\ moduleId[e[2]] = i
      BY <1>7
    <3> QED BY <1>1, <1>4, <1>5, <3>1 DEF TreeTypeOK, i
  <2>3. \A r \in TreeNode : child'[r] \subseteq Registered'
    BY <1>8, <1>9, <2>1
  <2>4. \A r, q \in TreeNode : r # q => child'[r] \cap child'[q] = {}
    BY <1>8, <2>1, <2>2
  <2> QED BY <2>3, <2>4
<1>13. ReleaseSafe'
  BY <1>1, <1>2 DEF ReleaseSafe
<1>14. \A S \in SUBSET ModuleIds :
           /\ S \subseteq BelowIn(c, d, S) /\ BelowIn(c, d, S) \in SUBSET ModuleIds
           /\ ClosedIn(c, d, BelowIn(c, d, S))
  <2> TAKE S \in SUBSET ModuleIds
  <2>1. \A e \in d : c[e[2]] \subseteq ModuleIds
    BY <1>7
  <2> HIDE DEF c, d
  <2> QED BY <2>1, BelowFacts
<1>15. \A S \in SUBSET ModuleIds :
           /\ S \subseteq BelowIn(child', descendants', S)
           /\ BelowIn(child', descendants', S) \in SUBSET ModuleIds
           /\ ClosedIn(child', descendants', BelowIn(child', descendants', S))
  <2> TAKE S \in SUBSET ModuleIds
  <2>1. \A e \in descendants' : child'[e[2]] \subseteq ModuleIds
    <3>1. \A e \in descendants' : e[2] \in TreeNode
      BY <1>4, <1>7, <1>9 DEF TreeNode
    <3> QED BY <1>8, <3>1
  <2> QED BY <2>1, BelowFacts
<1>20. \A r \in TreeNode : c[r] \subseteq child'[r] /\ child'[r] \subseteq c[r] \cup {i}
  BY <1>8
<1>21. child'[m] = c[m] /\ i \in child'[p] /\ \A e \in d : e \in descendants' /\ e[2] \in TreeNode
  BY <1>4, <1>5, <1>7, <1>8, <1>9 DEF TreeNode
<1>22. \A e \in d : e[1] # i
  BY <1>1, <1>4, <1>5, <1>7 DEF TreeTypeOK, i
<1>23. PICK D \in SUBSET ModuleIds :
           /\ D = BelowIn(c, d, c[m]) /\ c[m] \subseteq D /\ ClosedIn(c, d, D)
           /\ \A j \in 1..(n + 1) : ~\E e \in d : e[1] \in D /\ e[2] = adding[j][1]
  <2>1. c[m] \in SUBSET ModuleIds
    BY <1>4, <1>7
  <2>2. ASSUME NEW j \in 1..(n + 1), NEW e \in d, e[1] \in BelowIn(c, d, c[m]), e[2] = adding[j][1]
        PROVE  FALSE
    <3> HIDE DEF c, d
    <3> QED BY <1>5, <1>7, <2>2 DEF Under, FoundIn
  <2> HIDE DEF c, d
  <2> QED BY <1>14, <2>1, <2>2
<1>24. ReachInv'
  <2> DEFINE c2 == child'
             d2 == descendants'
             T == Starts(child', descendants')
  <2>1. c[Root] \subseteq T /\ \A r \in OutOf(d) : r # m => child'[r] \subseteq T
    BY <1>9, <1>20 DEF Starts, TreeNode
  <2>2. T \in SUBSET ModuleIds
    BY <1>8 DEF Starts, OutOf, TreeNode
  <2>3. PICK B \in SUBSET ModuleIds : B = BelowIn(c2, d2, T) /\ T \subseteq B /\ ClosedIn(c2, d2, B)
    BY <1>15, <2>2
  <2>4. ClosedIn(c, d, B)
    BY <1>20, <1>21, <2>3 DEF ClosedIn
  <2>5. Registered \subseteq D \cup B
    <3>1. Starts(c, d) \subseteq D \cup B
      <4>1. c[Root] \subseteq D \cup B
        BY <2>1, <2>3
      <4>2. \A r \in OutOf(d) : r \in TreeNode
        BY DEF OutOf, TreeNode
      <4>3. \A r \in OutOf(d) : c[r] \subseteq D \cup B
        BY <1>20, <1>23, <2>1, <2>3, <4>2
      <4> QED BY <4>1, <4>3 DEF Starts
    <3>2. ClosedIn(c, d, D \cup B)
      BY <1>23, <2>4 DEF ClosedIn
    <3>3. D \cup B \in SUBSET ModuleIds
      BY <1>23, <2>3
    <3>4. BelowIn(c, d, Starts(c, d)) \subseteq D \cup B
      <4> HIDE DEF c, d
      <4> QED BY <3>1, <3>2, <3>3, BelowLeast
    <3> QED BY <1>1, <3>4 DEF ReachInv
  <2>6. i \in B
    <3>1. CASE p \in InTree /\ p # Root
      <4>1. PICK e \in d : e[2] = p
        BY <3>1 DEF InTree
      <4>2. e[1] \in Registered /\ e \in d2 /\ e[1] \notin D
        BY <1>3, <1>4, <1>21, <1>23, <4>1 DEF Registered
      <4>3. c2[p] \subseteq B
        BY <2>3, <2>5, <4>1, <4>2 DEF ClosedIn
      <4> QED BY <1>21, <4>3
    <3>2. CASE p = Root
      BY <1>21, <2>3, <3>2 DEF Starts
    <3>3. CASE p \notin InTree
      <4>1. p \in OutOf(d)
        BY <1>4, <3>3 DEF InTree, OutOf, TreeNode
      <4> QED BY <1>5, <1>21, <2>1, <2>3, <4>1
    <3> QED BY <3>1, <3>2, <3>3
  <2>7. D \subseteq B
    <3>1. c[m] \subseteq B
      <4>1. <<i, m>> \in d2 /\ <<i, m>>[1] = i /\ <<i, m>>[2] = m
        BY <1>9
      <4> QED BY <1>21, <2>3, <2>6, <4>1 DEF ClosedIn
    <3> HIDE DEF c, d
    <3> QED BY <1>23, <2>4, <3>1, BelowLeast
  <2> QED BY <1>9, <2>3, <2>5, <2>6, <2>7 DEF ReachInv
<1>25. ASSUME NEW k \in 1..n PROVE AddingOk(k)'
  <2> DEFINE x == adding[k][2]
             D1 == BelowIn(c, d, c[x])
             D2 == D1 \cup ({i} \cup D)
  <2>0. AddingOk(k) /\ k \in 1..(n + 1) /\ adding[k] \in TreeNode \X Module
    <3>1. k \in 1..(n + 1) /\ k \in DOMAIN adding
      BY <1>3
    <3>2. AddingOk(k)
      BY <1>1, <3>1 DEF AddingInv
    <3>3. adding \in Seq(TreeNode \X Module)
      BY <1>1 DEF TreeTypeOK
    <3>4. adding[k] \in TreeNode \X Module
      BY <3>1, <3>3
    <3> QED BY <3>1, <3>2, <3>4
  <2>1. /\ moduleId[x] # 0 /\ x \notin InTree /\ x # m /\ x \in TreeNode
        /\ adding[k][1] \in InTree \/ \E j \in 1..(k - 1) : adding[k][1] = adding[j][2]
        /\ \A j \in 1..(k - 1) : adding[j][2] # x
        /\ \A j \in 1..k : adding[j][1] # x /\ adding[j][1] \notin Under(c, d, x)
    BY <1>5, <2>0 DEF AddingOk, TreeNode
  <2>2. /\ adding'[k] = adding[k] /\ \A j \in 1..k : adding'[j] = adding[j] /\ j \in 1..(n + 1)
        /\ \A j \in 1..(k - 1) : adding'[j] = adding[j]
    BY <1>3
  <2> HIDE DEF x
  <2>3. D1 \in SUBSET ModuleIds /\ c[x] \subseteq D1 /\ ClosedIn(c, d, D1)
    BY <1>7, <1>14, <2>1
  <2>4. \A j \in 1..k : ~\E e \in d : e[1] \in D1 /\ e[2] = adding[j][1]
    <3> HIDE DEF c, d
    <3> QED BY <1>7, <2>1 DEF Under, FoundIn
  <2> HIDE DEF D1
  <2>5. child'[x] \subseteq D2 /\ D2 \in SUBSET ModuleIds
    BY <1>6, <1>20, <1>23, <2>1, <2>3
  <2>6. ClosedIn(child', descendants', D2)
    <3> SUFFICES ASSUME NEW e \in descendants', e[1] \in D2 PROVE child'[e[2]] \subseteq D2
      BY DEF ClosedIn
    <3>1. CASE e \in d
      <4>1. c[e[2]] \subseteq D2
        BY <1>22, <1>23, <2>3, <3>1 DEF ClosedIn
      <4> QED BY <1>20, <1>21, <3>1, <4>1
    <3>2. CASE e = <<i, m>>
      <4>1. e[2] = m
        BY <3>2
      <4> QED BY <1>21, <1>23, <4>1
    <3> QED BY <1>9, <3>1, <3>2
  <2>7. BelowIn(child', descendants', child'[x]) \subseteq D2
    BY <2>5, <2>6, BelowLeast
  <2> HIDE DEF D2
  <2>8. ASSUME NEW j \in 1..k PROVE adding[j][1] \notin Under(child', descendants', x)
    <3> SUFFICES ASSUME NEW e \in descendants', e[1] \in D2, e[2] = adding[j][1] PROVE FALSE
      BY <2>7 DEF Under, FoundIn
    <3>1. j \in 1..(n + 1)
      BY <2>2
    <3>2. CASE e \in d
      <4>1. e[1] \in D1 \/ e[1] \in D
        BY <1>22, <3>2 DEF D2
      <4> QED BY <1>23, <2>4, <3>1, <3>2, <4>1
    <3>3. CASE e = <<i, m>>
      <4>1. e[2] = m
        BY <3>3
      <4> QED BY <1>5, <3>1, <4>1
    <3> QED BY <1>9, <3>2, <3>3
  <2>9. moduleId'[x] # 0 /\ x \notin InTree'
    BY <1>2, <1>9, <2>1
  <2>10. adding[k][1] \in InTree' \/ \E j \in 1..(k - 1) : adding[k][1] = adding'[j][2]
    BY <1>9, <2>1, <2>2
  <2>11. /\ \A j \in 1..(k - 1) : adding'[j][2] # x
         /\ \A j \in 1..k : /\ adding'[j][1] # x
                            /\ adding'[j][1] \notin Under(child', descendants', x)
    BY <2>1, <2>2, <2>8
  <2>12. adding'[k][2] = x /\ adding'[k][1] = adding[k][1]
    BY <2>2 DEF x
  <2> QED BY <2>9, <2>10, <2>11, <2>12 DEF AddingOk
<1> QED BY <1>3, <1>10, <1>11, <1>12, <1>13, <1>24, <1>25 DEF TreeIInv, AddingInv

\* What a walk from an id finds is that id and children of what it finds.
LEMMA BelowOne ==
    ASSUME NEW c, NEW d, NEW i \in ModuleIds, \A e \in d : c[e[2]] \subseteq ModuleIds
    PROVE  \A j \in BelowIn(c, d, {i}) :
               j = i \/ \E e \in d : e[1] \in BelowIn(c, d, {i}) /\ j \in c[e[2]]
<1> DEFINE B == BelowIn(c, d, {i})
           C == {j \in B : j = i \/ \E e \in d : e[1] \in B /\ j \in c[e[2]]}
<1>1. {i} \subseteq B /\ B \in SUBSET ModuleIds /\ ClosedIn(c, d, B)
  BY BelowFacts
<1> HIDE DEF B
<1>2. {i} \subseteq C /\ C \in SUBSET ModuleIds
  BY <1>1
<1>3. ClosedIn(c, d, C)
  BY <1>1 DEF ClosedIn
<1> HIDE DEF C
<1>4. BelowIn(c, d, {i}) \subseteq C
  BY <1>2, <1>3, BelowLeast
<1> QED BY <1>4 DEF B, C

\* A module released by its parent: the recursion finds every id once.
LEMMA ReleaseWorks ==
    ASSUME TreeIInv, ~foreign, NEW s \in TreeNode, NEW i \in ModuleIds, i \in Registered,
           i \in child[s], s \notin Found(Below({i}) \ {i})
    PROVE  ~ReleaseFails(i)
<1> DEFINE c == child
           d == descendants
           B == BelowIn(c, d, {i})
<1>1. TreeTypeOK /\ IdsInv /\ ForestInv
  BY DEF TreeIInv
<1>2. /\ \A r \in TreeNode : child[r] \subseteq Registered
      /\ \A r, q \in TreeNode : r # q => child[r] \cap child[q] = {}
  BY <1>1 DEF ForestInv
<1>3. /\ \A e \in d : e[2] \in Module /\ e[2] \in TreeNode /\ e[1] = moduleId[e[2]]
      /\ \A e \in d : c[e[2]] \subseteq ModuleIds
  BY <1>1, TreeTypes DEF TreeNode
<1>4. Below({i}) = B /\ \A S : Found(S) = FoundIn(d, S)
  BY <1>1, BelowIs
<1>5. B \subseteq Registered
  <2>1. ClosedIn(c, d, Registered \cap ModuleIds)
    BY <1>2, <1>3 DEF ClosedIn
  <2> HIDE DEF c, d
  <2> QED BY <2>1, BelowLeast
<1>6. ASSUME NEW r \in Found(B) PROVE i \notin child[r]
  <2>1. PICK e \in d : e[1] \in B /\ e[2] = r
    BY <1>4 DEF FoundIn
  <2>2. r \in Module /\ r \in TreeNode /\ e[1] = moduleId[r]
    BY <1>3, <2>1
  <2>3. CASE r = s
    <3>1. e[1] = i
      BY <1>4, <2>1, <2>2, <2>3 DEF FoundIn
    <3> QED BY <1>1, <2>2, <3>1 DEF IdsInv
  <2>4. CASE r # s
    BY <1>2, <2>2, <2>4
  <2> QED BY <2>3, <2>4
<1>7. ASSUME NEW r \in Found(B), NEW q \in Found(B), r # q PROVE child[r] \cap child[q] = {}
  <2>1. r \in TreeNode /\ q \in TreeNode
    BY <1>4 DEF FoundIn, TreeNode
  <2> QED BY <1>2, <1>7, <2>1
<1> QED BY <1>4, <1>5, <1>6, <1>7 DEF ReleaseFails

\* ReleaseModule: the modules below the id leave, and their ids the releaser's map.
LEMMA ReleaseStep ==
    ASSUME TreeIInv, NEW s \in TreeNode, NEW i \in ModuleIds, ReleaseModule(s, i)
    PROVE  TreeIInv'
<1> DEFINE c == child
           d == descendants
           B == BelowIn(c, d, {i})
           M == FoundIn(d, B)
<1>1. TreeTypeOK /\ IdsInv /\ AddingInv /\ ForestInv /\ ReachInv /\ ReleaseSafe
  BY DEF TreeIInv
<1>2. /\ ~broken /\ adding = <<>> /\ s \in InTree /\ i \in Registered
      /\ s \notin Found(Below({i}) \ {i}) /\ foreign' = (foreign \/ i \notin child[s])
      /\ \/ ReleaseFails(i) /\ broken' = TRUE /\ UNCHANGED <<child, descendants>>
         \/ ~ReleaseFails(i) /\ UNCHANGED broken /\ ReleaseEffect(s, Below({i}), Found(Below({i})))
      /\ UNCHANGED <<seedModuleId, moduleId, adding>>
  BY DEF ReleaseModule
<1>3. Below({i}) = B /\ Found(B) = M
  BY <1>1, BelowIs
<1>4. foreign' \in BOOLEAN /\ (~foreign' => ~foreign /\ i \in child[s])
  BY <1>2
<1>5. ~foreign' => ~ReleaseFails(i)
  BY <1>2, <1>4, ReleaseWorks
<1>6. AddingInv'
  BY <1>2 DEF AddingInv
<1>7. CASE ReleaseFails(i)
  <2>1. broken' = TRUE /\ UNCHANGED <<child, descendants, seedModuleId, moduleId, adding>>
    BY <1>2, <1>7
  <2>2. foreign'
    BY <1>5, <1>7
  <2>3. InTree' = InTree /\ Registered' = Registered
    BY <2>1 DEF InTree, Registered
  <2>4. broken' \in BOOLEAN
    BY <2>1
  <2>5. TreeTypeOK'
    BY <1>1, <1>4, <2>1, <2>4 DEF TreeTypeOK
  <2>6. IdsInv' /\ ForestInv' /\ ReleaseSafe'
    BY <1>1, <2>1, <2>2 DEF IdsInv, ForestInv, ReleaseSafe
  <2>7. ReachInv'
    BY <1>1, <2>1, <2>3 DEF ReachInv
  <2> QED BY <1>6, <2>5, <2>6, <2>7 DEF TreeIInv
<1>8. CASE ~ReleaseFails(i)
  <2>1. /\ child' = [r \in TreeNode |-> IF r \in M THEN {} ELSE
                                       IF r = s THEN child[r] \ B ELSE child[r]]
        /\ descendants' = {e \in descendants : e[1] \notin B}
        /\ UNCHANGED <<broken, seedModuleId, moduleId, adding>>
    BY <1>2, <1>3, <1>8 DEF ReleaseEffect
  <2>2. B \in SUBSET ModuleIds /\ ClosedIn(c, d, B) /\ i \in B
    <3>1. \A e \in d : c[e[2]] \subseteq ModuleIds
      BY <1>1, TreeTypes
    <3>2. {i} \in SUBSET ModuleIds
      OBVIOUS
    <3> HIDE DEF c, d
    <3> QED BY <3>1, <3>2, BelowFacts
  <2>3. \A e \in d : e[2] \in Module /\ e[1] = moduleId[e[2]] /\ e[2] \in TreeNode
    BY <1>1, TreeTypes DEF TreeNode
  <2>4. \A e \in d : e[1] \notin B => e[2] \notin M
    BY <2>3 DEF FoundIn
  <2>5. \A r \in M : r \in Module /\ \E e \in d : e[1] \in B /\ e[2] = r
    BY DEF FoundIn
  <2>6. \A e \in d : e[1] \in B => e[2] \in M
    BY <2>3 DEF FoundIn
  <2>7. c \in [TreeNode -> SUBSET ModuleIds] /\ Root \notin M /\ Root \in TreeNode
    BY <1>1, <2>5, TreeAssumption DEF TreeTypeOK, TreeNode
  <2> HIDE DEF B, M
  <2>8. \A r \in TreeNode : child'[r] \in SUBSET ModuleIds /\ child'[r] \subseteq c[r]
    BY <2>1, <2>7
  <2>9. \A r \in TreeNode : r \notin M => c[r] \subseteq child'[r] \cup B
    BY <2>1, <2>7
  <2>10. Registered' = Registered \ B
    BY <2>1 DEF Registered
  <2>11. TreeTypeOK'
    <3>1. child' \in [TreeNode -> SUBSET ModuleIds]
      BY <2>1, <2>8
    <3> QED BY <1>1, <1>4, <2>1, <3>1 DEF TreeTypeOK
  <2>12. IdsInv'
    <3>1. \A r \in Module : r \in TreeNode
      BY DEF TreeNode
    <3> QED BY <1>1, <2>1, <2>8, <3>1 DEF IdsInv
  <2>13. ReleaseSafe'
    BY <1>1, <1>2, <2>1 DEF ReleaseSafe
  <2>14. ForestInv'
    <3> SUFFICES ASSUME ~foreign'
                 PROVE  /\ \A n \in TreeNode : child'[n] \subseteq Registered \ B
                        /\ \A r, n \in TreeNode : r # n => child'[r] \cap child'[n] = {}
      BY <2>10 DEF ForestInv
    <3>1. /\ i \in c[s]
          /\ \A n \in TreeNode : c[n] \subseteq Registered
          /\ \A r, n \in TreeNode : r # n => c[r] \cap c[n] = {}
      BY <1>1, <1>4 DEF ForestInv
    <3>2. \A j \in B : j = i \/ \E e \in d : e[1] \in B /\ j \in c[e[2]]
      <4>1. \A e \in d : c[e[2]] \subseteq ModuleIds
        BY <1>1, TreeTypes
      <4> HIDE DEF c, d
      <4> QED BY <4>1, BelowOne DEF B
    <3>3. ASSUME NEW n \in TreeNode, n \notin M, n # s, NEW j \in c[n], j \in B PROVE FALSE
      <4>1. CASE j = i
        BY <3>1, <3>3, <4>1
      <4>2. CASE \E e \in d : e[1] \in B /\ j \in c[e[2]]
        <5>1. PICK e \in d : e[1] \in B /\ j \in c[e[2]]
          BY <4>2
        <5>2. e[2] \in M /\ e[2] \in TreeNode /\ e[2] # n
          BY <2>3, <2>6, <3>3, <5>1
        <5> QED BY <3>1, <3>3, <5>1, <5>2
      <4> QED BY <3>2, <3>3, <4>1, <4>2
    <3>4. ASSUME NEW n \in TreeNode PROVE child'[n] \subseteq Registered \ B
      <4>1. CASE n \in M
        BY <2>1, <4>1
      <4>2. CASE n \notin M /\ n = s
        BY <2>1, <3>1, <4>2
      <4>3. CASE n \notin M /\ n # s
        BY <2>8, <3>1, <3>3, <4>3
      <4> QED BY <4>1, <4>2, <4>3
    <3> QED BY <2>8, <3>1, <3>4
  <2>15. ReachInv'
    <3> DEFINE S1 == Starts(child', descendants')
               B1 == BelowIn(child', descendants', S1)
    <3>1. \A e \in descendants' : e \in d /\ e[2] \in TreeNode /\ child'[e[2]] \subseteq ModuleIds
      BY <2>1, <2>3, <2>8
    <3>2. S1 \in SUBSET ModuleIds
      <4>1. \A r \in OutOf(descendants') : r \in TreeNode
        BY DEF OutOf, TreeNode
      <4> QED BY <2>7, <2>8, <4>1 DEF Starts
    <3>3. S1 \subseteq B1 /\ B1 \in SUBSET ModuleIds /\ ClosedIn(child', descendants', B1)
      <4> HIDE DEF S1
      <4> QED BY <3>1, <3>2, BelowFacts
    <3>4. Starts(c, d) \subseteq B \cup S1
      <4>1. c[Root] \subseteq B \cup S1
        BY <2>7, <2>9 DEF Starts
      <4>2. ASSUME NEW r \in OutOf(d) PROVE c[r] \subseteq B \cup S1
        <5>1. r \in OutOf(descendants') /\ r \notin M /\ r \in TreeNode
          BY <2>1, <2>5 DEF OutOf, TreeNode
        <5>2. child'[r] \subseteq S1
          BY <5>1 DEF Starts
        <5> QED BY <2>9, <5>1, <5>2
      <4> HIDE DEF S1, c, d
      <4> QED BY <4>1, <4>2 DEF Starts
    <3> HIDE DEF B1, S1
    <3>5. ClosedIn(c, d, B \cup B1)
      <4> SUFFICES ASSUME NEW e \in d, e[1] \in B \cup B1 PROVE c[e[2]] \subseteq B \cup B1
        BY DEF ClosedIn
      <4>1. CASE e[1] \in B
        BY <2>2, <4>1 DEF ClosedIn
      <4>2. CASE e[1] \notin B
        <5>1. e \in descendants' /\ e[2] \notin M /\ e[2] \in TreeNode
          BY <2>1, <2>3, <2>4, <4>2
        <5>2. child'[e[2]] \subseteq B1
          BY <3>3, <4>2, <5>1 DEF ClosedIn
        <5> QED BY <2>9, <5>1, <5>2
      <4> QED BY <4>1, <4>2
    <3>6. BelowIn(c, d, Starts(c, d)) \subseteq B \cup B1
      <4> HIDE DEF c, d
      <4> QED BY <2>2, <3>3, <3>4, <3>5, BelowLeast
    <3>7. Registered \subseteq B \cup B1
      BY <1>1, <3>6 DEF ReachInv
    <3> QED BY <2>10, <3>7 DEF ReachInv, B1, S1
  <2> QED BY <1>6, <2>11, <2>12, <2>13, <2>14, <2>15 DEF TreeIInv
<1> QED BY <1>7, <1>8

\* The invariant gives the properties of the tree.
LEMMA TreeIInvGives == TreeIInv => TreeInv
<1> SUFFICES ASSUME TreeIInv PROVE TreeInv
  OBVIOUS
<1>1. TreeTypeOK /\ ForestInv /\ ReachInv /\ ReleaseSafe
  BY DEF TreeIInv
<1>2. InTree \subseteq TreeNode
  BY <1>1, TreeTypes DEF InTree, TreeNode
<1>3. ChildrenRegistered
  BY <1>1, <1>2 DEF ForestInv, ChildrenRegistered
<1>4. Module \ InTree = OutOf(descendants)
  BY <1>1, TreeTypes DEF OutOf
<1>5. DescendantsReachable
  BY <1>1, <1>4, BelowIs DEF ReachInv, Starts, DescendantsReachable
<1> QED BY <1>1, <1>3, <1>5 DEF TreeInv

\* A step that changes nothing.
LEMMA TreeStutter == TreeIInv /\ UNCHANGED treeVars => TreeIInv'
<1> SUFFICES ASSUME TreeIInv, UNCHANGED treeVars PROVE TreeIInv'
  OBVIOUS
<1>1. TreeTypeOK /\ IdsInv /\ AddingInv /\ ForestInv /\ ReachInv /\ ReleaseSafe
  BY DEF TreeIInv
<1>2. UNCHANGED <<seedModuleId, moduleId, child, descendants, adding, foreign, broken>>
  BY DEF treeVars
<1>3. InTree' = InTree /\ Registered' = Registered
  BY <1>2 DEF InTree, Registered
<1>4. TreeTypeOK' /\ IdsInv' /\ ForestInv' /\ ReleaseSafe'
  BY <1>1, <1>2, <1>3 DEF TreeTypeOK, IdsInv, ForestInv, ReleaseSafe
<1>5. ReachInv'
  BY <1>1, <1>2, <1>3 DEF ReachInv
<1>6. AddingInv'
  BY <1>1, <1>2, <1>3 DEF AddingInv, AddingOk
<1> QED BY <1>4, <1>5, <1>6 DEF TreeIInv

\* The maps of the tree agree: for as long as modules are released by their
\* parents, the child maps list registered modules only and ReleaseModule
\* returns; whoever releases what and whatever OnInit fails, between two calls
\* of AddModule no module that GetModule finds is lost to a release from the
\* top (Module.AddModule, ReleaseModule).
THEOREM TreeSafe == TreeSpec => []TreeInv
<1>1. TreeInit => TreeIInv
  BY TreeInitInv
<1>2. TreeIInv /\ [TreeNext]_treeVars => TreeIInv'
  <2> SUFFICES ASSUME TreeIInv, [TreeNext]_treeVars PROVE TreeIInv'
    OBVIOUS
  <2>1. CASE \E p \in TreeNode, m \in Module : AddModule(p, m)
    BY <2>1, AddModuleStep
  <2>2. CASE OnInitOk
    BY <2>2, OnInitOkStep
  <2>3. CASE OnInitErr
    BY <2>3, OnInitErrStep
  <2>4. CASE \E s \in TreeNode, i \in ModuleIds : ReleaseModule(s, i)
    BY <2>4, ReleaseStep
  <2>5. CASE UNCHANGED treeVars
    BY <2>5, TreeStutter
  <2> QED BY <2>1, <2>2, <2>3, <2>4, <2>5 DEF TreeNext
<1>3. TreeIInv => TreeInv
  BY TreeIInvGives
<1> QED BY <1>1, <1>2, <1>3, PTL DEF TreeSpec

-----------------------------------------------------------------------------
(***************************************************************************)
(* The calendar: dates are numbered in their order.                        *)
(***************************************************************************)

\* Every month has days, and no field names a day that no month has.
LEMMA MonthsHaveDays ==
    /\ Len(MonthDays) \in Nat \ {0}
    /\ \A y \in Years, m \in Months : DaysIn(y, m) \in Nat \ {0} /\ DaysIn(y, m) <= MaxDay
<1>1. Len(MonthDays) \in Nat \ {0}
  BY CronAssumption
<1>2. ASSUME NEW y \in Years, NEW m \in Months
      PROVE  DaysIn(y, m) \in Nat \ {0} /\ DaysIn(y, m) <= MaxDay
  <2>1. MonthDays[m] \in Nat \ {0}
    BY <1>1, CronAssumption DEF Months
  <2>2. DaysIn(y, m) \in Nat \ {0}
    BY <2>1 DEF DaysIn
  <2> QED BY <2>2, CronAssumption
<1> QED BY <1>1, <1>2

\* What a date is.
LEMMA DateIs ==
    /\ \A a \in Dates : /\ a[1] \in Years /\ a[2] \in Months /\ a[3] \in Nat \ {0}
                        /\ a[3] <= DaysIn(a[1], a[2]) /\ a = <<a[1], a[2], a[3]>>
    /\ \A y \in Years, m \in Months, d \in Nat \ {0} :
          d <= DaysIn(y, m) => <<y, m, d>> \in Dates
<1>1. MaxDay \in Nat
  BY CronAssumption
<1>2. ASSUME NEW y \in Years, NEW m \in Months, NEW d \in Nat \ {0}, d <= DaysIn(y, m)
      PROVE  <<y, m, d>> \in Dates
  <2>1. d \in 1..MaxDay
    BY <1>1, <1>2, MonthsHaveDays
  <2> QED BY <1>2, <2>1 DEF Dates
<1>3. ASSUME NEW a \in Dates
      PROVE  /\ a[1] \in Years /\ a[2] \in Months /\ a[3] \in Nat \ {0}
             /\ a[3] <= DaysIn(a[1], a[2]) /\ a = <<a[1], a[2], a[3]>>
  BY <1>1 DEF Dates
<1> QED BY <1>2, <1>3

\* The calendar is finite.
LEMMA DatesFinite == IsFiniteSet(Dates)
<1> DEFINE D == 1..MaxDay
           All == (Years \X Months) \X D
           f == [a \in Dates |-> <<<<a[1], a[2]>>, a[3]>>]
<1>1. IsFiniteSet(Years) /\ IsFiniteSet(Months) /\ IsFiniteSet(D)
  <2>1. LastYear + 3 \in Int /\ Len(MonthDays) \in Int /\ MaxDay \in Int
    BY CronAssumption
  <2>2. IsFiniteSet(Years)
    BY <2>1, FS_Interval DEF Years
  <2>3. IsFiniteSet(Months)
    BY <2>1, FS_Interval DEF Months
  <2>4. IsFiniteSet(D)
    BY <2>1, FS_Interval
  <2> QED BY <2>2, <2>3, <2>4
<1>2. \A a \in Dates : a[1] \in Years /\ a[2] \in Months /\ a[3] \in D
  BY DEF Dates
<1> HIDE DEF D
<1>3. IsFiniteSet(Years \X Months)
  BY <1>1, FS_Product
<1>4. IsFiniteSet(All)
  BY <1>1, <1>3, FS_Product
<1>5. f \in [Dates -> All]
  BY <1>2
<1>6. \A a, b \in Dates : f[a] = f[b] => a = b
  BY DateIs
<1>7. f \in Injection(Dates, All)
  BY <1>5, <1>6 DEF Injection, IsInjective
<1> HIDE DEF All, f
<1> QED BY <1>4, <1>7, FS_Injection

DateOrder == {p \in Dates \X Dates : Earlier(p[1], p[2])}

LastNo == Cardinality(Dates) - 1

\* DayNo numbers the dates in their order, and DateOf is its inverse.
LEMMA DaysNumbered ==
    /\ LastNo \in Int /\ DOMAIN DateOf = 0..LastNo
    /\ \A a \in Dates : DayNo[a] \in 0..LastNo /\ DateOf[DayNo[a]] = a
    /\ \A n \in 0..LastNo : DateOf[n] \in Dates /\ DayNo[DateOf[n]] = n
    /\ \A a, b \in Dates : Earlier(a, b) <=> DayNo[a] < DayNo[b]
<1>1. \A a, b \in Dates : <<a, b>> \in DateOrder <=> Earlier(a, b)
  BY DEF DateOrder
<1>2. DayNo = NumberIn(Dates, DateOrder)
  <2>1. \A a \in Dates : {b \in Dates : Earlier(b, a)} = {b \in Dates : <<b, a>> \in DateOrder}
    BY <1>1
  <2> QED BY <2>1 DEF DayNo, NumberIn
<1>3. \A a \in Dates : a[1] \in Int /\ a[2] \in Int /\ a[3] \in Int
  BY DateIs, CronAssumption DEF Years, Months
<1>4. \A a, b \in Dates : a = b \/ <<a, b>> \in DateOrder \/ <<b, a>> \in DateOrder
  <2> SUFFICES ASSUME NEW a \in Dates, NEW b \in Dates
               PROVE  a = b \/ Earlier(a, b) \/ Earlier(b, a)
    BY <1>1
  <2>1. a = <<a[1], a[2], a[3]>> /\ b = <<b[1], b[2], b[3]>>
    BY DateIs
  <2> QED BY <1>3, <2>1 DEF Earlier
<1>5. \A a \in Dates : <<a, a>> \notin DateOrder
  BY <1>1, <1>3 DEF Earlier
<1>6. \A a, b, c \in Dates :
         <<a, b>> \in DateOrder /\ <<b, c>> \in DateOrder => <<a, c>> \in DateOrder
  <2> SUFFICES ASSUME NEW a \in Dates, NEW b \in Dates, NEW c \in Dates,
                      Earlier(a, b), Earlier(b, c)
               PROVE  Earlier(a, c)
    BY <1>1
  <2> QED BY <1>3 DEF Earlier
<1>7. /\ Cardinality(Dates) \in Nat
      /\ NumberIn(Dates, DateOrder) \in [Dates -> 0..LastNo]
      /\ \A a, b \in Dates :
            <<a, b>> \in DateOrder <=> NumberIn(Dates, DateOrder)[a] < NumberIn(Dates, DateOrder)[b]
      /\ \A a, b \in Dates : NumberIn(Dates, DateOrder)[a] = NumberIn(Dates, DateOrder)[b] => a = b
      /\ \A n \in 0..LastNo : \E a \in Dates : NumberIn(Dates, DateOrder)[a] = n
  BY <1>4, <1>5, <1>6, DatesFinite, OrderNumbers DEF LastNo
<1>8. /\ DayNo \in [Dates -> 0..LastNo]
      /\ \A a, b \in Dates : Earlier(a, b) <=> DayNo[a] < DayNo[b]
      /\ \A a, b \in Dates : DayNo[a] = DayNo[b] => a = b
      /\ \A n \in 0..LastNo : \E a \in Dates : DayNo[a] = n
  BY <1>1, <1>2, <1>7
<1>9. \A n \in 0..LastNo : DateOf[n] \in Dates /\ DayNo[DateOf[n]] = n
  <2> SUFFICES ASSUME NEW n \in 0..LastNo PROVE DateOf[n] \in Dates /\ DayNo[DateOf[n]] = n
    OBVIOUS
  <2>1. DateOf[n] = CHOOSE a \in Dates : DayNo[a] = n
    BY DEF DateOf, LastNo
  <2>2. \E a \in Dates : DayNo[a] = n
    BY <1>8
  <2> QED BY <2>1, <2>2
<1>10. \A a \in Dates : DayNo[a] \in 0..LastNo /\ DateOf[DayNo[a]] = a
  BY <1>8, <1>9
<1>11. LastNo \in Int /\ DOMAIN DateOf = 0..LastNo
  BY <1>7 DEF LastNo, DateOf
<1> QED BY <1>8, <1>9, <1>10, <1>11

\* The first day of a month comes no later than any of its days, and the last
\* year but one is followed by more days.
LEMMA FirstOfMonth ==
    \A y \in Years, m \in Months :
        /\ <<y, m, 1>> \in Dates /\ DayNo[<<y, m, 1>>] \in 0..LastNo
        /\ DateOf[DayNo[<<y, m, 1>>]] = <<y, m, 1>>
<1>1. \A y \in Years, m \in Months : <<y, m, 1>> \in Dates
  <2> TAKE y \in Years, m \in Months
  <2>1. 1 \in Nat \ {0} /\ 1 <= DaysIn(y, m)
    BY MonthsHaveDays
  <2> QED BY <2>1, DateIs
<1> QED BY <1>1, DaysNumbered

\* Midnight plus a day is the next day: the next of the same month, or the
\* first of a month.
LEMMA NextDay ==
    ASSUME NEW n \in 0..LastNo, n + 1 \in 0..LastNo
    PROVE  \/ DateOf[n + 1][3] = 1
           \/ DateOf[n + 1][1] = DateOf[n][1] /\ DateOf[n + 1][2] = DateOf[n][2]
<1> DEFINE a == DateOf[n]
           b == DateOf[n + 1]
           c == <<b[1], b[2], b[3] - 1>>
<1>1. a \in Dates /\ b \in Dates /\ DayNo[a] = n /\ DayNo[b] = n + 1
  BY DaysNumbered
<1>2. SUFFICES ASSUME b[3] # 1 PROVE b[1] = a[1] /\ b[2] = a[2]
  OBVIOUS
<1> HIDE DEF a, b
<1>3. \A e \in Dates : e[1] \in Int /\ e[2] \in Int /\ e[3] \in Int
  BY DateIs, CronAssumption DEF Years, Months
<1>4. c \in Dates
  <2>1. b[1] \in Years /\ b[2] \in Months /\ b[3] \in Nat \ {0} /\ b[3] <= DaysIn(b[1], b[2])
    BY <1>1, DateIs
  <2>2. DaysIn(b[1], b[2]) \in Nat
    BY <2>1, MonthsHaveDays
  <2>3. b[3] - 1 \in Nat \ {0} /\ b[3] - 1 <= DaysIn(b[1], b[2])
    BY <1>2, <2>1, <2>2
  <2> QED BY <2>1, <2>3, DateIs
<1>5. Earlier(c, b)
  BY <1>1, <1>3 DEF Earlier
<1>6. DayNo[c] < n + 1
  BY <1>1, <1>4, <1>5, DaysNumbered
<1>7. ~Earlier(a, c)
  <2>1. DayNo[c] \in Int
    BY <1>4, DaysNumbered
  <2>2. ~(DayNo[a] < DayNo[c])
    BY <1>1, <1>6, <2>1
  <2> QED BY <1>1, <1>4, <2>2, DaysNumbered
<1>8. Earlier(a, b)
  <2>1. DayNo[a] < DayNo[b]
    BY <1>1
  <2> QED BY <1>1, <2>1, DaysNumbered
<1>9. /\ c[1] = b[1] /\ c[2] = b[2] /\ c[3] = b[3] - 1
  OBVIOUS
<1> HIDE DEF c
<1> QED BY <1>1, <1>3, <1>4, <1>7, <1>8, <1>9 DEF Earlier

\* Until two years before the end of the calendar there is a next day, at most
\* a year later.
LEMMA HasNextDay ==
    ASSUME NEW n \in 0..LastNo, DateOf[n][1] <= LastYear + 2
    PROVE  n + 1 \in 0..LastNo /\ DateOf[n + 1][1] <= DateOf[n][1] + 1
<1> DEFINE a == DateOf[n]
           y == a[1] + 1
           c == <<y, 1, 1>>
<1>1. a \in Dates /\ DayNo[a] = n
  BY DaysNumbered
<1>2. a[1] \in Years /\ a[1] \in Int /\ LastYear \in Nat
  BY <1>1, DateIs, CronAssumption DEF Years
<1>3. a[1] <= LastYear + 2
  OBVIOUS
<1> HIDE DEF a
<1>4. y \in Years /\ 1 \in Months /\ a[1] < y
  <2>1. y \in Years /\ a[1] < y
    BY <1>2, <1>3 DEF Years
  <2>2. 1 \in Months
    BY MonthsHaveDays DEF Months
  <2> QED BY <2>1, <2>2
<1>5. c \in Dates /\ DayNo[c] \in 0..LastNo
  <2> HIDE DEF y
  <2> QED BY <1>4, FirstOfMonth
<1>6. Earlier(a, c)
  BY <1>4 DEF Earlier
<1>7. n < DayNo[c]
  BY <1>1, <1>5, <1>6, DaysNumbered
<1>8. n + 1 \in 0..LastNo /\ ~(DayNo[c] < n + 1)
  BY <1>5, <1>7, DaysNumbered
<1> DEFINE b == DateOf[n + 1]
<1>9. b \in Dates /\ DayNo[b] = n + 1
  BY <1>8, DaysNumbered
<1> HIDE DEF b
<1>10. ~Earlier(c, b)
  BY <1>5, <1>8, <1>9, DaysNumbered
<1>11. b[1] \in Int
  BY <1>9, DateIs DEF Years
<1>12. b[1] <= y
  BY <1>2, <1>10, <1>11 DEF Earlier
<1> QED BY <1>8, <1>12 DEF a, b

\* The month that follows, as AddMonth has it.
FollowingYear(y, m) == IF (m % Len(MonthDays)) + 1 = 1 THEN y + 1 ELSE y
FollowingMonth(m) == (m % Len(MonthDays)) + 1

\* From the first of a month up to the first of the following one are the days of
\* that month.
LEMMA DaysOfMonth ==
    ASSUME NEW y \in Years, NEW m \in Months, y <= LastYear + 2
    PROVE  LET v == FollowingYear(y, m)
               k == FollowingMonth(m)
           IN  /\ v \in Years /\ k \in Months
               /\ DayNo[<<y, m, 1>>] < DayNo[<<v, k, 1>>]
               /\ \A n \in 0..LastNo :
                     DayNo[<<y, m, 1>>] <= n /\ n < DayNo[<<v, k, 1>>]
                         <=> DateOf[n][1] = y /\ DateOf[n][2] = m
               /\ k # 1 => v = y
<1> DEFINE L == Len(MonthDays)
           v == FollowingYear(y, m)
           k == FollowingMonth(m)
<1>1. L \in Nat \ {0} /\ m \in 1..L /\ y \in Int
  BY MonthsHaveDays DEF Months, Years
<1>2. \/ m < L /\ k = m + 1
      \/ m = L /\ k = 1
  <2> HIDE DEF L
  <2>1. m < L => m % L = m
    BY <1>1
  <2>2. m = L => m % L = 0
    BY <1>1
  <2> USE DEF L
  <2>3. k = (m % L) + 1
    BY DEF FollowingMonth
  <2> HIDE DEF L, k
  <2> QED BY <1>1, <2>1, <2>2, <2>3
<1>3. \/ m < L /\ k = m + 1 /\ v = y
      \/ m = L /\ k = 1 /\ v = y + 1
  <2>1. v = IF k = 1 THEN y + 1 ELSE y
    BY DEF FollowingYear, FollowingMonth
  <2> HIDE DEF L, k, v
  <2> QED BY <1>1, <1>2, <2>1
<1> HIDE DEF L, v, k
<1>4. v \in Years /\ k \in 1..L
  <2>1. LastYear \in Nat
    BY CronAssumption
  <2> QED BY <1>1, <1>3, <2>1 DEF Years
<1>5. k \in Months
  BY <1>4 DEF L, Months
<1> DEFINE a == <<y, m, 1>>
           b == <<v, k, 1>>
<1>6. /\ a \in Dates /\ DayNo[a] \in 0..LastNo
      /\ b \in Dates /\ DayNo[b] \in 0..LastNo
  BY <1>4, <1>5, FirstOfMonth
<1>7. DayNo[a] < DayNo[b]
  <2>1. Earlier(a, b)
    BY <1>1, <1>3 DEF Earlier
  <2> QED BY <1>6, <2>1, DaysNumbered
<1>8. ASSUME NEW n \in 0..LastNo
      PROVE  DayNo[a] <= n /\ n < DayNo[b] <=> DateOf[n][1] = y /\ DateOf[n][2] = m
  <2> DEFINE c == DateOf[n]
  <2>1. c \in Dates /\ DayNo[c] = n
    BY DaysNumbered
  <2>2. c[1] \in Int /\ c[2] \in Int /\ c[3] \in Int /\ c[2] <= L /\ c[2] >= 1 /\ c[3] >= 1
    BY <2>1, <1>1, DateIs DEF Years, Months, L
  <2> HIDE DEF c
  <2>3. Earlier(c, a) <=> n < DayNo[a]
    BY <1>6, <2>1, DaysNumbered
  <2>4. Earlier(c, b) <=> n < DayNo[b]
    BY <1>6, <2>1, DaysNumbered
  <2>5. ~Earlier(c, a) /\ Earlier(c, b) <=> c[1] = y /\ c[2] = m
    BY <1>1, <1>3, <2>2 DEF Earlier
  <2>6. DayNo[a] \in Int /\ DayNo[b] \in Int /\ n \in Int
    BY <1>6
  <2> QED BY <2>3, <2>4, <2>5, <2>6 DEF c
<1>9. k # 1 => v = y
  BY <1>3
<1> QED BY <1>4, <1>5, <1>7, <1>8, <1>9 DEF v, k

-----------------------------------------------------------------------------
(***************************************************************************)
(* The clock: the times of the calendar, and adding a second, a minute, an *)
(* hour or a day to the beginning of the one that a time is in.            *)
(***************************************************************************)

Times == [day : 0..LastNo, sod : 0..(DayLen - 1)]

\* Seconds, minutes and hours divide the day.
LEMMA Units ==
    /\ Secs \in Nat \ {0} /\ Mins \in Nat \ {0} /\ Hours \in Nat \ {0}
    /\ HourLen \in Nat \ {0} /\ DayLen \in Nat \ {0}
    /\ HourLen = Secs * Mins /\ DayLen = HourLen * Hours
    /\ Mins * Hours \in Nat \ {0} /\ DayLen = Secs * (Mins * Hours)
<1>1. Secs \in Nat \ {0} /\ Mins \in Nat \ {0} /\ Hours \in Nat \ {0}
  BY CronAssumption
<1>2. \A a, b \in Nat \ {0} : a * b \in Nat \ {0}
  OBVIOUS
<1>3. HourLen \in Nat \ {0} /\ Mins * Hours \in Nat \ {0} /\ HourLen = Secs * Mins
  BY <1>1, <1>2 DEF HourLen
<1>4. DayLen \in Nat \ {0} /\ DayLen = HourLen * Hours
  BY <1>1, <1>2, <1>3 DEF DayLen
<1>5. \A a, b, c \in Nat : (a * b) * c = a * (b * c)
  OBVIOUS
<1>6. DayLen = Secs * (Mins * Hours)
  BY <1>1, <1>5 DEF DayLen, HourLen
<1> QED BY <1>1, <1>3, <1>4, <1>6

\* u is the beginning of the unit of length l that follows that of s, and the
\* times from s up to u are in the unit of s.
NextUnit(l, s, u) ==
    /\ u \in [day : Nat, sod : 0..(DayLen - 1)] /\ u.sod % l = 0 /\ Before(s, u)
    /\ \/ u.day = s.day /\ u.sod \div l = (s.sod \div l) + 1
       \/ u.day = s.day + 1 /\ u.sod = 0
    /\ \A x \in Times :
          ~Before(x, s) /\ Before(x, u) => x.day = s.day /\ x.sod \div l = s.sod \div l

\* Before a multiple of l, and not before a number of the unit below it, are
\* the numbers of that unit only.
LEMMA InUnit ==
    ASSUME NEW l \in Nat \ {0}, NEW v \in Nat, NEW w \in Nat, w >= v,
           w < ((v \div l) + 1) * l
    PROVE  w \div l = v \div l
<1> DEFINE q == v \div l
           r == v % l
<1>1. q \in Nat /\ r \in 0..(l - 1) /\ v = q * l + r
  BY DivMod
<1>2. w < (q + 1) * l
  OBVIOUS
<1> HIDE DEF q, r
<1> DEFINE d == w - q * l
<1>3. d \in 0..(l - 1) /\ w = q * l + d
  BY <1>1, <1>2
<1> HIDE DEF d
<1>4. w \div l = q
  BY <1>1, <1>3, DivUnique
<1> QED BY <1>4 DEF q

\* The beginning of the unit that a time is in, plus a unit, is the beginning of
\* the next one.
LEMMA AddUnit ==
    ASSUME NEW l \in Nat \ {0}, NEW k \in Nat \ {0}, DayLen = l * k, NEW s \in Times
    PROVE  NextUnit(l, s, TimeAdd([day |-> s.day, sod |-> (s.sod \div l) * l], l))
<1> DEFINE q == s.sod \div l
           p == q * l
           u == TimeAdd([day |-> s.day, sod |-> p], l)
<1>1. s.sod \in Nat /\ s.day \in Nat /\ s.sod < DayLen
  BY Units, DaysNumbered DEF Times
<1>2. q \in Nat /\ q * l <= s.sod /\ s.sod < (q + 1) * l
  <2> DEFINE r == s.sod % l
  <2>1. q \in Nat /\ r \in 0..(l - 1) /\ s.sod = q * l + r
    BY <1>1, DivMod
  <2> HIDE DEF q, r
  <2> QED BY <2>1
<1>3. \A w \in Nat : w >= s.sod /\ w < (q + 1) * l => w \div l = q
  BY <1>1, InUnit
<1>4. u = [day |-> s.day + ((p + l) \div DayLen), sod |-> (p + l) % DayLen]
  BY DEF TimeAdd
<1> HIDE DEF q, u
<1>5. p + l = (q + 1) * l /\ p + l \in Nat /\ p <= s.sod /\ s.sod < p + l
  BY <1>2
<1> HIDE DEF p
<1>6. q < k
  <2>1. q >= k => q * l >= k * l
    BY <1>2
  <2>2. k * l = DayLen
    OBVIOUS
  <2>3. q * l < DayLen
    BY <1>1, <1>2
  <2> DEFINE y == q * l
             x == k * l
  <2>4. y \in Int /\ x \in Int /\ (q >= k => y >= x) /\ x = DayLen /\ y < DayLen
    BY <1>2, <2>1, <2>2, <2>3
  <2> HIDE DEF x, y
  <2> QED BY <1>2, <2>4
<1>7. DayLen \in Nat \ {0}
  BY Units
<1>8. ASSUME q + 1 < k PROVE NextUnit(l, s, u)
  <2>1. p + l < DayLen
    <3>1. (q + 1) * l <= (k - 1) * l
      BY <1>2, <1>8
    <3>2. (k - 1) * l = k * l - l /\ k * l = DayLen
      OBVIOUS
    <3> QED BY <1>5, <3>1, <3>2
  <2>2. u = [day |-> s.day, sod |-> p + l]
    <3>1. (p + l) \div DayLen = 0 /\ (p + l) % DayLen = p + l
      BY <1>5, <1>7, <2>1
    <3> QED BY <1>1, <1>4, <3>1
  <2>3. (p + l) \div l = q + 1 /\ (p + l) % l = 0
    <3>1. 0 \in 0..(l - 1) /\ q + 1 \in Int /\ p + l = (q + 1) * l + 0
      BY <1>2, <1>5
    <3> QED BY <3>1, DivUnique
  <2>4. u.day = s.day /\ u.sod = p + l /\ u \in [day : Nat, sod : 0..(DayLen - 1)]
    BY <1>1, <1>5, <2>1, <2>2
  <2>5. Before(s, u)
    BY <1>1, <1>5, <2>4 DEF Before
  <2>6. ASSUME NEW x \in Times, ~Before(x, s), Before(x, u)
        PROVE  x.day = s.day /\ x.sod \div l = q
    <3>1. x.day \in Int /\ x.sod \in Nat
      BY Units, DaysNumbered DEF Times
    <3>2. x.day = s.day /\ x.sod >= s.sod /\ x.sod < p + l
      BY <1>1, <1>5, <2>4, <2>6, <3>1 DEF Before
    <3> QED BY <1>3, <1>5, <3>1, <3>2
  <2> QED BY <2>3, <2>4, <2>5, <2>6 DEF NextUnit, q
<1>9. ASSUME q + 1 = k PROVE NextUnit(l, s, u)
  <2>1. p + l = DayLen
    BY <1>2, <1>5, <1>9
  <2>2. u = [day |-> s.day + 1, sod |-> 0]
    <3>1. (p + l) \div DayLen = 1 /\ (p + l) % DayLen = 0
      BY <1>7, <2>1
    <3> QED BY <1>4, <3>1
  <2>3. u.day = s.day + 1 /\ u.sod = 0 /\ u \in [day : Nat, sod : 0..(DayLen - 1)]
    BY <1>1, <1>7, <2>2
  <2>4. u.sod % l = 0
    BY <2>3
  <2>5. Before(s, u)
    BY <1>1, <2>3 DEF Before
  <2>6. ASSUME NEW x \in Times, ~Before(x, s), Before(x, u)
        PROVE  x.day = s.day /\ x.sod \div l = q
    <3>1. x.day \in Int /\ x.sod \in Nat /\ x.sod < DayLen
      BY Units, DaysNumbered DEF Times
    <3>2. x.day = s.day /\ x.sod >= s.sod
      BY <1>1, <2>3, <2>6, <3>1 DEF Before
    <3> QED BY <1>3, <1>5, <2>1, <3>1, <3>2
  <2> QED BY <2>3, <2>4, <2>5, <2>6 DEF NextUnit, q
<1> QED BY <1>2, <1>6, <1>8, <1>9 DEF u, p, q

\* Truncate goes to the beginning of the unit, where the offset of the location
\* is a number of units.
LEMMA TruncateIs ==
    ASSUME NEW l \in Nat \ {0}, NEW k \in Nat \ {0}, DayLen = l * k, NEW s \in Times,
           NEW j \in Int, Offset = j * l
    PROVE  Truncate(s, l) = [day |-> s.day, sod |-> (s.sod \div l) * l]
<1> DEFINE q == s.sod \div l
           r == s.sod % l
           p == q * l
<1>1. s.sod \in Nat /\ s.day \in Nat /\ s.sod < DayLen
  BY Units, DaysNumbered DEF Times
<1>2. q \in Nat /\ r \in 0..(l - 1) /\ s.sod = q * l + r
  BY <1>1, DivMod
<1> HIDE DEF q, r
<1>3. (s.sod - Offset) % l = r
  <2>1. q - j \in Int /\ s.sod - Offset = (q - j) * l + r
    BY <1>2
  <2> QED BY <1>2, <2>1, DivUnique
<1>4. Truncate(s, l) = [day |-> s.day + ((s.sod - r) \div DayLen), sod |-> (s.sod - r) % DayLen]
  <2>1. s.sod + (-r) = s.sod - r
    BY <1>1, <1>2
  <2> QED BY <1>3, <2>1 DEF Truncate, TimeAdd
<1>5. s.sod - r = p /\ p \in 0..(DayLen - 1)
  BY <1>1, <1>2
<1> HIDE DEF p
<1>6. p \div DayLen = 0 /\ p % DayLen = p
  BY <1>5, Units
<1>7. Truncate(s, l) = [day |-> s.day, sod |-> p]
  BY <1>1, <1>4, <1>5, <1>6
<1> QED BY <1>7 DEF p, q

\* Division as operators, which the lemmas below give its facts.
Quo(x, d) == x \div d
Rem(x, d) == x % d
Split(x, d, q, r) == q \in Int /\ r \in 0..(d - 1) /\ x = q * d + r

\* Every number has its quotient and remainder.
LEMMA Splits ==
    \A x \in Nat, d \in Nat \ {0} : Quo(x, d) \in Nat /\ Split(x, d, Quo(x, d), Rem(x, d))
<1> SUFFICES ASSUME NEW x \in Nat, NEW d \in Nat \ {0}
             PROVE  Quo(x, d) \in Nat /\ Split(x, d, Quo(x, d), Rem(x, d))
  OBVIOUS
<1>1. x \div d \in Nat /\ x % d \in 0..(d - 1) /\ x = (x \div d) * d + (x % d)
  BY DivMod
<1> QED BY <1>1 DEF Quo, Rem, Split

\* It has no other.
LEMMA SplitOnce ==
    \A x, q, r : \A d \in Nat \ {0} : Split(x, d, q, r) => Quo(x, d) = q /\ Rem(x, d) = r
<1> SUFFICES ASSUME NEW x, NEW q \in Int, NEW d \in Nat \ {0}, NEW r \in 0..(d - 1),
                    x = q * d + r
             PROVE  Quo(x, d) = q /\ Rem(x, d) = r
  BY DEF Split
<1>1. (q * d + r) \div d = q /\ (q * d + r) % d = r
  BY DivUnique
<1> QED BY <1>1 DEF Quo, Rem

\* Of b units of length a is a longer one made, of length c: its number and the
\* place in it follow from the number of the short unit.
LEMMA UnitsNest ==
    ASSUME NEW v \in Nat, NEW a \in Nat \ {0}, NEW b \in Nat \ {0}, NEW c \in Nat \ {0},
           c = a * b
    PROVE  /\ Quo(Quo(v, a), b) = Quo(v, c)
           /\ Quo(Rem(v, c), a) = Rem(Quo(v, a), b)
           /\ Rem(Rem(v, c), a) = Rem(v, a)
<1> DEFINE q == Quo(v, a)
           r == Rem(v, a)
           p == Quo(q, b)
           s == Rem(q, b)
           w == s * a + r
<1>1. q \in Nat /\ Split(v, a, q, r)
  BY Splits
<1> HIDE DEF q, r
<1>2. p \in Nat /\ Split(q, b, p, s)
  BY <1>1, Splits
<1> HIDE DEF p, s
<1>3. /\ r \in 0..(a - 1) /\ v = q * a + r
      /\ s \in 0..(b - 1) /\ q = p * b + s
  BY <1>1, <1>2 DEF Split
<1>4. v = p * c + w
  <2>1. v = p * (a * b) + (s * a + r)
    BY <1>2, <1>3
  <2> QED BY <2>1
<1>5. w \in 0..(c - 1)
  <2>1. s * a <= (b - 1) * a
    BY <1>3
  <2> QED BY <1>3, <2>1
<1>6. Split(w, a, s, r)
  BY <1>3 DEF Split
<1> HIDE DEF w
<1>7. Split(v, c, p, w)
  BY <1>2, <1>4, <1>5 DEF Split
<1>8. Quo(w, a) = s /\ Rem(w, a) = r
  BY <1>6, SplitOnce
<1>9. Quo(v, c) = p /\ Rem(v, c) = w
  BY <1>7, SplitOnce
<1> QED BY <1>8, <1>9 DEF p, q, r, s

\* Where a unit begins, the longer one is still the same, or begins as well.
LEMMA SameOrZero ==
    ASSUME NEW v \in Nat, NEW w \in Nat, NEW a \in Nat \ {0}, NEW b \in Nat \ {0},
           NEW c \in Nat \ {0}, c = a * b, Quo(w, a) = Quo(v, a) + 1, Rem(w, a) = 0
    PROVE  Quo(w, c) = Quo(v, c) \/ Rem(w, c) = 0
<1> DEFINE q == Quo(v, a)
           r == Quo(w, a)
           p == Quo(q, b)
           s == Rem(q, b)
           e == p + 1
<1>1. q \in Nat /\ r = q + 1
  BY Splits
<1>2. w = r * a
  <2>1. r \in Nat /\ w = r * a + 0
    BY Splits DEF Split
  <2> HIDE DEF r
  <2> QED BY <2>1
<1>3. p = Quo(v, c) /\ Quo(r, b) = Quo(w, c)
  BY UnitsNest
<1> HIDE DEF q, r
<1>4. p \in Nat /\ s \in 0..(b - 1) /\ q = p * b + s
  BY <1>1, Splits DEF Split
<1> HIDE DEF p, s
<1>5. CASE s + 1 < b
  <2>1. Split(r, b, p, s + 1)
    BY <1>1, <1>4, <1>5 DEF Split
  <2>2. Quo(r, b) = p
    BY <2>1, SplitOnce
  <2> QED BY <1>3, <2>2
<1>6. CASE s + 1 = b
  <2>1. e \in Int /\ r = e * b
    BY <1>1, <1>4, <1>6
  <2> HIDE DEF e
  <2>2. w = (e * b) * a
    BY <1>2, <2>1
  <2>3. w = e * c
    <3>1. \A x, y, z \in Int : (x * y) * z = x * (z * y)
      OBVIOUS
    <3>2. (e * b) * a = e * (a * b)
      BY <2>1, <3>1
    <3> QED BY <2>2, <3>2
  <2>4. Split(w, c, e, 0)
    <3>1. 0 \in 0..(c - 1) /\ w = e * c + 0
      BY <2>1, <2>3
    <3> QED BY <2>1, <3>1 DEF Split
  <2>5. Rem(w, c) = 0
    BY <2>4, SplitOnce
  <2> QED BY <2>5
<1> QED BY <1>4, <1>5, <1>6

\* Minute and hour of a time depend on the minute of its day only.
LEMMA Fields ==
    ASSUME NEW s \in Times
    PROVE  /\ s.sod \in Nat /\ s.sod < DayLen /\ s.day \in 0..LastNo
           /\ Hour(s) = s.sod \div HourLen
           /\ Hour(s) = (s.sod \div Secs) \div Mins /\ Minute(s) = (s.sod \div Secs) % Mins
           /\ s.sod % HourLen = 0 => Minute(s) = 0 /\ s.sod % Secs = 0
           /\ s.sod = 0 => Hour(s) = 0 /\ Minute(s) = 0 /\ Second(s) = 0
           /\ s.sod \div DayLen = 0
<1>1. s.sod \in Nat /\ s.sod < DayLen /\ s.day \in 0..LastNo
  BY Units, DaysNumbered DEF Times
<1>2. Hour(s) = s.sod \div HourLen
  BY DEF Hour
<1> DEFINE v == s.sod
<1>n. /\ v \in Nat /\ Secs \in Nat \ {0} /\ Mins \in Nat \ {0} /\ HourLen \in Nat \ {0}
      /\ HourLen = Secs * Mins
  BY <1>1, Units
<1> HIDE DEF v
<1>3. Quo(Quo(v, Secs), Mins) = Quo(v, HourLen)
  BY <1>n, UnitsNest
<1>4. /\ Quo(Rem(v, HourLen), Secs) = Rem(Quo(v, Secs), Mins)
      /\ Rem(Rem(v, HourLen), Secs) = Rem(v, Secs)
  BY <1>n, UnitsNest
<1>5. Minute(s) = (s.sod \div Secs) % Mins
  BY <1>4 DEF Minute, Quo, Rem, v
<1>6. 0 \div Secs = 0 /\ 0 % Secs = 0 /\ 0 \div HourLen = 0 /\ 0 % HourLen = 0
  BY Units
<1>7. s.sod % HourLen = 0 => Minute(s) = 0 /\ s.sod % Secs = 0
  <2>1. ASSUME s.sod % HourLen = 0 PROVE Minute(s) = 0
    BY <1>6, <2>1 DEF Minute
  <2>2. ASSUME s.sod % HourLen = 0 PROVE s.sod % Secs = 0
    BY <1>4, <1>6, <2>2 DEF Rem, v
  <2> QED BY <2>1, <2>2
<1>8. s.sod = 0 => Hour(s) = 0 /\ Minute(s) = 0 /\ Second(s) = 0
  BY <1>6 DEF Hour, Minute, Second
<1>9. s.sod \div DayLen = 0
  BY <1>1, Units
<1>10. Hour(s) = (s.sod \div Secs) \div Mins
  BY <1>2, <1>3 DEF Quo, v
<1> QED BY <1>1, <1>2, <1>10, <1>5, <1>7, <1>8, <1>9

\* What the beginning of the next unit keeps: the day, the hour or the minute,
\* unless a day, an hour or a minute begins as well.
LEMMA Keeps ==
    ASSUME NEW s \in Times, NEW u \in Times
    PROVE  /\ NextUnit(HourLen, s, u) =>
                /\ u.day = s.day \/ u.sod = 0
                /\ u.sod % HourLen = 0
           /\ NextUnit(Secs, s, u) =>
                /\ (u.day = s.day /\ Hour(u) = Hour(s)) \/ u.sod % HourLen = 0
                /\ u.day = s.day \/ u.sod = 0
                /\ u.sod % Secs = 0
           /\ NextUnit(1, s, u) =>
                /\ (u.day = s.day /\ Hour(u) = Hour(s)) \/ u.sod % HourLen = 0
                /\ \/ u.day = s.day /\ Hour(u) = Hour(s) /\ Minute(u) = Minute(s)
                   \/ u.sod % Secs = 0
                /\ u.day = s.day \/ u.sod = 0
<1> DEFINE v == s.sod
           w == u.sod
<1>1. v \in Nat /\ w \in Nat
  BY Fields
<1>2. 0 % HourLen = 0 /\ 0 % Secs = 0
  BY Units
<1>3. NextUnit(HourLen, s, u) => (u.day = s.day \/ u.sod = 0) /\ u.sod % HourLen = 0
  BY DEF NextUnit
<1>4. ASSUME NextUnit(Secs, s, u)
      PROVE  /\ (u.day = s.day /\ Hour(u) = Hour(s)) \/ u.sod % HourLen = 0
             /\ u.day = s.day \/ u.sod = 0
             /\ u.sod % Secs = 0
  <2>1. /\ u.sod % Secs = 0
        /\ \/ u.day = s.day /\ w \div Secs = (v \div Secs) + 1
           \/ u.sod = 0
    BY <1>4 DEF NextUnit
  <2>2. w \div Secs = (v \div Secs) + 1 /\ w % Secs = 0
            => w \div HourLen = v \div HourLen \/ w % HourLen = 0
    <3> HIDE DEF v, w
    <3>1. Secs \in Nat \ {0} /\ Mins \in Nat \ {0}
      BY Units
    <3>2. HourLen \in Nat \ {0} /\ HourLen = Secs * Mins
      BY Units
    <3>3. Quo(w, Secs) = Quo(v, Secs) + 1 /\ Rem(w, Secs) = 0
              => Quo(w, HourLen) = Quo(v, HourLen) \/ Rem(w, HourLen) = 0
      BY <1>1, <3>1, <3>2, SameOrZero
    <3> QED BY <3>3 DEF Quo, Rem
  <2>3. CASE u.sod = 0
    BY <1>2, <2>1, <2>3
  <2>4. CASE u.day = s.day /\ w \div Secs = (v \div Secs) + 1
    BY <2>1, <2>2, <2>4 DEF Hour
  <2> QED BY <2>1, <2>3, <2>4
<1>5. ASSUME NextUnit(1, s, u)
      PROVE  /\ (u.day = s.day /\ Hour(u) = Hour(s)) \/ u.sod % HourLen = 0
             /\ \/ u.day = s.day /\ Hour(u) = Hour(s) /\ Minute(u) = Minute(s)
                \/ u.sod % Secs = 0
             /\ u.day = s.day \/ u.sod = 0
  <2>1. \/ u.day = s.day /\ w \div 1 = (v \div 1) + 1 /\ w % 1 = 0
        \/ u.sod = 0
    BY <1>5 DEF NextUnit
  <2>2. ASSUME NEW l \in Nat \ {0}
        PROVE  w \div 1 = (v \div 1) + 1 /\ w % 1 = 0 => w \div l = v \div l \/ w % l = 0
    <3> HIDE DEF v, w
    <3>1. l = 1 * l /\ 1 \in Nat \ {0}
      OBVIOUS
    <3>2. Quo(w, 1) = Quo(v, 1) + 1 /\ Rem(w, 1) = 0 => Quo(w, l) = Quo(v, l) \/ Rem(w, l) = 0
      BY <1>1, <3>1, SameOrZero
    <3> QED BY <3>2 DEF Quo, Rem
  <2>3. CASE u.sod = 0
    BY <1>2, <2>3
  <2>4. CASE u.day = s.day /\ w \div 1 = (v \div 1) + 1 /\ w % 1 = 0
    <3>1. w \div HourLen = v \div HourLen \/ w % HourLen = 0
      BY <2>2, <2>4, Units
    <3>2. w \div Secs = v \div Secs \/ w % Secs = 0
      BY <2>2, <2>4, Units
    <3>3. w \div Secs = v \div Secs => Hour(u) = Hour(s) /\ Minute(u) = Minute(s)
      BY Fields
    <3>4. w \div HourLen = v \div HourLen => Hour(u) = Hour(s)
      BY DEF Hour
    <3> QED BY <2>4, <3>1, <3>2, <3>3, <3>4
  <2> QED BY <2>1, <2>3, <2>4
<1> QED BY <1>3, <1>4, <1>5

-----------------------------------------------------------------------------
(***************************************************************************)
(* The invariant of the search.                                            *)
(***************************************************************************)

Stages == {"month", "day", "hour", "minute", "second"}

\* t and t0 are times of the calendar.
SearchTypeOK ==
    /\ t \in Times /\ t0 \in Times /\ initFlag \in BOOLEAN
    /\ searchPc \in Stages \cup {"idle", "retry", "found", "zero"}
    /\ searchPc = "idle" => t = t0 /\ ~initFlag

\* The search goes on from the second after t0, and not beyond the year in which
\* it gives up.
YearInv ==
    searchPc # "idle" =>
        /\ Before(t0, t)
        /\ TimeAdd(t0, 1) \in Times /\ Year(TimeAdd(t0, 1)) <= LastYear + 1
        /\ searchPc \in Stages => Year(t) <= LastYear + 2

\* The loops that were left found a match.
StageInv ==
    /\ searchPc \in {"day", "hour", "minute", "second", "found"} => Month(t) \in expr.month
    /\ searchPc \in {"hour", "minute", "second", "found"} => MatchDay(t)
    /\ searchPc \in {"minute", "second", "found"} => Hour(t) \in expr.hour
    /\ searchPc \in {"second", "found"} => Minute(t) \in expr.min
    /\ searchPc = "found" => Second(t) \in expr.sec

\* Below a field of u that does not match everything is at its beginning.
Cleared(u) ==
    /\ Month(u) \notin expr.month => Day(u) = 1 /\ u.sod = 0
    /\ ~MatchDay(u) => u.sod = 0
    /\ Hour(u) \notin expr.hour => u.sod % HourLen = 0
    /\ Minute(u) \notin expr.min => u.sod % Secs = 0

\* This is so from the first loop that had to search on, which is why no later
\* one has to set the lower fields to zero.
ClearedInv == initFlag => Cleared(t)

\* No time from v on and before u matches.
NoMatch(v, u) == \A x \in Times : ~Before(x, v) /\ Before(x, u) => ~Matches(x)

PassedInv == \A x \in Times : Before(t0, x) /\ Before(x, t) => ~Matches(x)

CronIInv == SearchTypeOK /\ YearInv /\ StageInv /\ ClearedInv /\ PassedInv

\* Years are numbers, and the year after the last argument's is in the calendar.
LEMMA YearsAre ==
    ASSUME NEW s \in Times
    PROVE  /\ DateOf[s.day] \in Dates /\ Year(s) \in Years /\ Month(s) \in Months
           /\ Day(s) \in Nat \ {0} /\ Year(s) \in Int /\ LastYear \in Nat
           /\ DateOf[s.day] = <<Year(s), Month(s), Day(s)>>
           /\ DayNo[<<Year(s), Month(s), Day(s)>>] = s.day
<1>1. s.day \in 0..LastNo
  BY Fields
<1>2. DateOf[s.day] \in Dates /\ DayNo[DateOf[s.day]] = s.day
  BY <1>1, DaysNumbered
<1> DEFINE a == DateOf[s.day]
<1>3. a \in Dates /\ DayNo[a] = s.day
  BY <1>2
<1>4. Year(s) = a[1] /\ Month(s) = a[2] /\ Day(s) = a[3]
  BY DEF Year, Month, Day
<1> HIDE DEF a
<1>5. a[1] \in Years /\ a[2] \in Months /\ a[3] \in Nat \ {0} /\ a = <<a[1], a[2], a[3]>>
  BY <1>3, DateIs
<1>6. LastYear \in Nat /\ \A y \in Years : y \in Int
  BY CronAssumption DEF Years
<1> QED BY <1>3, <1>4, <1>5, <1>6 DEF a

\* A second later is the next second.
LEMMA AddSecond ==
    ASSUME NEW s \in Times
    PROVE  NextUnit(1, s, TimeAdd(s, 1))
<1>1. 1 \in Nat \ {0} /\ DayLen \in Nat \ {0} /\ DayLen = 1 * DayLen
  BY Units
<1>2. NextUnit(1, s, TimeAdd([day |-> s.day, sod |-> (s.sod \div 1) * 1], 1))
  BY <1>1, AddUnit
<1>3. (s.sod \div 1) * 1 = s.sod
  <2>1. s.sod \in Nat
    BY Fields
  <2> QED BY <2>1
<1>4. TimeAdd([day |-> s.day, sod |-> (s.sod \div 1) * 1], 1) = TimeAdd(s, 1)
  BY <1>3 DEF TimeAdd
<1> QED BY <1>2, <1>4

\* Before the year in which Next gives up, the next unit is in the calendar.
LEMMA InCalendar ==
    ASSUME NEW s \in Times, NEW l, NEW u, NextUnit(l, s, u), Year(s) <= LastYear + 2
    PROVE  /\ u \in Times /\ Year(u) <= Year(s) + 1
           /\ \/ u.day = s.day
              \/ u.day = s.day + 1 /\ u.sod = 0
<1>1. s.day \in 0..LastNo /\ s.day + 1 \in 0..LastNo /\ DateOf[s.day + 1][1] <= Year(s) + 1
  <2>1. s.day \in 0..LastNo
    BY Fields
  <2> QED BY <2>1, HasNextDay DEF Year
<1>2. /\ u \in [day : Nat, sod : 0..(DayLen - 1)]
      /\ \/ u.day = s.day
         \/ u.day = s.day + 1 /\ u.sod = 0
  BY DEF NextUnit
<1>3. u.day \in 0..LastNo
  BY <1>1, <1>2
<1>4. u \in Times
  BY <1>2, <1>3 DEF Times
<1>5. Year(u) <= Year(s) + 1
  <2>1. CASE u.day = s.day
    <3>1. Year(u) = Year(s) /\ Year(s) \in Int
      BY <2>1, YearsAre DEF Year
    <3> QED BY <3>1
  <2>2. CASE u.day = s.day + 1
    BY <1>1, <2>2 DEF Year
  <2> QED BY <1>2, <2>1, <2>2
<1> QED BY <1>2, <1>4, <1>5

\* Before the call nothing was searched.
LEMMA SearchInitInv == CronInit => CronIInv
<1> SUFFICES ASSUME CronInit PROVE CronIInv
  OBVIOUS
<1>1. 0 \in 0..LastNo
  <2>1. 0 \in Years /\ 1 \in Months
    BY MonthsHaveDays, CronAssumption DEF Years, Months
  <2>2. DayNo[<<0, 1, 1>>] \in 0..LastNo
    BY <2>1, FirstOfMonth
  <2> QED BY <2>2, DaysNumbered
<1>2. t0 \in Times /\ t = t0
  <2>1. 0 \in 0..(DayLen - 1)
    BY Units
  <2> QED BY <1>1, <2>1 DEF CronInit, Times
<1>3. \A x \in Times : ~(Before(t0, x) /\ Before(x, t0))
  <2>1. \A x \in Times : x.day \in Int /\ x.sod \in Int
    BY Fields
  <2> QED BY <1>2, <2>1 DEF Before
<1>4. searchPc = "idle" /\ initFlag = FALSE
  BY DEF CronInit
<1>5. SearchTypeOK
  BY <1>2, <1>4 DEF SearchTypeOK
<1>6. PassedInv
  BY <1>2, <1>3 DEF PassedInv
<1> QED BY <1>4, <1>5, <1>6 DEF CronIInv, YearInv, StageInv, ClearedInv

\* Next begins with the second after its argument, which nothing is between.
LEMMA CallStep ==
    ASSUME CronIInv, CallNext
    PROVE  CronIInv'
<1>1. PICK a \in Dates, s \in 0..(DayLen - 1) : a[1] <= LastYear /\ t0' = [day |-> DayNo[a], sod |-> s]
  BY DEF CallNext, Arguments
<1>2. t0' \in Times /\ Year(t0') <= LastYear /\ LastYear \in Nat
  <2>1. DayNo[a] \in 0..LastNo /\ DateOf[DayNo[a]] = a
    BY DaysNumbered
  <2> QED BY <1>1, <2>1, CronAssumption DEF Times, Year
<1> DEFINE v == t0'
           u == TimeAdd(v, 1)
<1>3. NextUnit(1, v, u)
  BY <1>2, AddSecond
<1>4. Year(v) \in Int
  BY <1>2, YearsAre
<1>5. t' = u /\ searchPc' = "retry" /\ initFlag' = FALSE
  BY DEF CallNext, CronIInv, SearchTypeOK
<1>6. v \in Times
  BY <1>2
<1>7. Year(v) <= LastYear /\ LastYear \in Nat
  BY <1>2
<1>u. u = TimeAdd(v, 1)
  OBVIOUS
<1>v. v = t0'
  OBVIOUS
<1> HIDE DEF u, v
<1>8. u \in Times /\ Year(u) <= Year(v) + 1
  <2>1. Year(v) <= LastYear + 2
    BY <1>4, <1>7
  <2> QED BY <1>3, <1>6, <2>1, InCalendar
<1>9. Before(v, u)
  BY <1>3 DEF NextUnit
<1>10. ASSUME NEW x \in Times, Before(v, x), Before(x, u)
       PROVE  FALSE
  <2>1. x.day \in Int /\ x.sod \in Nat /\ v.day \in Int /\ v.sod \in Nat
    BY <1>6, Fields
  <2>2. ~Before(x, v)
    BY <1>10, <2>1 DEF Before
  <2>3. x.day = v.day /\ x.sod \div 1 = v.sod \div 1
    BY <1>3, <1>10, <2>2 DEF NextUnit
  <2>4. x.sod = v.sod
    BY <2>1, <2>3
  <2> QED BY <1>10, <2>1, <2>3, <2>4 DEF Before
<1>11. SearchTypeOK'
  BY <1>v, <1>5, <1>6, <1>8 DEF SearchTypeOK
<1>12. YearInv'
  <2>1. Year(u) \in Int
    BY <1>8, YearsAre
  <2>2. Year(u) <= LastYear + 1
    BY <1>4, <1>7, <1>8, <2>1
  <2>3. TimeAdd(t0, 1)' = u
    BY <1>u, <1>v
  <2>4. Before(t0, t)'
    BY <1>v, <1>5, <1>9
  <2>5. searchPc' \notin Stages
    BY <1>5 DEF Stages
  <2>6. (TimeAdd(t0, 1) \in Times)' /\ (Year(TimeAdd(t0, 1)) <= LastYear + 1)'
    BY <1>8, <2>2, <2>3
  <2> QED BY <2>4, <2>5, <2>6 DEF YearInv
<1>13. StageInv' /\ ClearedInv'
  BY <1>5 DEF StageInv, ClearedInv
<1>14. PassedInv'
  BY <1>v, <1>5, <1>10 DEF PassedInv
<1> QED BY <1>11, <1>12, <1>13, <1>14 DEF CronIInv

\* From the label retry the search goes on where it is, or gives up.
LEMMA RetryStep ==
    ASSUME CronIInv, Retry
    PROVE  CronIInv'
<1> DEFINE u == TimeAdd(t0, 1)
<1>1. /\ t' = t /\ t0' = t0 /\ expr' = expr /\ initFlag' = initFlag
      /\ searchPc = "retry" /\ searchPc' = IF Year(t) > Year(u) + 1 THEN "zero" ELSE "month"
  BY DEF Retry
<1>2. /\ t \in Times /\ t0 \in Times /\ u \in Times /\ Year(u) <= LastYear + 1 /\ Before(t0, t)
  BY <1>1 DEF CronIInv, SearchTypeOK, YearInv
<1>3. Year(t) \in Int /\ Year(u) \in Int /\ LastYear \in Nat
  <2> HIDE DEF u
  <2> QED BY <1>2, YearsAre
<1>4. SearchTypeOK'
  BY <1>1, <1>2 DEF CronIInv, SearchTypeOK, Stages
<1>5. YearInv'
  <2>1. searchPc' \in Stages => Year(t) <= LastYear + 2
    BY <1>1, <1>2, <1>3 DEF Stages
  <2>2. Before(t0, t)' /\ TimeAdd(t0, 1)' = u
    BY <1>1, <1>2
  <2> QED BY <1>1, <1>2, <2>1, <2>2 DEF YearInv
<1>6. StageInv'
  BY <1>1 DEF StageInv
<1>7. ClearedInv'
  BY <1>1 DEF CronIInv, ClearedInv, Cleared, MatchDay
<1>8. PassedInv'
  BY <1>1 DEF CronIInv, PassedInv, Matches, MatchDay
<1> QED BY <1>4, <1>5, <1>6, <1>7, <1>8 DEF CronIInv

\* A loop that searches on from t to u keeps the invariant when nothing between
\* matches, everything below a field of u that does not match is at its
\* beginning, and the fields above stay until the loop wraps around.
LEMMA SearchOn ==
    ASSUME CronIInv, NEW u \in Times, searchPc \in Stages,
           t' = u, initFlag' = TRUE, expr' = expr, t0' = t0,
           Before(t, u), NoMatch(t, u), Cleared(u),
           \/ searchPc' = "retry"
           \/ /\ searchPc' = searchPc /\ Year(u) = Year(t)
              /\ searchPc # "month" => Month(u) = Month(t)
              /\ searchPc \in {"hour", "minute", "second"} => u.day = t.day
              /\ searchPc \in {"minute", "second"} => Hour(u) = Hour(t)
              /\ searchPc = "second" => Minute(u) = Minute(t)
    PROVE  CronIInv'
<1>1. t \in Times /\ t0 \in Times /\ searchPc # "idle"
  BY DEF CronIInv, SearchTypeOK, Stages
<1>2. \A x \in Times : x.day \in Int /\ x.sod \in Int
  BY Fields
<1>3. /\ Before(t0, t) /\ TimeAdd(t0, 1) \in Times /\ Year(TimeAdd(t0, 1)) <= LastYear + 1
      /\ Year(t) <= LastYear + 2
  BY <1>1 DEF CronIInv, YearInv
<1>4. Before(t0, u)
  BY <1>1, <1>2, <1>3 DEF Before
<1>5. SearchTypeOK'
  BY <1>1 DEF CronIInv, SearchTypeOK, Stages
<1>6. YearInv'
  <2>1. searchPc' \in Stages => Year(u) <= LastYear + 2
    BY <1>3 DEF Stages
  <2>2. (TimeAdd(t0, 1) \in Times)' /\ (Year(TimeAdd(t0, 1)) <= LastYear + 1)'
    BY <1>3
  <2> QED BY <1>4, <2>1, <2>2 DEF YearInv
<1>7. StageInv'
  <2>1. CASE searchPc' = "retry"
    BY <2>1 DEF StageInv
  <2>2. CASE searchPc' = searchPc
    <3>1. searchPc' \notin {"found", "retry"} /\ searchPc \in Stages
      BY <2>2 DEF Stages
    <3>2. searchPc' \in {"day", "hour", "minute", "second", "found"} => Month(u) \in expr.month
      BY <2>2, <3>1 DEF CronIInv, StageInv
    <3>3. searchPc' \in {"hour", "minute", "second", "found"} => MatchDay(u)
      <4>1. u.day = t.day => (MatchDay(u) <=> MatchDay(t))
        BY DEF MatchDay, Weekday, Day
      <4> QED BY <2>2, <3>1, <4>1 DEF CronIInv, StageInv
    <3>4. searchPc' \in {"minute", "second", "found"} => Hour(u) \in expr.hour
      BY <2>2, <3>1 DEF CronIInv, StageInv
    <3>5. searchPc' \in {"second", "found"} => Minute(u) \in expr.min
      BY <2>2, <3>1 DEF CronIInv, StageInv
    <3>6. MatchDay(t)' <=> MatchDay(u)
      BY DEF MatchDay
    <3> QED BY <3>1, <3>2, <3>3, <3>4, <3>5, <3>6 DEF StageInv
  <2> QED BY <2>1, <2>2
<1>8. ClearedInv'
  BY DEF ClearedInv, Cleared, MatchDay
<1>9. PassedInv'
  <2>1. ASSUME NEW x \in Times, Before(t0, x), Before(x, u) PROVE ~Matches(x)
    <3>1. CASE Before(x, t)
      BY <2>1, <3>1 DEF CronIInv, PassedInv
    <3>2. CASE ~Before(x, t)
      BY <2>1, <3>2 DEF NoMatch
    <3> QED BY <3>1, <3>2
  <2>2. \A x \in Times : Matches(x)' <=> Matches(x)
    BY DEF Matches, MatchDay
  <2> QED BY <2>1, <2>2 DEF PassedInv
<1> QED BY <1>5, <1>6, <1>7, <1>8, <1>9 DEF CronIInv

\* A loop that is left because its field matches keeps the invariant.
LEMMA SearchLeaves ==
    ASSUME CronIInv, searchPc \in Stages, t' = t, initFlag' = initFlag, expr' = expr, t0' = t0,
           \/ searchPc = "month" /\ searchPc' = "day" /\ Month(t) \in expr.month
           \/ searchPc = "day" /\ searchPc' = "hour" /\ MatchDay(t)
           \/ searchPc = "hour" /\ searchPc' = "minute" /\ Hour(t) \in expr.hour
           \/ searchPc = "minute" /\ searchPc' = "second" /\ Minute(t) \in expr.min
           \/ searchPc = "second" /\ searchPc' = "found" /\ Second(t) \in expr.sec
    PROVE  CronIInv'
<1>1. SearchTypeOK'
  BY DEF CronIInv, SearchTypeOK, Stages
<1>2. YearInv'
  <2>1. searchPc # "idle" /\ searchPc' # "idle"
    OBVIOUS
  <2>2. /\ Before(t0, t) /\ TimeAdd(t0, 1) \in Times /\ Year(TimeAdd(t0, 1)) <= LastYear + 1
        /\ Year(t) <= LastYear + 2
    BY <2>1 DEF CronIInv, YearInv
  <2> QED BY <2>2 DEF YearInv
<1>3. StageInv'
  <2>1. MatchDay(t)' <=> MatchDay(t)
    BY DEF MatchDay
  <2>2. StageInv
    BY DEF CronIInv
  <2> QED BY <2>1, <2>2 DEF StageInv
<1>4. ClearedInv'
  BY DEF CronIInv, ClearedInv, Cleared, MatchDay
<1>5. PassedInv'
  BY DEF CronIInv, PassedInv, Matches, MatchDay
<1> QED BY <1>1, <1>2, <1>3, <1>4, <1>5 DEF CronIInv

\* What holds in a loop.
LEMMA InLoop ==
    ASSUME CronIInv, searchPc \in Stages
    PROVE  /\ t \in Times /\ Year(t) <= LastYear + 2 /\ (initFlag => Cleared(t)) /\ StageInv
           /\ initFlag \in BOOLEAN
BY DEF CronIInv, SearchTypeOK, YearInv, ClearedInv, Stages

\* The loop of the month searches on from the first of the following month.
LEMMA MonthStep ==
    ASSUME CronIInv, MonthLoop
    PROVE  CronIInv'
<1> DEFINE y == Year(t)
           m == Month(t)
           z == Zeroed(Midnight(y, m, 1))
           v == FollowingYear(y, m)
           k == FollowingMonth(m)
           a == DayNo[<<y, m, 1>>]
           b == DayNo[<<v, k, 1>>]
           u == AddMonth(z)
<1>1. /\ searchPc = "month" /\ expr' = expr /\ t0' = t0
      /\ \/ m \in expr.month /\ searchPc' = "day" /\ t' = t /\ initFlag' = initFlag
         \/ /\ m \notin expr.month /\ t' = u /\ initFlag' = TRUE
            /\ searchPc' = IF Month(u) = 1 THEN "retry" ELSE "month"
  BY DEF MonthLoop, Loop
<1>2. searchPc \in Stages
  BY <1>1 DEF Stages
<1>3. CASE m \in expr.month /\ searchPc' = "day" /\ t' = t /\ initFlag' = initFlag
  BY <1>1, <1>2, <1>3, SearchLeaves
<1>4. CASE /\ m \notin expr.month /\ t' = u /\ initFlag' = TRUE
           /\ searchPc' = IF Month(u) = 1 THEN "retry" ELSE "month"
  <2>1. t \in Times /\ y <= LastYear + 2 /\ (initFlag => Cleared(t)) /\ initFlag \in BOOLEAN
    BY <1>2, InLoop
  <2>2. y \in Years /\ m \in Months /\ t.day \in 0..LastNo /\ DayNo[<<y, m, Day(t)>>] = t.day
    BY <2>1, YearsAre, Fields
  <2>3. /\ v \in Years /\ k \in Months /\ (k # 1 => v = y)
        /\ \A n \in 0..LastNo :
              a <= n /\ n < b <=> DateOf[n][1] = y /\ DateOf[n][2] = m
    <3> HIDE DEF y, m
    <3> QED BY <2>1, <2>2, DaysOfMonth
  <2>4. DateOf[t.day][1] = y /\ DateOf[t.day][2] = m
    BY DEF Year, Month
  <2>5. a <= t.day /\ t.day < b
    BY <2>2, <2>3, <2>4
  <2>6. a \in 0..LastNo /\ DateOf[a] = <<y, m, 1>> /\ b \in 0..LastNo /\ DateOf[b] = <<v, k, 1>>
    <3> HIDE DEF y, m, v, k
    <3> QED BY <2>2, <2>3, FirstOfMonth
  <2>7. z.day = a /\ z.sod = 0
    <3>1. CASE initFlag
      <4>1. Day(t) = 1 /\ t.sod = 0
        BY <1>4, <2>1, <3>1 DEF Cleared
      <4> QED BY <2>2, <3>1, <4>1 DEF Zeroed
    <3>2. CASE ~initFlag
      BY <3>2 DEF Zeroed, Midnight
    <3> QED BY <3>1, <3>2
  <2> HIDE DEF z, y, m
  <2>8. u = [day |-> b, sod |-> 0]
    <3>1. Year(z) = y /\ Month(z) = m /\ Day(z) = 1
      BY <2>6, <2>7 DEF Year, Month, Day
    <3> QED BY <2>7, <3>1 DEF AddMonth, FollowingYear, FollowingMonth
  <2> HIDE DEF u, v, k, a
  <2>9. u \in Times /\ u.day = b /\ u.sod = 0
    <3>1. 0 \in 0..(DayLen - 1)
      BY Units
    <3> HIDE DEF b
    <3> QED BY <2>6, <2>8, <3>1 DEF Times
  <2>10. Year(u) = v /\ Month(u) = k /\ Day(u) = 1
    BY <2>6, <2>9 DEF Year, Month, Day
  <2> HIDE DEF b
  <2>11. Before(t, u)
    BY <2>5, <2>9 DEF Before
  <2>12. NoMatch(t, u)
    <3> SUFFICES ASSUME NEW x \in Times, ~Before(x, t), Before(x, u) PROVE ~Matches(x)
      BY DEF NoMatch
    <3>1. x.day \in 0..LastNo /\ x.sod \in Nat
      BY Fields
    <3>2. x.day < b /\ t.day <= x.day
      BY <2>2, <2>6, <2>9, <3>1 DEF Before
    <3>3. a <= x.day
      BY <2>2, <2>5, <2>6, <3>1, <3>2
    <3>4. Month(x) = m
      BY <2>3, <3>1, <3>2, <3>3 DEF Month
    <3> QED BY <1>4, <3>4 DEF Matches, m
  <2>13. Cleared(u)
    <3>1. 0 % HourLen = 0 /\ 0 % Secs = 0
      BY Units
    <3> QED BY <2>9, <2>10, <3>1 DEF Cleared
  <2>14. \/ searchPc' = "retry"
         \/ searchPc' = searchPc /\ Year(u) = Year(t)
    BY <1>1, <1>4, <2>3, <2>10 DEF y
  <2>15. searchPc \notin {"hour", "minute", "second"}
    BY <1>1
  <2>16. t' = u /\ initFlag' = TRUE
    BY <1>4
  <2> QED BY <1>1, <1>2, <2>9, <2>11, <2>12, <2>13, <2>14, <2>15, <2>16, SearchOn
<1> QED BY <1>1, <1>3, <1>4

\* The day that follows one of a month that matches is in that month, or the
\* first of the next.
LEMMA NextDate ==
    ASSUME NEW s \in Times, NEW u \in Times, Month(s) \in expr.month,
           u.day = s.day \/ (u.day = s.day + 1 /\ u.sod = 0)
    PROVE  /\ Month(u) \notin expr.month => Day(u) = 1 /\ u.sod = 0
           /\ Day(u) # 1 => Year(u) = Year(s) /\ Month(u) = Month(s)
           /\ u.day = s.day => Year(u) = Year(s) /\ Month(u) = Month(s)
<1>1. u.day = s.day => Year(u) = Year(s) /\ Month(u) = Month(s)
  BY DEF Year, Month
<1>2. ASSUME u.day = s.day + 1
      PROVE  Day(u) = 1 \/ (Year(u) = Year(s) /\ Month(u) = Month(s))
  <2>1. s.day \in 0..LastNo /\ s.day + 1 \in 0..LastNo
    BY <1>2, Fields
  <2> DEFINE n == s.day
  <2>2. n \in 0..LastNo /\ n + 1 \in 0..LastNo
    BY <2>1
  <2> HIDE DEF n
  <2>3. \/ DateOf[n + 1][3] = 1
        \/ DateOf[n + 1][1] = DateOf[n][1] /\ DateOf[n + 1][2] = DateOf[n][2]
    BY <2>2, NextDay
  <2> QED BY <1>2, <2>3 DEF n, Year, Month, Day
<1> QED BY <1>1, <1>2

\* The loop of the day searches on from the next midnight.
LEMMA DayStep ==
    ASSUME CronIInv, DayLoop
    PROVE  CronIInv'
<1> DEFINE z == Zeroed(Midnight(Year(t), Month(t), Day(t)))
           u == TimeAdd(z, DayLen)
<1>1. /\ searchPc = "day" /\ expr' = expr /\ t0' = t0
      /\ \/ MatchDay(t) /\ searchPc' = "hour" /\ t' = t /\ initFlag' = initFlag
         \/ /\ ~MatchDay(t) /\ t' = u /\ initFlag' = TRUE
            /\ searchPc' = IF Day(u) = 1 THEN "retry" ELSE "day"
  BY DEF DayLoop, Loop
<1>2. searchPc \in Stages
  BY <1>1 DEF Stages
<1>3. CASE MatchDay(t) /\ searchPc' = "hour" /\ t' = t /\ initFlag' = initFlag
  BY <1>1, <1>2, <1>3, SearchLeaves
<1>4. CASE /\ ~MatchDay(t) /\ t' = u /\ initFlag' = TRUE
           /\ searchPc' = IF Day(u) = 1 THEN "retry" ELSE "day"
  <2>1. /\ t \in Times /\ Year(t) <= LastYear + 2 /\ (initFlag => Cleared(t))
        /\ initFlag \in BOOLEAN /\ Month(t) \in expr.month
    BY <1>1, <1>2, InLoop DEF StageInv
  <2>2. z = [day |-> t.day, sod |-> 0]
    <3>1. CASE initFlag
      <4>1. t.sod = 0
        BY <1>4, <2>1, <3>1 DEF Cleared
      <4> QED BY <2>1, <3>1, <4>1 DEF Zeroed, Times
    <3>2. CASE ~initFlag
      <4>1. DayNo[<<Year(t), Month(t), Day(t)>>] = t.day
        BY <2>1, YearsAre
      <4> QED BY <3>2, <4>1 DEF Zeroed, Midnight
    <3> QED BY <3>1, <3>2
  <2>3. NextUnit(DayLen, t, u)
    <3>1. DayLen \in Nat \ {0} /\ 1 \in Nat \ {0} /\ DayLen = DayLen * 1
      BY Units
    <3>2. NextUnit(DayLen, t, TimeAdd([day |-> t.day, sod |-> (t.sod \div DayLen) * DayLen], DayLen))
      BY <2>1, <3>1, AddUnit
    <3>3. t.sod \div DayLen = 0 /\ 0 * DayLen = 0
      BY <2>1, <3>1, Fields
    <3> QED BY <2>2, <3>2, <3>3
  <2> HIDE DEF z, u
  <2>4. u \in Times /\ Before(t, u)
    BY <2>1, <2>3, InCalendar DEF NextUnit
  <2>5. u.day = t.day + 1 /\ u.sod = 0
    <3>1. u.sod \div DayLen = 0 /\ t.sod \div DayLen = 0
      BY <2>1, <2>4, Fields
    <3> QED BY <2>3, <3>1 DEF NextUnit
  <2>6. /\ Month(u) \notin expr.month => Day(u) = 1
        /\ Day(u) # 1 => Year(u) = Year(t) /\ Month(u) = Month(t)
    BY <2>1, <2>4, <2>5, NextDate
  <2>7. NoMatch(t, u)
    <3> SUFFICES ASSUME NEW x \in Times, ~Before(x, t), Before(x, u) PROVE ~Matches(x)
      BY DEF NoMatch
    <3>1. x.day = t.day
      BY <2>3 DEF NextUnit
    <3>2. MatchDay(x) <=> MatchDay(t)
      BY <3>1 DEF MatchDay, Weekday, Day
    <3> QED BY <1>4, <3>2 DEF Matches
  <2>8. Cleared(u)
    <3>1. 0 % HourLen = 0 /\ 0 % Secs = 0
      BY Units
    <3> QED BY <2>5, <2>6, <3>1 DEF Cleared
  <2>9. \/ searchPc' = "retry"
        \/ searchPc' = searchPc /\ Year(u) = Year(t) /\ Month(u) = Month(t)
    BY <1>1, <1>4, <2>6
  <2>10. searchPc \notin {"hour", "minute", "second"}
    BY <1>1
  <2>11. t' = u /\ initFlag' = TRUE
    BY <1>4
  <2> QED BY <1>1, <1>2, <2>4, <2>7, <2>8, <2>9, <2>10, <2>11, SearchOn
<1> QED BY <1>1, <1>3, <1>4

\* The unit that a time is in begins at the time itself or where Truncate goes.
LEMMA UnitBegins ==
    ASSUME NEW s \in Times, NEW l \in Nat \ {0}, NEW k \in Nat \ {0}, DayLen = l * k,
           NEW j \in Int, Offset = j * l
    PROVE  /\ Truncate(s, l) = [day |-> s.day, sod |-> (s.sod \div l) * l]
           /\ s.sod % l = 0 => s = [day |-> s.day, sod |-> (s.sod \div l) * l]
<1>1. Truncate(s, l) = [day |-> s.day, sod |-> (s.sod \div l) * l]
  BY TruncateIs
<1>2. ASSUME s.sod % l = 0 PROVE s.sod = (s.sod \div l) * l
  <2>1. s.sod \in Nat
    BY Fields
  <2>2. s.sod = (s.sod \div l) * l + (s.sod % l) /\ s.sod \div l \in Nat
    BY <2>1, DivMod
  <2> DEFINE p == (s.sod \div l) * l
  <2>3. s.sod = p + 0 /\ p \in Int
    BY <1>2, <2>2
  <2> HIDE DEF p
  <2>4. s.sod = p
    BY <2>3
  <2> QED BY <2>4 DEF p
<1> QED BY <1>1, <1>2 DEF Times

\* Where the offset of the location is a number of hours, it is one of minutes.
LEMMA WholeUnits ==
    ASSUME Offset % HourLen = 0
    PROVE  (\E j \in Int : Offset = j * HourLen) /\ (\E j \in Int : Offset = j * Secs)
<1> DEFINE q == Offset \div HourLen
<1>1. Offset \in Int /\ HourLen \in Nat \ {0} /\ Secs \in Nat \ {0} /\ Mins \in Nat \ {0}
  BY Units, CronAssumption
<1>2. q \in Int /\ Offset = q * HourLen
  <2>1. \A n, m \in Int : m > 0 => n = m * (n \div m) + (n % m) /\ n \div m \in Int
    OBVIOUS
  <2>2. Offset = HourLen * q + 0 /\ q \in Int
    BY <1>1, <2>1
  <2> HIDE DEF q
  <2> QED BY <1>1, <2>2
<1> HIDE DEF q
<1>3. Offset = (q * Mins) * Secs /\ q * Mins \in Int
  <2>1. \A x, y, v \in Int : x * (y * v) = (x * v) * y
    OBVIOUS
  <2>2. q * (Secs * Mins) = (q * Mins) * Secs
    BY <1>1, <1>2, <2>1
  <2>3. q * HourLen = q * (Secs * Mins)
    BY Units
  <2> QED BY <1>1, <1>2, <2>2, <2>3
<1> QED BY <1>2, <1>3

\* From an hour, a minute or a second on: what a step by one of these units keeps
\* of the date.
LEMMA ClockOn ==
    ASSUME CronIInv, searchPc \in {"hour", "minute", "second"}, NEW l, NEW u, NextUnit(l, t, u)
    PROVE  /\ u \in Times /\ t \in Times /\ Before(t, u)
           /\ Month(u) \notin expr.month => Day(u) = 1 /\ u.sod = 0
           /\ ~MatchDay(u) => u.sod = 0
           /\ u.day = t.day => Year(u) = Year(t) /\ Month(u) = Month(t)
<1>1. /\ t \in Times /\ Year(t) <= LastYear + 2 /\ Month(t) \in expr.month /\ MatchDay(t)
  BY InLoop DEF StageInv, Stages
<1>2. /\ u \in Times /\ Before(t, u)
      /\ u.day = t.day \/ (u.day = t.day + 1 /\ u.sod = 0)
  BY <1>1, InCalendar DEF NextUnit
<1>3. u.day = t.day => (MatchDay(u) <=> MatchDay(t))
  BY DEF MatchDay, Weekday, Day
<1> QED BY <1>1, <1>2, <1>3, NextDate

\* The loop of the hour searches on from the next whole hour; Truncate finds it
\* where the offset of the location is a number of hours.
LEMMA HourStep ==
    ASSUME Offset % HourLen = 0, CronIInv, HourLoop
    PROVE  CronIInv'
<1> DEFINE z == Zeroed(Truncate(t, HourLen))
           u == TimeAdd(z, HourLen)
<1>1. /\ searchPc = "hour" /\ expr' = expr /\ t0' = t0
      /\ \/ Hour(t) \in expr.hour /\ searchPc' = "minute" /\ t' = t /\ initFlag' = initFlag
         \/ /\ Hour(t) \notin expr.hour /\ t' = u /\ initFlag' = TRUE
            /\ searchPc' = IF Hour(u) = 0 THEN "retry" ELSE "hour"
  BY DEF HourLoop, Loop
<1>2. searchPc \in Stages
  BY <1>1 DEF Stages
<1>3. CASE Hour(t) \in expr.hour /\ searchPc' = "minute" /\ t' = t /\ initFlag' = initFlag
  BY <1>1, <1>2, <1>3, SearchLeaves
<1>4. CASE /\ Hour(t) \notin expr.hour /\ t' = u /\ initFlag' = TRUE
           /\ searchPc' = IF Hour(u) = 0 THEN "retry" ELSE "hour"
  <2>1. t \in Times /\ (initFlag => Cleared(t)) /\ initFlag \in BOOLEAN
    BY <1>2, InLoop
  <2>2. z = [day |-> t.day, sod |-> (t.sod \div HourLen) * HourLen]
    <3>1. PICK j \in Int : Offset = j * HourLen
      BY WholeUnits
    <3>2. HourLen \in Nat \ {0} /\ Hours \in Nat \ {0} /\ DayLen = HourLen * Hours
      BY Units
    <3>3. /\ Truncate(t, HourLen) = [day |-> t.day, sod |-> (t.sod \div HourLen) * HourLen]
          /\ t.sod % HourLen = 0 => t = [day |-> t.day, sod |-> (t.sod \div HourLen) * HourLen]
      BY <2>1, <3>1, <3>2, UnitBegins
    <3>4. initFlag => t.sod % HourLen = 0
      BY <1>4, <2>1 DEF Cleared
    <3> QED BY <3>3, <3>4 DEF Zeroed
  <2>3. NextUnit(HourLen, t, u)
    <3>1. HourLen \in Nat \ {0} /\ Hours \in Nat \ {0} /\ DayLen = HourLen * Hours
      BY Units
    <3> QED BY <2>1, <2>2, <3>1, AddUnit
  <2> HIDE DEF z, u
  <2>4. /\ u \in Times /\ Before(t, u)
        /\ Month(u) \notin expr.month => Day(u) = 1 /\ u.sod = 0
        /\ ~MatchDay(u) => u.sod = 0
        /\ u.day = t.day => Year(u) = Year(t) /\ Month(u) = Month(t)
    BY <1>1, <2>3, ClockOn
  <2>5. (u.day = t.day \/ u.sod = 0) /\ u.sod % HourLen = 0
    BY <2>1, <2>3, <2>4, Keeps
  <2>6. NoMatch(t, u)
    <3> SUFFICES ASSUME NEW x \in Times, ~Before(x, t), Before(x, u) PROVE ~Matches(x)
      BY DEF NoMatch
    <3>1. x.sod \div HourLen = t.sod \div HourLen
      BY <2>3 DEF NextUnit
    <3>2. Hour(x) = Hour(t)
      BY <3>1 DEF Hour
    <3> QED BY <1>4, <3>2 DEF Matches
  <2>7. Cleared(u)
    <3>1. u.sod % Secs = 0
      BY <2>4, <2>5, Fields
    <3> QED BY <2>4, <2>5, <3>1 DEF Cleared
  <2>8. \/ searchPc' = "retry"
        \/ searchPc' = searchPc /\ Year(u) = Year(t) /\ Month(u) = Month(t) /\ u.day = t.day
    <3>1. u.sod = 0 => Hour(u) = 0
      BY <2>4, Fields
    <3> QED BY <1>1, <1>4, <2>4, <2>5, <3>1
  <2>9. searchPc \notin {"minute", "second"}
    BY <1>1
  <2>10. t' = u /\ initFlag' = TRUE
    BY <1>4
  <2> QED BY <1>1, <1>2, <2>4, <2>6, <2>7, <2>8, <2>9, <2>10, SearchOn
<1> QED BY <1>1, <1>3, <1>4

\* The loop of the minute searches on from the next whole minute.
LEMMA MinuteStep ==
    ASSUME Offset % HourLen = 0, CronIInv, MinuteLoop
    PROVE  CronIInv'
<1> DEFINE z == Zeroed(Truncate(t, Secs))
           u == TimeAdd(z, Secs)
<1>1. /\ searchPc = "minute" /\ expr' = expr /\ t0' = t0
      /\ \/ Minute(t) \in expr.min /\ searchPc' = "second" /\ t' = t /\ initFlag' = initFlag
         \/ /\ Minute(t) \notin expr.min /\ t' = u /\ initFlag' = TRUE
            /\ searchPc' = IF Minute(u) = 0 THEN "retry" ELSE "minute"
  BY DEF MinuteLoop, Loop
<1>2. searchPc \in Stages
  BY <1>1 DEF Stages
<1>3. CASE Minute(t) \in expr.min /\ searchPc' = "second" /\ t' = t /\ initFlag' = initFlag
  BY <1>1, <1>2, <1>3, SearchLeaves
<1>4. CASE /\ Minute(t) \notin expr.min /\ t' = u /\ initFlag' = TRUE
           /\ searchPc' = IF Minute(u) = 0 THEN "retry" ELSE "minute"
  <2>1. t \in Times /\ (initFlag => Cleared(t)) /\ initFlag \in BOOLEAN /\ Hour(t) \in expr.hour
    BY <1>1, <1>2, InLoop DEF StageInv
  <2>2. z = [day |-> t.day, sod |-> (t.sod \div Secs) * Secs]
    <3>1. PICK j \in Int : Offset = j * Secs
      BY WholeUnits
    <3>2. Secs \in Nat \ {0} /\ Mins * Hours \in Nat \ {0} /\ DayLen = Secs * (Mins * Hours)
      BY Units
    <3> DEFINE k == Mins * Hours
    <3>3. k \in Nat \ {0} /\ DayLen = Secs * k
      BY <3>2
    <3> HIDE DEF k
    <3>4. /\ Truncate(t, Secs) = [day |-> t.day, sod |-> (t.sod \div Secs) * Secs]
          /\ t.sod % Secs = 0 => t = [day |-> t.day, sod |-> (t.sod \div Secs) * Secs]
      BY <2>1, <3>1, <3>2, <3>3, UnitBegins
    <3>5. initFlag => t.sod % Secs = 0
      BY <1>4, <2>1 DEF Cleared
    <3> QED BY <3>4, <3>5 DEF Zeroed
  <2>3. NextUnit(Secs, t, u)
    <3> DEFINE k == Mins * Hours
    <3>1. Secs \in Nat \ {0} /\ k \in Nat \ {0} /\ DayLen = Secs * k
      BY Units
    <3> HIDE DEF k
    <3> QED BY <2>1, <2>2, <3>1, AddUnit
  <2> HIDE DEF z, u
  <2>4. /\ u \in Times /\ Before(t, u)
        /\ Month(u) \notin expr.month => Day(u) = 1 /\ u.sod = 0
        /\ ~MatchDay(u) => u.sod = 0
        /\ u.day = t.day => Year(u) = Year(t) /\ Month(u) = Month(t)
    BY <1>1, <2>3, ClockOn
  <2>5. /\ (u.day = t.day /\ Hour(u) = Hour(t)) \/ u.sod % HourLen = 0
        /\ u.day = t.day \/ u.sod = 0
        /\ u.sod % Secs = 0
    BY <2>1, <2>3, <2>4, Keeps
  <2>6. NoMatch(t, u)
    <3> SUFFICES ASSUME NEW x \in Times, ~Before(x, t), Before(x, u) PROVE ~Matches(x)
      BY DEF NoMatch
    <3>1. x.sod \div Secs = t.sod \div Secs
      BY <2>3 DEF NextUnit
    <3>2. Minute(x) = Minute(t)
      BY <2>1, <3>1, Fields
    <3> QED BY <1>4, <3>2 DEF Matches
  <2>7. Cleared(u)
    BY <2>1, <2>4, <2>5 DEF Cleared
  <2>8. \/ searchPc' = "retry"
        \/ /\ searchPc' = searchPc /\ Year(u) = Year(t) /\ Month(u) = Month(t) /\ u.day = t.day
           /\ Hour(u) = Hour(t)
    <3>1. u.sod % HourLen = 0 => Minute(u) = 0
      BY <2>4, Fields
    <3> QED BY <1>1, <1>4, <2>4, <2>5, <3>1
  <2>9. searchPc # "second"
    BY <1>1
  <2>10. t' = u /\ initFlag' = TRUE
    BY <1>4
  <2> QED BY <1>1, <1>2, <2>4, <2>6, <2>7, <2>8, <2>9, <2>10, SearchOn
<1> QED BY <1>1, <1>3, <1>4

\* The loop of the second searches on from the next second.
LEMMA SecondStep ==
    ASSUME CronIInv, SecondLoop
    PROVE  CronIInv'
<1> DEFINE u == TimeAdd(t, 1)
<1>1. /\ searchPc = "second" /\ expr' = expr /\ t0' = t0
      /\ \/ Second(t) \in expr.sec /\ searchPc' = "found" /\ t' = t /\ initFlag' = initFlag
         \/ /\ Second(t) \notin expr.sec /\ t' = u /\ initFlag' = TRUE
            /\ searchPc' = IF Second(u) = 0 THEN "retry" ELSE "second"
  BY DEF SecondLoop, Loop
<1>2. searchPc \in Stages
  BY <1>1 DEF Stages
<1>3. CASE Second(t) \in expr.sec /\ searchPc' = "found" /\ t' = t /\ initFlag' = initFlag
  BY <1>1, <1>2, <1>3, SearchLeaves
<1>4. CASE /\ Second(t) \notin expr.sec /\ t' = u /\ initFlag' = TRUE
           /\ searchPc' = IF Second(u) = 0 THEN "retry" ELSE "second"
  <2>1. t \in Times /\ Hour(t) \in expr.hour /\ Minute(t) \in expr.min
    BY <1>1, <1>2, InLoop DEF StageInv
  <2>2. NextUnit(1, t, u)
    BY <2>1, AddSecond
  <2> HIDE DEF u
  <2>3. /\ u \in Times /\ Before(t, u)
        /\ Month(u) \notin expr.month => Day(u) = 1 /\ u.sod = 0
        /\ ~MatchDay(u) => u.sod = 0
        /\ u.day = t.day => Year(u) = Year(t) /\ Month(u) = Month(t)
    BY <1>1, <2>2, ClockOn
  <2>4. /\ (u.day = t.day /\ Hour(u) = Hour(t)) \/ u.sod % HourLen = 0
        /\ \/ u.day = t.day /\ Hour(u) = Hour(t) /\ Minute(u) = Minute(t)
           \/ u.sod % Secs = 0
        /\ u.day = t.day \/ u.sod = 0
    BY <2>1, <2>2, <2>3, Keeps
  <2>5. NoMatch(t, u)
    <3> SUFFICES ASSUME NEW x \in Times, ~Before(x, t), Before(x, u) PROVE ~Matches(x)
      BY DEF NoMatch
    <3>1. x.sod \div 1 = t.sod \div 1 /\ x.sod \in Nat /\ t.sod \in Nat
      BY <2>1, <2>2, Fields DEF NextUnit
    <3>2. x.sod = t.sod
      BY <3>1
    <3>3. Second(x) = Second(t)
      BY <3>2 DEF Second
    <3> QED BY <1>4, <3>3 DEF Matches
  <2>6. Cleared(u)
    BY <2>1, <2>3, <2>4 DEF Cleared
  <2>7. \/ searchPc' = "retry"
        \/ /\ searchPc' = searchPc /\ Year(u) = Year(t) /\ Month(u) = Month(t) /\ u.day = t.day
           /\ Hour(u) = Hour(t) /\ Minute(u) = Minute(t)
    BY <1>1, <1>4, <2>3, <2>4 DEF Second
  <2>8. t' = u /\ initFlag' = TRUE
    BY <1>4
  <2> QED BY <1>1, <1>2, <2>3, <2>5, <2>6, <2>7, <2>8, SearchOn
<1> QED BY <1>1, <1>3, <1>4

\* Every step keeps the invariant.
LEMMA SearchNextInv ==
    ASSUME Offset % HourLen = 0, CronIInv, [CronNext]_cronVars
    PROVE  CronIInv'
<1>1. ASSUME UNCHANGED cronVars PROVE CronIInv'
  BY <1>1 DEF cronVars, CronIInv, SearchTypeOK, YearInv, StageInv, ClearedInv, Cleared,
              PassedInv, Matches, MatchDay
<1> QED BY <1>1, CallStep, RetryStep, MonthStep, DayStep, HourStep, MinuteStep, SecondStep
        DEF CronNext, Search

\* The invariant says that no match was passed and a found time is one.
LEMMA SearchHolds == CronIInv => SearchInv
<1> SUFFICES ASSUME CronIInv PROVE SearchInv
  OBVIOUS
<1>1. t \in Times /\ t0 \in Times
  BY DEF CronIInv, SearchTypeOK
<1>2. CronTypeOK
  <2>1. t.day \in DOMAIN DateOf /\ t.sod \in 0..(DayLen - 1)
    BY <1>1, DaysNumbered DEF Times
  <2> QED BY <2>1 DEF CronIInv, SearchTypeOK, CronTypeOK, Stages
<1>3. NothingSkipped
  <2> SUFFICES ASSUME NEW n \in t0.day..t.day, NEW s \in 0..(DayLen - 1),
                      Before(t0, [day |-> n, sod |-> s]), Before([day |-> n, sod |-> s], t)
               PROVE  ~Matches([day |-> n, sod |-> s])
    BY DEF NothingSkipped
  <2>1. n \in 0..LastNo
    BY <1>1, Fields, DaysNumbered
  <2>2. [day |-> n, sod |-> s] \in Times
    BY <2>1 DEF Times
  <2> QED BY <2>2 DEF CronIInv, PassedInv
<1>4. FoundMatches
  <2>1. searchPc = "found" => Matches(t)
    BY DEF CronIInv, StageInv, Matches
  <2> QED BY <2>1 DEF FoundMatches, CronIInv, YearInv
<1> QED BY <1>2, <1>3, <1>4 DEF SearchInv

\* Next of a cron expression never steps over a match, and what it returns is a
\* match after its argument: for any calendar, lengths of the units, expressions
\* that NewCronExpr accepts and arguments, where the offset of the location from
\* UTC is a number of hours.  Truncate counts from the zero time of UTC; where it
\* is half an hour off, the hour loop starts at half past and does skip matches.
THEOREM SearchSafe == ASSUME Offset % HourLen = 0 PROVE CronSpec => []SearchInv
BY SearchInitInv, SearchNextInv, SearchHolds, PTL DEF CronSpec

=============================================================================
