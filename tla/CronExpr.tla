------------------------------ MODULE CronExpr -------------------------------
(***************************************************************************)
(* timer.CronExpr (util/timer/cronexpr.go): parseCronField and Next, the   *)
(* search for the next time an expression matches.  Every iteration of a   *)
(* loop of Next is a step.                                                 *)
(*                                                                         *)
(* The calendar is a parameter.  The code never uses how long a minute, an *)
(* hour, a day, a week or a month is: it asks package time (external) for  *)
(* fields of t and lets it add a unit.  A time is the number of a day and  *)
(* the second of that day, by the wall clock of the location.              *)
(***************************************************************************)
EXTENDS Integers, Sequences, FiniteSets

CONSTANTS Secs, Mins, Hours,  \* in a minute, an hour, a day
          WeekDays, MonthDays,\* days of a week, and of each month of a common year
          LeapYears,          \* years whose last month has one day more
          MaxDay,             \* the greatest day of month that a field may name
          Offset,             \* of the location from UTC, in seconds
          LastYear,           \* bound: the last year of an argument of Next
          SecFields, MinFields, HourFields, DomFields, MonthFields, DowFields

-----------------------------------------------------------------------------
(* Package time.                                                           *)

HourLen == Secs * Mins
DayLen == HourLen * Hours
Months == 1..Len(MonthDays)
DaysIn(y, m) == MonthDays[m] + (IF m = Len(MonthDays) /\ y \in LeapYears THEN 1 ELSE 0)

\* Next gives up at the start of the second year after that of the second
\* after its argument.
Years == 0..(LastYear + 3)

ASSUME CronAssumption ==
    /\ {Secs, Mins, Hours, WeekDays} \subseteq Nat \ {0}
    /\ MonthDays \in Seq(Nat \ {0}) /\ MonthDays # <<>> /\ LeapYears \subseteq Nat
    /\ MaxDay \in Nat /\ \A y \in Years, m \in Months : DaysIn(y, m) <= MaxDay
    /\ Offset \in Int /\ LastYear \in Nat

Dates == {a \in Years \X Months \X (1..MaxDay) : a[3] <= DaysIn(a[1], a[2])}

Earlier(a, b) ==
    \/ a[1] < b[1]
    \/ a[1] = b[1] /\ a[2] < b[2]
    \/ a[1] = b[1] /\ a[2] = b[2] /\ a[3] < b[3]

\* The number of a date, and the date with a number.
DayNo == [a \in Dates |-> Cardinality({b \in Dates : Earlier(b, a)})]
DateOf == [n \in 0..(Cardinality(Dates) - 1) |-> CHOOSE a \in Dates : DayNo[a] = n]

Year(t) == DateOf[t.day][1]
Month(t) == DateOf[t.day][2]
Day(t) == DateOf[t.day][3]
Weekday(t) == t.day % WeekDays
Hour(t) == t.sod \div HourLen
Minute(t) == (t.sod % HourLen) \div Secs
Second(t) == t.sod % Secs

\* t.Add, Truncate (which counts from the zero time of UTC) and AddDate.
TimeAdd(t, n) == [day |-> t.day + ((t.sod + n) \div DayLen), sod |-> (t.sod + n) % DayLen]
Truncate(t, unit) == TimeAdd(t, -((t.sod - Offset) % unit))
Midnight(y, m, d) == [day |-> DayNo[<<y, m, d>>], sod |-> 0]
AddMonth(t) ==
    LET m == (Month(t) % Len(MonthDays)) + 1
        y == IF m = 1 THEN Year(t) + 1 ELSE Year(t)
    IN  [day |-> DayNo[<<y, m, Day(t)>>], sod |-> t.sod]

Before(a, b) == a.day < b.day \/ (a.day = b.day /\ a.sod < b.sod)

-----------------------------------------------------------------------------
(* parseCronField.                                                         *)

(***************************************************************************)
(* One element of a comma-separated field: [lo, hi, incr], where lo is a   *)
(* number or Star and hi and incr are numbers or Absent.                   *)
(***************************************************************************)
Star == -1
Absent == -2
Bad == {-1}          \* the result of an element that is refused

ParseElement(f, min, max) ==
    LET start == IF f.lo = Star THEN min ELSE f.lo
        end == CASE f.lo = Star -> max
                 [] f.lo # Star /\ f.hi # Absent -> f.hi
                 [] f.lo # Star /\ f.hi = Absent -> IF f.incr # Absent THEN max ELSE start
        incr == IF f.incr = Absent THEN 1 ELSE f.incr
    IN  IF \/ f.lo = Star /\ f.hi # Absent
           \/ start > end \/ start < min \/ end > max \/ incr <= 0
        THEN Bad ELSE {i \in start..end : (i - start) % incr = 0}

\* The set of bits of a field, or Bad.
ParseCronField(field, min, max) ==
    LET parts == {ParseElement(f, min, max) : f \in field}
    IN  IF Bad \in parts THEN Bad ELSE UNION parts

-----------------------------------------------------------------------------
VARIABLES expr,      \* the CronExpr: sec, min, hour, dom, month, dow
          t0,        \* the argument of Next
          t,         \* the variable t of Next
          initFlag,
          searchPc         \* idle, retry, month, day, hour, minute, second, found, zero

cronVars == <<expr, t0, t, initFlag, searchPc>>

CronTypeOK ==
    /\ t.day \in DOMAIN DateOf /\ t.sod \in 0..(DayLen - 1)
    /\ initFlag \in BOOLEAN
    /\ searchPc \in {"idle", "retry", "month", "day", "hour", "minute", "second", "found", "zero"}

\* NewCronExpr: the six fields of an expression it accepts.
NewCronExpr ==
    {e \in [sec   : {ParseCronField(f, 0, Secs - 1) : f \in SecFields},
            min   : {ParseCronField(f, 0, Mins - 1) : f \in MinFields},
            hour  : {ParseCronField(f, 0, Hours - 1) : f \in HourFields},
            dom   : {ParseCronField(f, 1, MaxDay) : f \in DomFields},
            month : {ParseCronField(f, 1, Len(MonthDays)) : f \in MonthFields},
            dow   : {ParseCronField(f, 0, WeekDays - 1) : f \in DowFields}] :
        \A k \in DOMAIN e : e[k] # Bad}

\* Before the call.
CronInit ==
    /\ expr = [k \in {"sec", "min", "hour", "dom", "month", "dow"} |-> {}]
    /\ t0 = [day |-> 0, sod |-> 0] /\ t = t0
    /\ initFlag = FALSE /\ searchPc = "idle"

\* The times Next may be called with.
Arguments ==
    {[day |-> DayNo[a], sod |-> s] : a \in {b \in Dates : b[1] <= LastYear}, s \in 0..(DayLen - 1)}

\* Next is called for an expression with t0; it begins with the upcoming second.
CallNext ==
    /\ searchPc = "idle" /\ searchPc' = "retry"
    /\ expr' \in NewCronExpr /\ t0' \in Arguments
    /\ t' = TimeAdd(t0', 1) /\ UNCHANGED initFlag

\* A blank day field leaves the decision to the other; else one is enough.
MatchDay(u) ==
    CASE expr.dom = 1..MaxDay         -> Weekday(u) \in expr.dow
      [] expr.dom # 1..MaxDay
         /\ expr.dow = 0..(WeekDays - 1) -> Day(u) \in expr.dom
      [] OTHER -> Weekday(u) \in expr.dow \/ Day(u) \in expr.dom

\* t with the lower fields set to zero, the first time anywhere.
Zeroed(z) == IF initFlag THEN t ELSE z

\* A loop of Next: leave it when the field matches; else go on to u, and start
\* again when the field has wrapped around.
Loop(here, matches, next, u, wrapped) ==
    /\ searchPc = here
    /\ \/ matches /\ searchPc' = next /\ UNCHANGED <<t, initFlag>>
       \/ /\ ~matches /\ t' = u /\ initFlag' = TRUE
          /\ searchPc' = IF wrapped THEN "retry" ELSE here
    /\ UNCHANGED <<expr, t0>>

Retry ==
    /\ searchPc = "retry"
    /\ searchPc' = IF Year(t) > Year(TimeAdd(t0, 1)) + 1 THEN "zero" ELSE "month"
    /\ UNCHANGED <<expr, t0, t, initFlag>>

\* Mutant of MonthLoop: January follows December in the same year.
MonthLoopSameYear ==
    LET z == Zeroed(Midnight(Year(t), Month(t), 1))
        u == Midnight(Year(z), (Month(z) % Len(MonthDays)) + 1, 1)
    IN  Loop("month", Month(t) \in expr.month, "day", u, Month(u) = 1)

MonthLoop ==
    LET u == AddMonth(Zeroed(Midnight(Year(t), Month(t), 1)))
    IN  Loop("month", Month(t) \in expr.month, "day", u, Month(u) = 1)

DayLoop ==
    LET u == TimeAdd(Zeroed(Midnight(Year(t), Month(t), Day(t))), DayLen)
    IN  Loop("day", MatchDay(t), "hour", u, Day(u) = 1)

\* Mutant of HourLoop: the minutes and seconds stay.
HourLoopKeepsMinutes ==
    LET u == TimeAdd(t, HourLen)
    IN  Loop("hour", Hour(t) \in expr.hour, "minute", u, Hour(u) = 0)

HourLoop ==
    LET u == TimeAdd(Zeroed(Truncate(t, HourLen)), HourLen)
    IN  Loop("hour", Hour(t) \in expr.hour, "minute", u, Hour(u) = 0)

MinuteLoop ==
    LET u == TimeAdd(Zeroed(Truncate(t, Secs)), Secs)
    IN  Loop("minute", Minute(t) \in expr.min, "second", u, Minute(u) = 0)

SecondLoop ==
    LET u == TimeAdd(t, 1)
    IN  Loop("second", Second(t) \in expr.sec, "found", u, Second(u) = 0)

Search == Retry \/ MonthLoop \/ DayLoop \/ HourLoop \/ MinuteLoop \/ SecondLoop

CronNext == CallNext \/ Search

\* The search is one goroutine that runs.
CronFairness == WF_cronVars(Search)

CronSpec == CronInit /\ [][CronNext]_cronVars /\ CronFairness

-----------------------------------------------------------------------------
(* Properties.                                                             *)

Matches(u) ==
    /\ Month(u) \in expr.month /\ MatchDay(u) /\ Hour(u) \in expr.hour
    /\ Minute(u) \in expr.min /\ Second(u) \in expr.sec

\* The search never steps over a match: no time between its argument and where
\* it has got to matches.  With initFlag set only once, a field that wraps
\* around must leave every lower field at zero for this to hold.
NothingSkipped ==
    \A n \in t0.day..t.day, s \in 0..(DayLen - 1) :
        LET u == [day |-> n, sod |-> s]
        IN  Before(t0, u) /\ Before(u, t) => ~Matches(u)

\* What Next returns is a time after its argument that matches.
FoundMatches == searchPc = "found" => Matches(t) /\ Before(t0, t)

\* The search ends, also for expressions that never match (the 31st of a month
\* of 30 days): it gives up after the following year.
SearchEnds == searchPc = "retry" ~> searchPc \in {"found", "zero"}

\* In every state of the search t is where it should be: no match was passed,
\* and what is returned is one.
SearchInv == CronTypeOK /\ NothingSkipped /\ FoundMatches

=============================================================================
