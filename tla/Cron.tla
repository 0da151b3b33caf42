-------------------------------- MODULE Cron --------------------------------
(***************************************************************************)
(* internal/domain/cron.go on a calendar whose units are parameters (60    *)
(* minutes, 24 hours, ..., no leap years).  A minute is counted from the   *)
(* epoch; an instant counts ticks, TicksPerMinute of them to a minute.     *)
(*                                                                         *)
(* A field is the set of its comma separated parts, each a record [kind,   *)
(* lo, hi, step]: "star", "range" lo-hi or "value" lo.  The text form and  *)
(* the parts that do not parse as numbers are left out.                    *)
(***************************************************************************)
EXTENDS Integers, Sequences, FiniteSets

CONSTANTS
    TicksPerSecond, SecondsPerMinute, MinutesPerHour, HoursPerDay,
    MonthDays,    \* MonthDays[m]: the days of month m
    WeekDays,
    LimitDays     \* 366: how far Next looks

ASSUME CalendarAssumption ==
    /\ {TicksPerSecond, SecondsPerMinute, MinutesPerHour, HoursPerDay, WeekDays} \subseteq Nat \ {0}
    /\ MonthDays \in Seq(Nat \ {0}) /\ MonthDays # <<>>
    /\ LimitDays \in Nat

TicksPerMinute == TicksPerSecond * SecondsPerMinute
MinutesPerDay == MinutesPerHour * HoursPerDay
TicksPerDay == TicksPerMinute * MinutesPerDay

\* The first day of month m of a year, from 0; of month Len + 1: of the next year.
FirstDay[m \in 1..Len(MonthDays) + 1] == IF m = 1 THEN 0 ELSE FirstDay[m - 1] + MonthDays[m - 1]

YearDays == FirstDay[Len(MonthDays) + 1]

Day(c) == c \div MinutesPerDay
YearDay(c) == Day(c) % YearDays
Month(c) == CHOOSE m \in DOMAIN MonthDays : FirstDay[m] <= YearDay(c) /\ YearDay(c) < FirstDay[m + 1]
DayOfMonth(c) == YearDay(c) - FirstDay[Month(c)] + 1
Weekday(c) == Day(c) % WeekDays
Hour(c) == (c % MinutesPerDay) \div MinutesPerHour
Minute(c) == c % MinutesPerHour

-----------------------------------------------------------------------------
\* The values of one part: a single value has a step only if it is not 1.
Part(p, min, max) ==
    LET hi == IF p.kind = "range" THEN p.hi ELSE max
        lo == IF p.kind = "star" THEN min ELSE p.lo
    IN  IF p.kind = "value" /\ p.step = 1 THEN {p.lo}
        ELSE {v \in lo..hi : (v - lo) % p.step = 0}

\* The steps and bounds that expandCronField refuses.
BadPart(p, min, max) ==
    \/ p.step <= 0
    \/ p.kind # "star" /\ p.lo < min
    \/ p.kind = "range" /\ (p.hi > max \/ p.lo > p.hi)
    \/ p.kind = "value" /\ p.lo > max

\* {} is the error.
expandCronField(field, min, max) ==
    IF \E p \in field : BadPart(p, min, max) THEN {}
    ELSE UNION {Part(p, min, max) : p \in field}

\* The length of the longest month bounds day-of-month (31).
MaxMonthDays == CHOOSE n \in {MonthDays[m] : m \in DOMAIN MonthDays} :
                    \A m \in DOMAIN MonthDays : MonthDays[m] <= n

ParseCron(expr) ==
    [minutes |-> expandCronField(expr.minute, 0, MinutesPerHour - 1),
     hours |-> expandCronField(expr.hour, 0, HoursPerDay - 1),
     daysOfMonth |-> expandCronField(expr.dom, 1, MaxMonthDays),
     months |-> expandCronField(expr.month, 1, Len(MonthDays)),
     daysOfWeek |-> expandCronField(expr.dow, 0, WeekDays - 1)]

Parsed(s) == \A f \in DOMAIN s : s[f] # {}

-----------------------------------------------------------------------------
Matches(s, c) ==
    /\ Month(c) \in s.months
    /\ DayOfMonth(c) \in s.daysOfMonth /\ Weekday(c) \in s.daysOfWeek
    /\ Hour(c) \in s.hours
    /\ Minute(c) \in s.minutes

\* Mutant: the hour is advanced without going back to its first minute.
SkipKeepsMinute(s, c) ==
    IF Month(c) \notin s.months
    THEN (Day(c) - YearDay(c) + FirstDay[Month(c) + 1]) * MinutesPerDay
    ELSE IF DayOfMonth(c) \notin s.daysOfMonth \/ Weekday(c) \notin s.daysOfWeek
    THEN (Day(c) + 1) * MinutesPerDay
    ELSE IF Hour(c) \notin s.hours THEN c + MinutesPerHour ELSE c + 1

\* The next candidate: the first minute of the next month, day or hour, or the
\* next minute, by the first field that does not match.
Skip(s, c) ==
    IF Month(c) \notin s.months
    THEN (Day(c) - YearDay(c) + FirstDay[Month(c) + 1]) * MinutesPerDay
    ELSE IF DayOfMonth(c) \notin s.daysOfMonth \/ Weekday(c) \notin s.daysOfWeek
    THEN (Day(c) + 1) * MinutesPerDay
    ELSE IF Hour(c) \notin s.hours THEN (c \div MinutesPerHour + 1) * MinutesPerHour ELSE c + 1

\* The minute after the one t is in.
FirstCandidate(t) == t \div TicksPerMinute + 1

Limit(t) == t + LimitDays * TicksPerDay

\* CronSchedule.Next
NextInstant(s, t) ==
    LET from[c \in Nat] ==
            IF c * TicksPerMinute >= Limit(t) THEN t + TicksPerDay
            ELSE IF Matches(s, c) THEN c * TicksPerMinute ELSE from[Skip(s, c)]
    IN  from[FirstCandidate(t)]
=============================================================================
