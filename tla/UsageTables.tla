----------------------------- MODULE UsageTables -----------------------------
(* The three usage tables over time: a flush writes the hourly and the daily  *)
(* one, its maintenance prunes the former and rolls months of the latter up   *)
(* into the monthly one, and the dashboards, pool views and the daily report  *)
(* read whichever of them a window lies in, query by query.  A request is the *)
(* tag it is counted under: who sent it, to which model, for which pool.      *)
EXTENDS Integers, Sequences, FiniteSets, FiniteSetsExt

CONSTANTS
    Tags, UserOf, ModelOf, PoolOf,
    Hours,          \* hours of a day
    MonthDays,      \* days of a month
    Age,            \* days a month stays in the daily table after its last one
    WeekDays, RangeDays, \* days of the windows "7d" and "30d"
    ReportDays,     \* days of the daily report's longer window
    ReportHour,
    Asked,          \* the answers asked for: window, axis and scope
    MaxNow,
    Busy,           \* the hours in which requests end
    MaxSent, MaxFails, MaxReads

VARIABLES
    now,        \* hours since the first midnight
    buffer,     \* <<hour, tag>> -> requests no flush has written
    hourly,     \* <<hour, tag>> -> request_count; 0 where there is no row
    daily,      \* <<day, tag>> -> request_count
    monthly,    \* <<month, tag>> -> request_count
    sent,       \* <<hour, tag>> -> requests written so far, whatever became of the rows
    stage,      \* what the flush in progress does next
    months,     \* the months its rollup has yet to move
    rolled,     \* when the last rollup ended, or -1
    report,     \* the report being read
    target,     \* when the daily report is due
    fails, reads

tables == <<buffer, hourly, daily, monthly, sent>>
vars == <<now, tables, stage, months, rolled, report, target, fails, reads>>

HourIds  == 0..MaxNow
Day(h)   == h \div Hours
DayIds   == 0..Day(MaxNow)
Month(d) == d \div MonthDays
MonthIds == 0..Month(Day(MaxNow))
LastDay(m) == (m + 1) * MonthDays - 1
Today    == Day(now)

Sum(rows, keys) == MapThenSumSet(LAMBDA k : rows[k], keys)
HoursOfDays(days) == {h \in HourIds : Day(h) \in days}
DaysOf(m)         == {d \in DayIds : Month(d) = m}

-----------------------------------------------------------------------------
(* What a window reads, and how its answer is folded.                        *)

Window(kind, m) == [kind |-> kind, month |-> m]
Windows == {Window(k, 0) : k \in {"24h", "today", "yesterday", "7d", "30d", "all", "report"}}
           \cup {Window("month", m) : m \in MonthIds}

\* The tables in the order they are queried, each with its time keys.
WindowTables(w) ==
    LET Daily(days) == << <<"daily", days \cap DayIds>> >> IN
    CASE w.kind = "24h"       -> << <<"hourly", {h \in HourIds : h >= now - Hours}>> >>
      [] w.kind = "today"     -> Daily({Today})
      [] w.kind = "yesterday" -> Daily({Today - 1})
      [] w.kind = "7d"        -> Daily({d \in DayIds : d >= Today - (WeekDays - 1)})
      [] w.kind = "30d"       -> Daily({d \in DayIds : d >= Today - (RangeDays - 1)})
      [] w.kind = "report"    -> Daily((Today - ReportDays)..(Today - 1))
      [] w.kind = "month"     -> Daily(DaysOf(w.month)) \o << <<"monthly", {w.month}>> >>
      [] w.kind = "all"       -> Daily(DayIds) \o << <<"monthly", MonthIds>> >>

\* The hours whose requests a window is about.
HoursOf(w) ==
    LET t == WindowTables(w)[1] IN
    CASE w.kind = "24h" -> t[2]
      [] w.kind = "all" -> HourIds
      [] OTHER          -> HoursOfDays(t[2])

Rows(table) == CASE table = "hourly" -> hourly [] table = "daily" -> daily [] OTHER -> monthly

Axis == [user |-> UserOf, model |-> ModelOf, pool |-> PoolOf]
Values(axis) == {Axis[axis][t] : t \in Tags}

\* A drill-down restricts the rows to one user, model or pool.
Scopes == {Tags} \cup UNION {{{t \in Tags : Axis[a][t] = v} : v \in Values(a)} : a \in DOMAIN Axis}

UsageTablesAssumption ==
    /\ {Hours, MonthDays, WeekDays, RangeDays} \subseteq Nat \ {0}
    /\ ReportHour \in 0..(Hours - 1) /\ ReportDays <= Age
    /\ WeekDays <= RangeDays /\ RangeDays <= Age + 1
    /\ \A q \in Asked : q.w \in Windows /\ q.axis \in DOMAIN Axis /\ q.tags \in Scopes

\* One query's rows, grouped by the axis: _user_rows_q, _model_rows_q, by pool.
Grouped(rows, keys, tags, axis) ==
    [v \in Values(axis) |-> Sum(rows, keys \X {t \in tags : Axis[axis][t] = v})]

\* _merge_model_rows, _fold_identities: rows of several tables, one row per value.
Merged(f, g) == [v \in DOMAIN f |-> f[v] + g[v]]

Idle == [at |-> "idle"]

-----------------------------------------------------------------------------
Init ==
    /\ now = 0
    /\ buffer = [k \in HourIds \X Tags |-> 0]
    /\ hourly = buffer /\ sent = buffer
    /\ daily = [k \in DayIds \X Tags |-> 0]
    /\ monthly = [k \in MonthIds \X Tags |-> 0]
    /\ stage = "idle" /\ months = {} /\ rolled = -1
    /\ report = Idle /\ target = ReportHour
    /\ fails = 0 /\ reads = 0

\* A flush and its maintenance end within the hour they began in.
Tick ==
    /\ stage = "idle"
    /\ now < MaxNow /\ now' = now + 1
    /\ UNCHANGED <<tables, stage, months, rolled, report, target, fails, reads>>

Recorded == [k \in DOMAIN sent |-> sent[k] + buffer[k]]

\* A request ends and is counted in the current hour.
Count(t) ==
    /\ now \in Busy /\ Sum(Recorded, DOMAIN sent) < MaxSent
    /\ buffer' = [buffer EXCEPT ![now, t] = @ + 1]
    /\ UNCHANGED <<now, hourly, daily, monthly, sent, stage, months, rolled, report, target, fails, reads>>

Fail == fails < MaxFails /\ fails' = fails + 1

\* Both tables in one transaction, each count added to the row it conflicts with; the
\* daily rows are the buffered ones with the hour dropped.
UsageUpsert ==
    /\ hourly' = [k \in DOMAIN hourly |-> hourly[k] + buffer[k]]
    /\ daily' = [k \in DOMAIN daily |-> daily[k] + Sum(buffer, HoursOfDays({k[1]}) \X {k[2]})]

FlushUsageRows ==
    /\ UsageUpsert
    /\ sent' = Recorded
    /\ buffer' = [k \in DOMAIN buffer |-> 0]
    /\ UNCHANGED monthly

Buffered == \E k \in DOMAIN buffer : buffer[k] > 0

\* The flush itself, for the loop or for a reader that asked for it first.
Flush ==
    \/ ~Buffered /\ UNCHANGED <<tables, stage, fails>>
    \/ Buffered /\ FlushUsageRows /\ stage' = "prune" /\ UNCHANGED fails
    \/ Buffered /\ Fail /\ UNCHANGED <<tables, stage>>

FlushLoop ==
    /\ stage = "idle" /\ Buffered /\ Flush
    /\ UNCHANGED <<now, months, rolled, report, target, reads>>

\* A row that a reader under way has read or will read is moved or dropped.
Crossing(changed) ==
    report' = IF report.at = "read" THEN [report EXCEPT !.crossed = @ \/ changed] ELSE report

\* Mutant: only the rows of today stay.
PrunedHoursToday == HoursOfDays({d \in DayIds : d < Today})
PrunedHours == HoursOfDays({d \in DayIds : d < Today - 1})

PruneHourlyUsage ==
    /\ hourly' = [k \in DOMAIN hourly |-> IF k[1] \in PrunedHours THEN 0 ELSE hourly[k]]
    /\ Crossing(hourly' # hourly)
    /\ UNCHANGED <<buffer, daily, monthly, sent>>

\* Mutant: or exactly Age days ago.
AgedOff(m) == LastDay(m) <= Today - Age
\* A month is moved when its last day is more than Age days ago.
Aged(m) == LastDay(m) < Today - Age

MonthsInTable == {Month(k[1]) : k \in {k \in DOMAIN daily : daily[k] > 0}}

\* The rollup runs at most once an hour, over the months it finds at the outset.
Prune ==
    /\ stage = "prune"
    /\ PruneHourlyUsage
    /\ IF now > rolled THEN stage' = "rollup" /\ months' = {m \in MonthsInTable : Aged(m)}
                       ELSE stage' = "idle" /\ UNCHANGED months
    /\ UNCHANGED <<now, rolled, target, fails, reads>>

\* The month's sums are added to the monthly rows and its daily rows deleted, in one commit.
Rolled(m) == [k \in DOMAIN monthly |-> IF k[1] = m THEN monthly[k] + Sum(daily, DaysOf(m) \X {k[2]}) ELSE monthly[k]]

RollUp(m) ==
    /\ stage = "rollup" /\ m \in months
    /\ monthly' = Rolled(m)
    /\ daily' = [k \in DOMAIN daily |-> IF Month(k[1]) = m THEN 0 ELSE daily[k]]
    /\ months' = months \ {m}
    /\ Crossing(TRUE)
    /\ UNCHANGED <<now, buffer, hourly, sent, stage, rolled, target, fails, reads>>

RolledUp ==
    /\ stage = "rollup" /\ months = {}
    /\ stage' = "idle" /\ rolled' = now
    /\ UNCHANGED <<now, tables, months, report, target, fails, reads>>

\* Any statement of the maintenance fails: its transaction is rolled back, the rest is left
\* for the next flush.
MaintenanceFails ==
    /\ stage # "idle" /\ Fail
    /\ stage' = "idle" /\ months' = {}
    /\ UNCHANGED <<now, tables, rolled, report, target, reads>>

\* The next ReportHour strictly after the present.
NextRunAt(h) == CHOOSE r \in (h + 1)..(h + Hours) : r % Hours = ReportHour

\* The process is killed and started again.
Crash ==
    /\ Fail
    /\ buffer' = [k \in DOMAIN buffer |-> 0]
    /\ stage' = "idle" /\ months' = {} /\ rolled' = -1
    /\ report' = Idle /\ target' = NextRunAt(now)
    /\ UNCHANGED <<now, hourly, daily, monthly, sent, reads>>

-----------------------------------------------------------------------------
(* A report: the buffer is flushed, each table of the window queried, and     *)
(* then the chart, which selects its rows anew.                               *)

\* A dashboard asks for one axis of a window, for a scope; the daily report when it is due.
Ask(w, axis, tags) ==
    /\ report = Idle /\ reads < MaxReads
    /\ w.kind = "report" => now >= target /\ tags = Tags /\ axis # "pool"
    /\ stage = "idle" /\ Flush
    /\ report' = [at |-> "flushed", w |-> w, axis |-> axis, tags |-> tags, day |-> Today, lost |-> Buffered']
    /\ reads' = reads + 1
    /\ UNCHANGED <<now, months, rolled, target>>

Zeros(axis) == [v \in Values(axis) |-> 0]

\* The flush and its maintenance have returned; the window's bounds are taken.
Open ==
    /\ report.at = "flushed" /\ stage = "idle"
    /\ report' = [at |-> "read", w |-> report.w, axis |-> report.axis, tags |-> report.tags, day |-> report.day,
                  lost |-> report.lost, todo |-> WindowTables(report.w), hours |-> HoursOf(report.w),
                  today |-> Today, low |-> sent, rows |-> Zeros(report.axis),
                  crossed |-> FALSE]
    /\ UNCHANGED <<now, tables, stage, months, rolled, target, fails, reads>>

QueryTable ==
    /\ report.at = "read" /\ report.todo # <<>>
    /\ LET q == Head(report.todo) IN
       report' = [report EXCEPT
           !.rows = Merged(@, Grouped(Rows(q[1]), q[2], report.tags, report.axis)),
           !.todo = Tail(@)]
    /\ UNCHANGED <<now, tables, stage, months, rolled, target, fails, reads>>

\* One bucket per hour, day or month.
Buckets(rows, unit, keys) == [unit |-> unit, counts |-> [k \in keys |-> Sum(rows, {k} \X report.tags)]]
AnyRow(rows, keys) == \E k \in keys \X report.tags : rows[k] > 0

\* Mutant: a month that has been moved keeps an empty chart of days.
MonthChartDaysOnly(m) == Buckets(daily, "day", DaysOf(m))
\* A month's days, unless the daily table has no row of it.
MonthChart(m) ==
    IF AnyRow(daily, DaysOf(m)) THEN Buckets(daily, "day", DaysOf(m)) ELSE Buckets(monthly, "month", {m})

\* The chart of each window, from the hourly table where it can.
Timeseries(w) ==
    LET OfDay(d) == IF AnyRow(hourly, HoursOfDays({d})) THEN Buckets(hourly, "hour", HoursOfDays({d}))
                                                        ELSE Buckets(daily, "day", {d} \cap DayIds)
        FromDay(d) == Buckets(daily, "day", {k \in DayIds : d <= k /\ k <= Today})
    IN CASE w.kind = "24h"       -> Buckets(hourly, "hour", {h \in HourIds : now - Hours <= h /\ h <= now})
         [] w.kind = "today"     -> OfDay(Today)
         [] w.kind = "yesterday" -> OfDay(Today - 1)
         [] w.kind = "7d"        -> FromDay(Today - (WeekDays - 1))
         [] w.kind = "30d"       -> FromDay(Today - (RangeDays - 1))
         [] w.kind = "month"     -> MonthChart(w.month)
         [] w.kind = "all"       -> [unit |-> "month", counts |->
                [m \in MonthIds |-> Sum(daily, DaysOf(m) \X report.tags) + Sum(monthly, {m} \X report.tags)]]

\* The first day there is anything of: exact in the daily table, the month's first in the other.
EarliestDate ==
    LET candidates == {k[1] : k \in {k \in DOMAIN daily : daily[k] > 0 /\ k[2] \in report.tags}}
                      \cup {k[1] * MonthDays : k \in {k \in DOMAIN monthly : monthly[k] > 0 /\ k[2] \in report.tags}}
    IN IF candidates = {} THEN -1 ELSE Min(candidates)

\* The years (here months) the picker offers.
UsageYears == MonthsInTable \cup {k[1] : k \in {k \in DOMAIN monthly : monthly[k] > 0}}

Read == report.at = "read" /\ report.todo = <<>>

\* The chart and the picker's bounds end a dashboard's answer.
Answer ==
    /\ Read /\ report.w.kind # "report"
    /\ report' = Idle
    /\ UNCHANGED <<now, tables, stage, months, rolled, target, fails, reads>>

\* The daily report is posted and the next one scheduled.
Post ==
    /\ Read /\ report.w.kind = "report"
    /\ report' = Idle
    /\ target' = NextRunAt(now)
    /\ UNCHANGED <<now, tables, stage, months, rolled, fails, reads>>

Next ==
    \/ Tick \/ FlushLoop \/ Prune \/ RolledUp \/ MaintenanceFails \/ Crash
    \/ \E t \in Tags : Count(t)
    \/ \E m \in MonthIds : RollUp(m)
    \/ \E q \in Asked : Ask(q.w, q.axis, q.tags)
    \/ Open \/ QueryTable \/ Answer \/ Post

Spec == Init /\ [][Next]_vars

-----------------------------------------------------------------------------
\* Whatever is pruned, moved or written late, the daily and monthly rows of a month add up to
\* what was written for it, the days a report may ask for are whole in the daily table, and
\* the hours of today and yesterday in the hourly one.
TablesAddUp ==
    /\ \A m \in MonthIds, t \in Tags :
          Sum(daily, DaysOf(m) \X {t}) + Sum(monthly, {m} \X {t}) = Sum(sent, HoursOfDays(DaysOf(m)) \X {t})
    /\ \A d \in DayIds, t \in Tags :
          d >= Today - Age => daily[d, t] = Sum(sent, HoursOfDays({d}) \X {t})
    /\ \A h \in HourIds, t \in Tags :
          Day(h) >= Today - 1 => hourly[h, t] = sent[h, t]

\* The hours of a chart's bucket.
BucketHours(unit, b) ==
    CASE unit = "hour" -> {b} [] unit = "day" -> HoursOfDays({b}) [] OTHER -> HoursOfDays(DaysOf(b))

\* Every row and every bar of an answer is what had been written when it was read: at least
\* what had been when the reader's flush ended, at most what is by now; the picker starts no
\* later than the first request; and nothing recorded for the daily report's days comes after it.
AnswerIsTrue ==
    LET Between(n, keys) == Sum(report.low, keys) <= n /\ n <= Sum(sent, keys)
        About(v) == report.hours \X {t \in report.tags : Axis[report.axis][t] = v}
        chart == Timeseries(report.w)
    IN /\ \A v \in Values(report.axis) : Between(report.rows[v], About(v))
       /\ report.w.kind # "report" =>
             /\ \A b \in DOMAIN chart.counts : Between(chart.counts[b], BucketHours(chart.unit, b) \X report.tags)
             /\ \A k \in DOMAIN sent :
                   report.low[k] > 0 =>
                       /\ k[2] \in report.tags => EarliestDate # -1 /\ EarliestDate <= Day(k[1])
                       /\ Month(Day(k[1])) \in UsageYears
       /\ report.w.kind = "report" /\ ~report.lost /\ report.day = report.today =>
             \A v \in Values(report.axis) : report.rows[v] = Sum(Recorded, About(v))

AnswersAreTrue == [][(Answer \/ Post) /\ ~report.crossed => AnswerIsTrue]_vars

UsageAddsUp == []TablesAddUp /\ AnswersAreTrue
=============================================================================
