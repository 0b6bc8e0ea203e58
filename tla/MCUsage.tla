------------------------------ MODULE MCUsage ------------------------------
(* Usage from a request to a report: MCUsageTracker, the buffer and its     *)
(* flushes, and UsageTables, the three tables over four days of one hour,   *)
(* two to a month.  The two share no state; `part` says which of them a     *)
(* behaviour runs, so that their states add up instead of multiplying.      *)
EXTENDS MCUsageTracker

CONSTANTS Hours, MonthDays, Age, WeekDays, RangeDays, ReportDays, ReportHour, MaxNow, Busy, MaxSent, MaxFails,
    MaxReads

VARIABLES now, pending, hourly, daily, monthly, sent, stage, months, rolled, report, target, fails, reads, part

overTime == <<now, pending, hourly, daily, monthly, sent, stage, months, rolled, report, target, fails, reads>>

TheTags == {"a", "b"}

\* A user asks for one axis of every tag, or for another's drill-down.
TheAsked ==
    LET Asks(kinds, axis, tags) == {[w |-> [kind |-> k, month |-> 0], axis |-> axis, tags |-> tags] : k \in kinds}
    IN Asks({"24h", "today", "yesterday", "7d", "report"}, "user", TheTags)
       \cup Asks({"month", "all"}, "model", {"b"}) \cup Asks({"30d"}, "pool", TheTags)

Tables == INSTANCE UsageTables WITH
    Tags <- TheTags,
    UserOf <- [t \in TheTags |-> IF t = "a" THEN 1 ELSE 2],
    ModelOf <- [t \in TheTags |-> "m"],
    PoolOf <- [t \in TheTags |-> IF t = "a" THEN 0 ELSE 1],
    Asked <- TheAsked, buffer <- pending

ASSUME Tables!UsageTablesAssumption

\* One initial state of the tracker is enough beside the tables.
MCInit ==
    /\ part \in {"tracker", "tables"} /\ Init /\ Tables!Init
    /\ part = "tables" => /\ name = CHOOSE f \in [Users -> Labels] : TRUE
                          /\ poolOf = [u \in Users |-> NoPool]

\* The four days are over.
Over == part = "tables" /\ now = MaxNow /\ UNCHANGED <<vars, overTime, part>>

MCNext ==
    \/ part = "tracker" /\ Next        /\ UNCHANGED <<overTime, part>>
    \/ part = "tables"  /\ Tables!Next /\ UNCHANGED <<vars, part>>
    \/ Over

MCSpec == MCInit /\ [][MCNext]_<<vars, overTime, part>> /\ Fairness

-----------------------------------------------------------------------------
\* UsageTables: whatever is pruned, rolled up or written late, the tables add up to what was
\* written, and every answer that no rollup crosses is what they held when it was read.
UsageAddsUp == [](part = "tables" => Tables!TablesAddUp) /\ Tables!AnswersAreTrue
=============================================================================
