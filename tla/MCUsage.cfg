SPECIFICATION MCSpec
CONSTANTS
    Users = {u1}
    Labels = {a, b}
    Models = {m1}
    Pools = {p0, p1}
    NoPool = p0
    Reqs = {r1, r2}
    MaxOps = 2
    NoUser = NoUser
    NoLabel = NoLabel
    NoModel = NoModel
    Hours = 1
    MonthDays = 2
    Age = 1
    WeekDays = 1
    RangeDays = 2
    ReportDays = 1
    ReportHour = 0
    MaxNow = 3
    Busy = {1}
    MaxSent = 2
    MaxFails = 1
    MaxReads = 1
INVARIANTS
    Conservation
    UsageFollowsAccounts
PROPERTIES
    BufferDrains
    UsageAddsUp
