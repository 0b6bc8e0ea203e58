SPECIFICATION MCSpec
CONSTANTS
    Calls = {c1, c2}
    Users = {u1, u2}
    Pool = {u1, u2}
    Tiers = {dflt, grp}
    Default = dflt
    Rpm <- MCRpm
    Rpd <- MCRpd
    SharePcts = {30}
    MaxUsed = 1
    NoUser = NoUser
    NoCall = NoCall
    None = None
    People = {1, 2, 3}
    Pools = {p1}
    Limits = {1, 3, Unlimited}
    Profiles <- MCProfiles
    MaxRows = 2
    MaxChanges = 3
    NoPool = NoPool
    Unlimited = Unlimited
    Guards = {1, 2}
INVARIANTS
    MinuteLimitKept
    NeverChargedForThePast
    SharesAreFair
    DeadlockOnlyByStraying
    SettledUnderGuard
PROPERTIES
    DayDenialsAreDue
    ChargesAreUse
    QuotaConserved
CONSTRAINT OneAtATime
SYMMETRY MCSymmetry
CHECK_DEADLOCK FALSE
