SPECIFICATION MCSpec
CONSTANTS
    Calls = {c1, c2, c3}
    Users = {u1, u2}
    MaxLimit = 2
    NoUser = NoUser
    ToolCalls = {0, 1}
    MaxPieces = 3
    MaxTexts = 2
    RespPieces = 2
    RespTexts = 1
    MaxRetries = 1
    MaxLoops = 2
    MaxQueries = 1
    Uses = {None, 1}
    MaxBlocks = 2
    Ids = {i1, i2}
    Emails = {m1}
    Subs = {s1, s2}
    MaxBorn = 2
    MaxRequests = 2
    Global = {g}
    Byok = {b}
    MaxEdits = 2
    MaxClock = 2
    None = None
SYMMETRY Symmetry
INVARIANTS
    InflightIsHolders
    NothingLostNothingMixed
    TurnsAreWhole
    IdentityKeepsItsAccount
    RegistryIsCurrent
PROPERTIES
    
    SlotLastsAsLongAsTheCall
    OneMessage
CHECK_DEADLOCK FALSE
