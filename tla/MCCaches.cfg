CONSTANTS
    a1 = a1
    a2 = a2
    profile = profile
    user = user
    group = group
    Loop = Loop
    NoTask = NoTask
    NoRow = NoRow
    Profiles <- MCProfiles
    Users <- MCUsers
    Groups <- MCGroups
    Admins <- MCAdmins
    MaxEdits = 2
    MaxFails = 1
    Ids = {1, 2}
    Names = {n1, n2}
    ApiKeys = {k1}
    Reqs = {r1}
    Editors = {e1}
    MaxOps = 2
    None = None
    Admin = Admin
    PreAuth = PreAuth
    u1 = u1
    u2 = u2
    Providers <- TheProviders
    FamilyOf <- TheFamilyOf
    Owner <- TheOwner
    Callers <- TheCallers
    ProfileOf <- TheProfileOf
    Default = "default"
    Supports <- TheSupports
    Exceptions <- TheExceptions
    Models <- TheNames
    Routes <- TheRoutes
    Lists <- TheLists
    Configs <- TheConfigs
    Starts <- TheStarts
SPECIFICATION MCSpec
INVARIANTS Settled AuthCacheIsTrue
PROPERTIES CatchesUp RevokedCredentialsGo AnsweredByClientsName
