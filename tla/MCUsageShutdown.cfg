SPECIFICATION ShutdownSpec
CONSTANTS
    Users = {u1}
    Labels = {a}
    Models = {m1}
    Pools = {p0, p1}
    NoPool = p0
    Reqs = {r1}
    MaxOps = 0
    NoUser = NoUser
    NoLabel = NoLabel
    NoModel = NoModel
INVARIANT NeverOvercounts
