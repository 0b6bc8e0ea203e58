CONSTANTS
    u1 = u1
    u2 = u2
    p1 = p1
    i1 = i1
    t1 = t1
    t2 = t2
    None = None
    Users <- MCUsers
    Pools <- MCPools
    Invites <- MCInvites
    Tasks <- MCTasks
    Sizes <- MCSizes
    Offered <- Ops
SPECIFICATION FairSpec
INVARIANTS OwnerKept SettlesAgainstMembers
PROPERTIES JoinsFitOverride EveryRequestEnds
