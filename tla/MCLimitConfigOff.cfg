CONSTANTS
    a1 = a1
    a2 = a2
    profile = profile
    user = user
    group = group
    Loop = Loop
    NoTask = NoTask
    NoRow = NoRow
    Profiles <- MCProfiles
    Users <- MCUsers
    Groups <- MCGroups
    Admins <- MCAdmins
    MaxEdits = 3
    MaxFails = 0
SPECIFICATION Spec
INVARIANT OffStaysOff
SYMMETRY MCSymmetry
