CONSTANTS
    p1 = p1
    NoPool = NoPool
    Unlimited = Unlimited
    Users <- MCUsers
    Pools <- MCOnePool
    Limits <- MCOneLimit
    Profiles <- MCEqualProfiles
    MaxRows = 2
    MaxChanges = 5
SPECIFICATION Spec
INVARIANT ChargedOnlySinceArrival
