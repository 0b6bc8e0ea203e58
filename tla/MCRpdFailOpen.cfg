SPECIFICATION Spec
CONSTANTS
    Keys = {k1}
    Readers = {r1, r2, r3}
    Flights = {f1, f2}
    MaxCount = 2
    MaxFails = 1
    MaxPurges = 0
    TTL = 1
    Failing = {"swallow"}
    NoKey = NoKey
    NoFlight = NoFlight
    NoReader = NoReader
    NoEntry = NoEntry
INVARIANTS
    CachedCountIsWhole
