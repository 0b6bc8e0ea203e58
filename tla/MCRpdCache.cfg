SPECIFICATION MCSpec
CONSTANTS
    Keys = {k1}
    Readers = {r1, r2, r3}
    Flights = {f1, f2}
    MaxCount = 1
    MaxFails = 1
    MaxPurges = 1
    TTL = 2
    Failing = {"raise", "swallow"}
    NoKey = NoKey
    NoFlight = NoFlight
    NoReader = NoReader
    NoEntry = NoEntry
INVARIANTS
    SingleFlight
    CompleteReadIsWhole
    PurgedCountsForgotten
PROPERTIES
    FailureIsShared
    EveryReaderAnswered
