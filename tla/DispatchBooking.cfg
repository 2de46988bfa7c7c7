\* Parties of 1, 5 and 8 on overlapping lists, a pool of two clients.  The bus
\* is there to be left alone, the operator frees one vehicle, one call fails
\* and the process ends once; some landmarks are out of reach.
SPECIFICATION Spec
CONSTANTS
    r1 = r1
    r2 = r2
    r3 = r3
    sedan = sedan
    van = van
    bus = bus
    NoVehicle = NoVehicle
    NoEntry = NoEntry
    Requests = {r1, r2, r3}
    Vehicles = {sedan, van, bus}
    Bus = {bus}
    SeatsOf <- MCSeatsOf
    PartyOf <- MCMixedParties
    Strangers = {}
    Connected = FALSE
    HasReplica = FALSE
    PoolSize = 2
    CacheableSeats = 7
    MaxFaults = 1
    MaxStops = 1
    MaxResets = 1
INVARIANTS
    UncoveredKeysEmpty
    TypeOK
    StaleHasCause
    NoDoubleBooking
    AnswersMatchLedger
    LocksAreOwned
