\* Two requests race for one vehicle, its row lock and the two clients of the
\* pool, behind a cache and a lagging replica; a stranger waits for a client
\* meanwhile.  A call fails, the process ends once, the operator frees the
\* vehicle once.
SPECIFICATION FairSpec
CONSTANTS
    r1 = r1
    r2 = r2
    r3 = r3
    sedan = sedan
    van = van
    bus = bus
    NoVehicle = NoVehicle
    NoEntry = NoEntry
    Requests = {r1, r2, r3}
    Vehicles = {sedan}
    Bus = {}
    SeatsOf <- MCSeatsOf
    PartyOf <- SmallParties
    Strangers = {r3}
    Connected = TRUE
    HasReplica = TRUE
    PoolSize = 2
    CacheableSeats = 7
    MaxFaults = 1
    MaxStops = 1
    MaxResets = 1
PROPERTY
    EveryRequestSettles
