\* The first telemetry of a vehicle arrives behind a cached empty list.
SPECIFICATION Spec
CONSTANTS
    r1 = r1
    r2 = r2
    r3 = r3
    sedan = sedan
    van = van
    bus = bus
    NoVehicle = NoVehicle
    NoEntry = NoEntry
    Requests = {r1, r2}
    Vehicles = {sedan}
    Bus = {}
    SeatsOf <- MCSeatsOf
    PartyOf <- SmallParties
    Strangers = {}
    Connected = TRUE
    HasReplica = FALSE
    PoolSize = 2
    CacheableSeats = 7
    MaxFaults = 0
    MaxStops = 0
    MaxResets = 0
PROPERTY
    StaleHitOnlyCostsRetry
