\* The process ends once, at any point of one ride.
SPECIFICATION FairSpec
CONSTANTS
    r1 = r1
    r2 = r2
    r3 = r3
    sedan = sedan
    van = van
    bus = bus
    NoVehicle = NoVehicle
    NoEntry = NoEntry
    Requests = {r1}
    Vehicles = {sedan}
    Bus = {}
    SeatsOf <- MCSeatsOf
    PartyOf <- SmallParties
    Strangers = {}
    Connected = TRUE
    HasReplica = FALSE
    PoolSize = 2
    CacheableSeats = 7
    MaxFaults = 0
    MaxStops = 1
    MaxResets = 0
PROPERTY
    EveryRideIsCommanded
