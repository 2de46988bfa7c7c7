\* Two requests, a lagging replica, two failed calls or lost messages, a crash
\* or SIGTERM, and an operator reset.
SPECIFICATION Spec
CONSTANTS
    r1 = r1
    r2 = r2
    r3 = r3
    sedan = sedan
    van = van
    bus = bus
    NoVehicle = NoVehicle
    NoEntry = NoEntry
    Requests = {r1, r2}
    Vehicles = {sedan, van}
    Bus = {}
    SeatsOf <- MCSeatsOf
    PartyOf <- SmallParties
    Strangers = {}
    Connected = TRUE
    HasReplica = TRUE
    PoolSize = 2
    CacheableSeats = 7
    MaxFaults = 2
    MaxStops = 1
    MaxResets = 1
SYMMETRY RequestSymmetry
INVARIANTS
    NoDoubleBooking
    BookedTogether
    CommandsMatchLedger
PROPERTY
    ImplementsLedger
