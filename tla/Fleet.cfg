\* A sedan for hire and the bus; two rides, a stop command and a restart;
\* readings and commands are late or lost.
SPECIFICATION FairSpec
CONSTANTS
    sedan = sedan
    bus = bus
    a = a
    b = b
    c = c
    d = d
    NoVehicle = NoVehicle
    NoReading = NoReading
    Nodes = {a, b, c, d}
    Landmarks <- MCLandmarks
    Lat <- MCLat
    Lon <- MCLon
    PathOf <- MCPathOf
    CostKm <- MCCostKm
    Vehicles = {sedan, bus}
    FleetOrder <- MCFleetOrder
    HomeNode <- MCHomeNode
    BusLoop <- MCBusLoop
    BatteryLevel <- MCBatteryLevel
    Seats <- MCSeats
    NotForHire = {bus}
    Parties = {1}
    LegUnits = 5
    Paces <- MCPaces
    GpsEpsilon = 3
    Heartbeat = 2
    MaxRides = 2
    MaxStops = 1
    MaxReboots = 1
    Selections <- MCSelections
INVARIANTS
    SentIsCurrent
    SoundRides
    SelectsBest
PROPERTIES
    ParkedIsFound
