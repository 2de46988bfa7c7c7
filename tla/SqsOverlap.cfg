\* Flushes that outlast the batch window, early redelivery, a failed flush and
\* a lost receive or failed delete, but no process ever stops.
SPECIFICATION FairSpec
CONSTANTS
    i1 = i1
    i2 = i2
    v1 = v1
    v2 = v2
    p1 = p1
    p2 = p2
    p3 = p3
    bad = bad
    NoPacket = NoPacket
    Instances = {i1}
    Vehicles = {v1}
    Packets = {p1, p2}
    VehicleOf <- MCVehicleOf
    TimestampOf <- MCTimestampOf
    VehicleTypeOf <- MCVehicleTypeOf
    Malformed = {}
    MaxReceiveCount = 2
    MaxFailures = 1
    MaxQueueFailures = 1
    MaxStops = 0
    FlushOutlastsWindow = TRUE
    StopDuringFlush = FALSE
    EarlyTimeout = TRUE
INVARIANT
    NeverForgotten
PROPERTY
    EventuallyWritten
