\* Three losses (two lost receives or failed deletes, one stop) and a failed
\* flush against a receive count of four: a readable message is written and
\* deleted, an unreadable one quarantined.
SPECIFICATION FairSpec
CONSTANTS
    i1 = i1
    i2 = i2
    v1 = v1
    v2 = v2
    p1 = p1
    p2 = p2
    p3 = p3
    bad = bad
    NoPacket = NoPacket
    Instances = {i1, i2}
    Vehicles = {v1}
    Packets = {p1, bad}
    VehicleOf <- MCVehicleOf
    TimestampOf <- MCTimestampOf
    VehicleTypeOf <- MCVehicleTypeOf
    Malformed = {bad}
    MaxReceiveCount = 4
    MaxFailures = 1
    MaxQueueFailures = 2
    MaxStops = 1
    FlushOutlastsWindow = FALSE
    StopDuringFlush = FALSE
    EarlyTimeout = FALSE
PROPERTIES
    EventuallyWritten
    EventuallyDeleted
    MalformedQuarantined
