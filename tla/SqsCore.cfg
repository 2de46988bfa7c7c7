\* Two instances share two readings of one vehicle, the second of another type,
\* so that writing it over the first is always refused; one flush fails, one
\* receive or delete is lost, one process stops at a time its own flush is
\* over, messages may be redelivered early.
SPECIFICATION Spec
CONSTANTS
    i1 = i1
    i2 = i2
    v1 = v1
    v2 = v2
    p1 = p1
    p2 = p2
    p3 = p3
    bad = bad
    NoPacket = NoPacket
    Instances = {i1, i2}
    Vehicles = {v1}
    Packets = {p1, p2}
    VehicleOf <- MCVehicleOf
    TimestampOf <- MCTimestampOf
    VehicleTypeOf <- MCMixedTypeOf
    Malformed = {}
    MaxReceiveCount = 2
    MaxFailures = 1
    MaxQueueFailures = 1
    MaxStops = 1
    FlushOutlastsWindow = FALSE
    StopDuringFlush = FALSE
    EarlyTimeout = TRUE
SYMMETRY InstanceSymmetry
INVARIANTS
    TypeOK
    BufferCovers
    HistoryNeverAhead
    ZeroLoss
    ReceiptsFollowPackets
    DuplicatesBounded
PROPERTIES
    CurrentNeverRegresses
    ImplementsStore
