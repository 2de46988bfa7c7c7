\* Both deployments: two routers that share the subscription in front of the
\* queue, one router and one telemetry-service without it.
SPECIFICATION FairSpec
CONSTANTS
    i1 = i1
    r1 = r1
    r2 = r2
    v1 = v1
    v2 = v2
    p1 = p1
    p2 = p2
    p3 = p3
    stray = stray
    NoPacket = NoPacket
    Instances = {i1}
    Routers = {r1, r2}
    Vehicles = {v1, v2}
    Messages = {p1, p2, p3, stray}
    Packets = {p1, p2, p3, stray}
    Conforming = {p1, p2, p3, stray}
    VehicleOf <- MCVehicleOf
    PayloadVehicle <- MCVehicleOf
    TopicVehicle <- MCTopicVehicle
    TimestampOf <- MCTimestampOf
    VehicleTypeOf <- MCVehicleTypeOf
    MaxFailures = 1
    MaxFaults = 1
INVARIANTS
    QueuedOnce
    Accounted
    StoredUnderOwnTopic
    HistoryNeverAhead
PROPERTIES
    FinalFlushKeepsWindow
    Delivered
\* The fleet stops publishing once every message is out.
CHECK_DEADLOCK FALSE
