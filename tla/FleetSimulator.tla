---------------------------- MODULE FleetSimulator ----------------------------
(***************************************************************************)
(* node-red/flows.json: the sensor simulator with the edge filter behind   *)
(* it, and the actuator.  A tick moves the whole fleet and filters what it *)
(* reports; commands come in between ticks.  The fields no property tells  *)
(* apart (speed, heading, doors, load) are left out, and a vehicle's       *)
(* battery level, which moves by hundredths in a tick, is a constant.      *)
(*                                                                         *)
(* A definition marked "Mutant" is a plausible slip in the definition that *)
(* follows it.  No specification uses it; it shows which property notices. *)
(***************************************************************************)
EXTENDS VehicleSelection

CONSTANTS Vehicles,      \* vehicleIDs
          HomeNode,      \* [v]  homeNode of mkVehicle
          BusLoop,       \* [v]  busLoop, << >> when null
          BatteryLevel,  \* [v]
          LegUnits,      \* the length of a leg: progress 1 in equal steps
          Paces,         \* [v]  steps v may go in a tick: its SPEED band
          GpsEpsilon,    \* GPS_EPSILON
          Heartbeat,     \* HEARTBEAT_MS in ticks
          NoReading      \* nothing forwarded yet

\* p and q differ by less than GPS_EPSILON in either coordinate
Near(p, q) ==
    /\ -GpsEpsilon < p[1] - q[1] /\ p[1] - q[1] < GpsEpsilon
    /\ -GpsEpsilon < p[2] - q[2] /\ p[2] - q[2] < GpsEpsilon

\* a and b are three GPS_EPSILON apart in some coordinate
Apart(a, b) ==
    \/ Lat[a] - Lat[b] >= 3 * GpsEpsilon \/ Lat[b] - Lat[a] >= 3 * GpsEpsilon
    \/ Lon[a] - Lon[b] >= 3 * GpsEpsilon \/ Lon[b] - Lon[a] >= 3 * GpsEpsilon

Readings == [place : Int \X Int, currentState : {"driving", "parked", "charging"}, age : Nat]

ASSUME FleetAssumption ==
    /\ HomeNode \in [Vehicles -> Nodes]
    /\ BusLoop \in [Vehicles -> Seq(Nodes)]
    /\ BatteryLevel \in [Vehicles -> 0..100]
    /\ LegUnits \in Nat \ {0}
    /\ Paces \in [Vehicles -> SUBSET (1..LegUnits) \ {{}}]
    /\ GpsEpsilon \in Nat \ {0}
    /\ \A a, b \in Nodes : a # b => Apart(a, b)
    /\ Heartbeat \in Nat \ {0}
    /\ NoReading \notin Readings

VARIABLES
    nodeId,        \* [v]  the landmark v was at last
    route,         \* [v]  landmarks it still has to go to
    edgeProgress,  \* [v]  steps gone since nodeId
    place,         \* [v]  lat, lon
    currentState,  \* [v]
    busLoopIdx,    \* [v]
    lastSent,      \* [v]  what the filter forwarded last, and how long ago
    standing       \* [v]  history: for how many ticks v has not driven, counted
                   \*      up to a heartbeat

fleetVars == <<nodeId, route, edgeProgress, place, currentState, busLoopIdx, lastSent,
               standing>>

FleetTypeOK ==
    /\ nodeId \in [Vehicles -> Nodes]
    /\ route \in [Vehicles -> Seq(Nodes)]
    /\ edgeProgress \in [Vehicles -> 0..LegUnits-1]
    /\ place \in [Vehicles -> Int \X Int]
    /\ currentState \in [Vehicles -> {"driving", "parked", "charging"}]
    /\ \A v \in Vehicles : busLoopIdx[v] \in 1..Len(BusLoop[v]) \/ BusLoop[v] = << >>
    /\ lastSent \in [Vehicles -> Readings \union {NoReading}]
    /\ standing \in [Vehicles -> 0..Heartbeat]

\* The fleet of a flow without context: at home, nothing sent
AtHome ==
    [nodeId |-> HomeNode,
     route |-> [v \in Vehicles |-> << >>],
     edgeProgress |-> [v \in Vehicles |-> 0],
     place |-> [v \in Vehicles |-> At(HomeNode[v])],
     currentState |-> [v \in Vehicles |-> IF BusLoop[v] = << >> THEN "parked" ELSE "driving"],
     busLoopIdx |-> [v \in Vehicles |-> 1],
     lastSent |-> [v \in Vehicles |-> NoReading],
     standing |-> [v \in Vehicles |-> 0]]

FleetInit ==
    /\ nodeId = AtHome.nodeId
    /\ route = AtHome.route
    /\ edgeProgress = AtHome.edgeProgress
    /\ place = AtHome.place
    /\ currentState = AtHome.currentState
    /\ busLoopIdx = AtHome.busLoopIdx
    /\ lastSent = AtHome.lastSent
    /\ standing = AtHome.standing

-----------------------------------------------------------------------------
(* The sensor simulator.                                                   *)

ToppedUp(v) == BusLoop[v] # << >> /\ route[v] = << >>

\* The next stop of the loop, skipping a hop of length zero
NextIdx(v) ==
    LET after(k) == (k % Len(BusLoop[v])) + 1
        next == after(busLoopIdx[v])
    IN  IF BusLoop[v][next] = nodeId[v] THEN after(next) ELSE next

\* The route with which the tick finds v
Legs(v) == IF ToppedUp(v) THEN <<BusLoop[v][NextIdx(v)]>> ELSE route[v]

Driving(v) == Legs(v) # << >>

\* How far each vehicle may go in a tick, at a random speed of its band
Drives == {pace \in [Vehicles -> 1..LegUnits] : \A v \in Vehicles : pace[v] \in Paces[v]}

Arriving(v, pace) == Driving(v) /\ edgeProgress[v] + pace[v] >= LegUnits

\* lat and lon on the straight line from landmark a to landmark b
Between(a, b, progress) ==
    <<Lat[a] + ((Lat[b] - Lat[a]) * progress) \div LegUnits,
      Lon[a] + ((Lon[b] - Lon[a]) * progress) \div LegUnits>>

Idle(v) == IF BatteryLevel[v] < 40 THEN "charging" ELSE "parked"

Move(pace) ==
    /\ busLoopIdx' = [v \in Vehicles |-> IF ToppedUp(v) THEN NextIdx(v) ELSE busLoopIdx[v]]
    /\ nodeId' = [v \in Vehicles |-> IF Arriving(v, pace) THEN Head(Legs(v)) ELSE nodeId[v]]
    /\ route' = [v \in Vehicles |-> IF Arriving(v, pace) THEN Tail(Legs(v)) ELSE Legs(v)]
    /\ edgeProgress' = [v \in Vehicles |->
          IF Arriving(v, pace) THEN 0
          ELSE IF Driving(v) THEN edgeProgress[v] + pace[v] ELSE edgeProgress[v]]
    /\ place' = [v \in Vehicles |->
          IF Driving(v) /\ ~Arriving(v, pace)
          THEN Between(nodeId[v], Head(Legs(v)), edgeProgress'[v])
          ELSE At(nodeId'[v])]
    /\ currentState' = [v \in Vehicles |->
          IF ~Driving(v) THEN Idle(v)
          ELSE IF Arriving(v, pace) /\ route'[v] = << >> /\ BusLoop[v] = << >> THEN "parked"
          ELSE "driving"]

Stationary(v) == currentState'[v] \in {"parked", "charging"}

\* Mutant: no heartbeat
SuppressedForever(v) ==
    /\ Stationary(v)
    /\ lastSent[v] # NoReading
    /\ Near(place'[v], lastSent[v].place)

\* The edge filter holds back what v reports after a tick
Suppressed(v) ==
    /\ Stationary(v)
    /\ lastSent[v] # NoReading
    /\ Near(place'[v], lastSent[v].place)
    /\ lastSent[v].age + 1 < Heartbeat

\* Mutant: lastSent is written for a suppressed reading, too
AgedAsSent(sent) == [sent EXCEPT !.age = 0]

\* The entry of a vehicle whose reading is held back
Aged(sent) == [sent EXCEPT !.age = @ + 1]

Filter == lastSent' = [v \in Vehicles |->
    IF Suppressed(v) THEN Aged(lastSent[v])
    ELSE [place |-> place'[v], currentState |-> currentState'[v], age |-> 0]]

Count == standing' = [v \in Vehicles |->
    IF ~Stationary(v) THEN 0
    ELSE IF standing[v] < Heartbeat THEN standing[v] + 1 ELSE standing[v]]

-----------------------------------------------------------------------------
(* The actuator.                                                           *)

\* Adopt a route, which starts from the landmark v was at last whatever way v
\* has gone since
Engage(v, path) ==
    /\ route' = [route EXCEPT ![v] =
                    IF path # << >> /\ Head(path) = nodeId[v] THEN Tail(path) ELSE path]
    /\ edgeProgress' = [edgeProgress EXCEPT ![v] = 0]
    /\ UNCHANGED <<nodeId, place, currentState, busLoopIdx, lastSent, standing>>

Disengage(v) ==
    /\ route' = [route EXCEPT ![v] = << >>]
    /\ currentState' = [currentState EXCEPT ![v] = "parked"]
    /\ UNCHANGED <<nodeId, edgeProgress, place, busLoopIdx, lastSent, standing>>

\* Node-RED restarts, with its context in memory
Reboot ==
    /\ nodeId' = AtHome.nodeId
    /\ route' = AtHome.route
    /\ edgeProgress' = AtHome.edgeProgress
    /\ place' = AtHome.place
    /\ currentState' = AtHome.currentState
    /\ busLoopIdx' = AtHome.busLoopIdx
    /\ lastSent' = AtHome.lastSent
    /\ standing' = AtHome.standing

-----------------------------------------------------------------------------
(* Properties of the fleet.                                                *)

(* The filter compares coordinates only, and roughly: a vehicle that has   *)
(* just arrived may be suppressed while its last reading says it is still  *)
(* driving, short of the landmark.  However stops, dispatches and restarts *)
(* fall between ticks, such a reading never makes dispatch-service take    *)
(* the vehicle to be at another landmark than it is, and from a heartbeat  *)
(* after it came to rest what was forwarded last says where it stands and  *)
(* that it stands there.                                                   *)
SentIsCurrent == \A v \in Vehicles : lastSent[v] # NoReading =>
    /\ nearestNode(lastSent[v].place) = nearestNode(place[v])
    /\ standing[v] = Heartbeat =>
          lastSent[v].place = place[v] /\ lastSent[v].currentState # "driving"
=============================================================================
