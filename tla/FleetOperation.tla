---------------------------- MODULE FleetOperation ----------------------------
(***************************************************************************)
(* The loop that dispatch-service closes around the fleet: readings reach  *)
(* it late or never, it books a vehicle by the position it knows, and the  *)
(* command finds the vehicle where it is by then.  Bookings are atomic     *)
(* here (Dispatch has their steps).  So is the way of a reading through    *)
(* broker, services, database and cache: of what is on its way, only what  *)
(* was forwarded last counts, and it may arrive at any time or be lost.    *)
(***************************************************************************)
EXTENDS FleetSimulator

CONSTANTS FleetOrder,  \* the vehicles, in the order MongoDB returns them
          Seats,       \* [v]  passenger_seats
          NotForHire,  \* vehicles whose status is on_trip from the start
          Parties,     \* passengers of a request
          MaxRides,    \* bounds on rides, stop commands and restarts
          MaxStops,
          MaxReboots,
          Selections   \* calls of selectVehicle that SelectsBest is about:
                       \* candidates, pickup and party

ASSUME OperationAssumption ==
    /\ Seats \in [Vehicles -> Nat]
    /\ NotForHire \subseteq Vehicles
    /\ \A v \in Vehicles : BusLoop[v] # << >> => v \in NotForHire
    /\ FleetOrder \in Seq(Vehicles)
    /\ Parties \subseteq Nat
    /\ {MaxRides, MaxStops, MaxReboots} \subseteq Nat
    /\ \A call \in Selections :
          /\ NoVehicle \notin Range(call[1])
          /\ DOMAIN call[1] = 1..Len(call[1])
          /\ \A k \in DOMAIN call[1] : call[1][k].seats \in Nat
          /\ call[2] \in Nodes
          /\ call[3] \in Nat

VARIABLES
    onTrip,    \* vehicles whose status is on_trip
    underway,  \* vehicles whose reading forwarded last is on its way
    known,     \* [v]  the reading of v that dispatch-service has; it never
               \*      asks for those of vehicles not for hire
    commands,  \* dispatch commands published and not yet delivered
    errand,    \* [v]  the command v has accepted last
    rides, stopsSent, reboots

countVars == <<rides, stopsSent, reboots>>
vars == <<fleetVars, onTrip, underway, known, commands, errand, countVars>>

Idling(v) == route[v] = << >> /\ BusLoop[v] = << >> /\ place[v] = At(nodeId[v])

Init ==
    /\ FleetInit
    /\ onTrip = NotForHire
    /\ underway = {}
    /\ known = [v \in Vehicles |-> NoReading]
    /\ commands = {}
    /\ errand = [v \in Vehicles |-> NoVehicle]
    /\ rides = 0 /\ stopsSent = 0 /\ reboots = 0

-----------------------------------------------------------------------------

FleetTick ==
    /\ \E pace \in Drives : Move(pace)
    /\ Filter
    /\ Count
    /\ underway' = underway \union {v \in Vehicles \ NotForHire : ~Suppressed(v)}
    /\ UNCHANGED <<onTrip, known, commands, errand, countVars>>

Fact(reading) == [place |-> reading.place, currentState |-> reading.currentState]

\* The reading forwarded last comes through to dispatch-service ...
Learn(v) ==
    /\ v \in underway
    /\ underway' = underway \ {v}
    /\ known' = [known EXCEPT ![v] = Fact(lastSent[v])]
    /\ UNCHANGED <<fleetVars, onTrip, commands, errand, countVars>>

\* ... or is lost: QoS 0
Miss(v) ==
    /\ v \in underway
    /\ underway' = underway \ {v}
    /\ UNCHANGED <<fleetVars, onTrip, known, commands, errand, countVars>>

\* Mutant: the status is not asked for
EligibleAnyStatus(v, party) == Seats[v] >= party /\ known[v] # NoReading

\* WHERE status = 'available' AND passenger_seats >= $1, with a known position
Eligible(v, party) == v \notin onTrip /\ Seats[v] >= party /\ known[v] # NoReading

Candidates(party) ==
    LET candidate(v) == [vehicle |-> v, seats |-> Seats[v], place |-> known[v].place,
                         batteryLevel |-> BatteryLevel[v],
                         currentState |-> known[v].currentState]
        Listed(list, v) == IF Eligible(v, party) THEN Append(list, candidate(v)) ELSE list
    IN  FoldLeft(LAMBDA list, v : Listed(list, v), << >>, FleetOrder)

\* A command is sound when the vehicle stands at a landmark, dispatch-service
\* knows that place to within GPS_EPSILON, and no other command is on its way
Sound(v) ==
    /\ Idling(v)
    /\ Near(known[v].place, place[v])
    /\ \A c \in commands : c.vehicle # v

Ride(pickup, party) ==
    LET choice == selectVehicle(Candidates(party), pickup, party)
        v == choice.vehicle
    IN  /\ rides < MaxRides
        /\ choice # NoVehicle
        /\ rides' = rides + 1
        /\ onTrip' = onTrip \union {v}
        /\ commands' = commands \union
              {[vehicle |-> v, pickup |-> pickup, sound |-> Sound(v),
                path |-> PathOf[nearestNode(choice.place)][pickup]]}
        /\ UNCHANGED <<fleetVars, underway, known, errand, stopsSent, reboots>>

\* The actuator knows the fleet from the first tick on; a command that comes
\* before is answered with an error (Lose)
Booted(v) == lastSent[v] # NoReading

Deliver(c) ==
    /\ c \in commands
    /\ Booted(c.vehicle)
    /\ commands' = commands \ {c}
    /\ Engage(c.vehicle, c.path)
    /\ errand' = [errand EXCEPT ![c.vehicle] = c]
    /\ UNCHANGED <<onTrip, underway, known, countVars>>

\* QoS 0, or an unknown vehicle
Lose(c) ==
    /\ c \in commands
    /\ commands' = commands \ {c}
    /\ UNCHANGED <<fleetVars, onTrip, underway, known, errand, countVars>>

\* The commands of the vehicles vs are no longer sound
Spoiled(vs) == {[c EXCEPT !.sound = @ /\ c.vehicle \notin vs] : c \in commands}

\* The operator's UPDATE, at any time
Reset(v) ==
    /\ v \in onTrip \ NotForHire
    /\ onTrip' = onTrip \ {v}
    /\ commands' = Spoiled({v})
    /\ UNCHANGED <<fleetVars, underway, known, errand, countVars>>

\* The manual stop command
Stop(v) ==
    /\ stopsSent < MaxStops
    /\ Booted(v)
    /\ stopsSent' = stopsSent + 1
    /\ Disengage(v)
    /\ errand' = [errand EXCEPT ![v] = NoVehicle]
    /\ UNCHANGED <<onTrip, underway, known, commands, rides, reboots>>

FleetReboot ==
    /\ reboots < MaxReboots
    /\ reboots' = reboots + 1
    /\ Reboot
    /\ underway' = {}
    /\ commands' = Spoiled(Vehicles)
    /\ errand' = [v \in Vehicles |-> NoVehicle]
    /\ UNCHANGED <<onTrip, known, rides, stopsSent>>

Next ==
    \/ FleetTick
    \/ \E v \in Vehicles : Learn(v) \/ Miss(v) \/ Reset(v) \/ Stop(v)
    \/ \E pickup \in Nodes, party \in Parties : Ride(pickup, party)
    \/ \E c \in commands : Deliver(c) \/ Lose(c)
    \/ FleetReboot

Spec == Init /\ [][Next]_vars

\* The inject node ticks every second, and of the readings a standing vehicle
\* keeps sending some come through
Fairness == WF_vars(FleetTick) /\ \A v \in Vehicles : SF_vars(Learn(v))

FairSpec == Spec /\ Fairness

-----------------------------------------------------------------------------
(* Properties.                                                             *)

(* A sound command stays sound: until the operator or a restart            *)
(* interferes, no other booking moves the vehicle, so the command finds it *)
(* standing where its path starts; the vehicle then drives along roads     *)
(* only and its last leg ends at the pickup.                               *)
SoundRides ==
    /\ \A c \in commands : c.sound =>
          Idling(c.vehicle) /\ Head(c.path) = nodeId[c.vehicle]
    /\ \A v \in Vehicles : errand[v] # NoVehicle /\ errand[v].sound =>
          /\ Legal(<<nodeId[v]>> \o route[v])
          /\ Last(<<nodeId[v]>> \o route[v]) = errand[v].pickup

(* Whatever the candidates, select.js sends the first of those with the    *)
(* lowest score among those that reach the pickup, or nobody when none     *)
(* does.  No state enters into this, so it is evaluated in the initial one *)
(* only.                                                                   *)
SelectsBest == Init => \A call \in Selections :
    IsBest(selectVehicle(call[1], call[2], call[3]), call[1], call[2], call[3])

(* A vehicle that stands still, and that nobody commands or stops any      *)
(* more, becomes known where it stands, and as standing: suppressed and    *)
(* lost readings notwithstanding, because the heartbeat repeats them, and  *)
(* corrects an arrival that was suppressed.                                *)
ParkedIsFound == \A v \in Vehicles :
    v \notin NotForHire =>
       (<>[](route[v] = << >>)
          => <>[](/\ known[v] # NoReading
                  /\ known[v].place = At(nodeId[v]) /\ known[v].currentState # "driving"))
=============================================================================
