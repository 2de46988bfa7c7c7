------------------------------- MODULE MCFleet -------------------------------
(* A small instance of FleetOperation for TLC.                             *)
EXTENDS FleetOperation

CONSTANTS sedan, bus, a, b, c, d

\* a and c are joined by way of b, but the straight line between them stays
\* closer to b than to its ends for half its length; no road leads to d.  After
\* four fifths of a leg to b, c or a, the landmark is within GpsEpsilon
MCLat == [n \in Nodes |-> IF n = a THEN 0 ELSE IF n = b THEN 10 ELSE IF n = c THEN 20 ELSE 50]
MCLon == [n \in Nodes |-> IF n = b THEN 5 ELSE 0]
MCPaces == [v \in Vehicles |-> IF v = sedan THEN {3, 4} ELSE {3}]
MCLandmarks == <<a, b, c, d>>

MCPathOf == [m \in Nodes |-> [n \in Nodes |->
    IF m = n THEN <<m>> ELSE IF d \in {m, n} THEN << >>
    ELSE IF b \in {m, n} THEN <<m, n>> ELSE <<m, b, n>>]]
MCCostKm == [m \in Nodes |-> [n \in Nodes |->
    IF MCPathOf[m][n] = << >> THEN 0 ELSE 5 * (Len(MCPathOf[m][n]) - 1)]]

\* The sedan is at home in a, the bus goes to and fro between b and c
MCFleetOrder == <<sedan, bus>>
MCHomeNode == [v \in Vehicles |-> IF v = sedan THEN a ELSE b]
MCBusLoop == [v \in Vehicles |-> IF v = bus THEN <<b, c>> ELSE << >>]
MCBatteryLevel == [v \in Vehicles |-> 90]
MCSeats == [v \in Vehicles |-> IF v = bus THEN 40 ELSE 4]

\* Lists of up to three candidates, at a, on the straight line, or at d
MCCandidates == {[seats |-> s, place |-> p, batteryLevel |-> x[1], currentState |-> x[2]] :
                    s \in {4, 7}, p \in {At(a), <<8, 0>>, At(d)},
                    x \in {<<15, "parked">>, <<30, "parked">>, <<50, "parked">>,
                           <<15, "charging">>, <<30, "charging">>}}
MCLists == {<< >>} \union {<<x>> : x \in MCCandidates}
           \union (MCCandidates \X MCCandidates)
           \union (MCCandidates \X MCCandidates \X MCCandidates)

MCSelections == MCLists \X {c} \X {1, 5}
=============================================================================
