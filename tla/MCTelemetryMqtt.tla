--------------------------- MODULE MCTelemetryMqtt ---------------------------
(* A small instance of TelemetryMqtt for TLC.                              *)
EXTENDS TelemetryMqtt

CONSTANTS i1, r1, r2, v1, v2, p1, p2, p3, stray

\* v1 changes its type between its readings p1 and p2; p3 is v2's, and stray
\* is a reading of v2 published under the topic of v1
MCVehicleOf == [p \in Packets |-> IF p \in {p1, p2} THEN v1 ELSE v2]
MCTopicVehicle == [m \in Messages |-> IF m = p3 THEN v2 ELSE v1]
MCTimestampOf == [p \in Packets |-> IF p = p1 THEN 1 ELSE 2]
MCVehicleTypeOf == [p \in Packets |-> IF p = p2 THEN "van" ELSE "sedan"]
=============================================================================
