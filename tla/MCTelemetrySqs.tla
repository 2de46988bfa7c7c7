--------------------------- MODULE MCTelemetrySqs ---------------------------
(* Small instances of TelemetrySqs for TLC.                                *)
EXTENDS TelemetrySqs, TLC

CONSTANTS i1, i2, v1, v2, p1, p2, p3, bad

\* p1 and p2 are two readings of v1, p3 is a reading of v2 taken when p1 was;
\* bad stands for a message of v1 the service cannot read
MCVehicleOf == [p \in Packets |-> IF p = p3 THEN v2 ELSE v1]
MCTimestampOf == [p \in Packets |-> IF p = p2 THEN 2 ELSE 1]

\* v1 is a sedan, v2 a van
MCVehicleTypeOf == [p \in Packets |-> MCVehicleOf[p]]

\* v1 changes its type between its two readings
MCMixedTypeOf == [p \in Packets |-> IF p = p2 THEN v2 ELSE v1]

InstanceSymmetry == Permutations(Instances)
=============================================================================
