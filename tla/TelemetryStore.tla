--------------------------- MODULE TelemetryStore ---------------------------
(***************************************************************************)
(* What the telemetry-service promises, without batches, receipts, retries *)
(* or instances.  Three collections of facts and the order between them:   *)
(*                                                                         *)
(*   current   the last-write-wins document of each vehicle                *)
(*   recorded  the packets that have a document in telemetry_history       *)
(*   acked     the packets whose queue message has been deleted            *)
(*                                                                         *)
(* The current document only moves to a packet at least as new, a packet   *)
(* is recorded only when the current document has caught up with it, and a *)
(* message is deleted only when its packet is recorded.                    *)
(***************************************************************************)
EXTENDS Integers

CONSTANTS Vehicles,      \* vehicleIDs
          Packets,       \* telemetry packets
          VehicleOf,     \* packet -> vehicleID
          TimestampOf,   \* packet -> edge timestamp
          NoPacket       \* "this vehicle has no document"

VARIABLES current, recorded, acked

storeVars == <<current, recorded, acked>>

\* q is a document at least as new as packet p
AtLeast(q, p) == q # NoPacket /\ TimestampOf[q] >= TimestampOf[p]

Init ==
    /\ current = [v \in Vehicles |-> NoPacket]
    /\ recorded = {}
    /\ acked = {}

Advance(p) ==
    /\ \/ current[VehicleOf[p]] = NoPacket
       \/ AtLeast(p, current[VehicleOf[p]])
    /\ current' = [current EXCEPT ![VehicleOf[p]] = p]
    /\ UNCHANGED <<recorded, acked>>

Record(p) ==
    /\ AtLeast(current[VehicleOf[p]], p)
    /\ recorded' = recorded \union {p}
    /\ UNCHANGED <<current, acked>>

Acknowledge(p) ==
    /\ p \in recorded
    /\ acked' = acked \union {p}
    /\ UNCHANGED <<current, recorded>>

Next == \E p \in Packets : Advance(p) \/ Record(p) \/ Acknowledge(p)

Spec == Init /\ [][Next]_storeVars
=============================================================================
