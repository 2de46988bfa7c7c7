----------------------------- MODULE MCDispatch -----------------------------
(* Small instances of Dispatch for TLC.                                    *)
EXTENDS Dispatch, TLC

CONSTANTS r1, r2, r3, sedan, van, bus

\* The seeded fleet
MCSeatsOf == [v \in Vehicles |-> CASE v = sedan -> 4 [] v = van -> 7 [] v = bus -> 40]

\* A party any taxi can seat, one that only the van can, and one that only the
\* bus could, whose list no booking invalidates
MCMixedParties == [r \in Requests |-> CASE r = r1 -> 1 [] r = r2 -> 5 [] r = r3 -> 8]

SmallParties == [r \in Requests |-> 1]

RequestSymmetry == Permutations(Requests)
=============================================================================
