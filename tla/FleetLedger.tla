---------------------------- MODULE FleetLedger ----------------------------
(***************************************************************************)
(* What dispatch-service promises, without a cache, a replica, locks or    *)
(* transactions: a ledger in which a free vehicle is booked in one step,   *)
(* and answers and commands that agree with it.                            *)
(***************************************************************************)
CONSTANTS Requests, Vehicles,
          Taxis,       \* the vehicles that start out free
          Refusals     \* answers that say no vehicle was booked

VARIABLES
    free,       \* vehicles nobody rides
    riding,     \* <<request, vehicle>> pairs of the rides under way
    booked,     \* requests that were ever given a vehicle
    told,       \* [r]  the answer r got, or "none"
    commanded   \* requests whose vehicle was told to set out

ledgerVars == <<free, riding, booked, told, commanded>>

Init ==
    /\ free = Taxis
    /\ riding = {}
    /\ booked = {}
    /\ told = [r \in Requests |-> "none"]
    /\ commanded = {}

\* r gets v.  It cannot have been refused, and it gets one vehicle only.
Book(r, v) ==
    /\ v \in free
    /\ r \notin booked
    /\ told[r] = "none"
    /\ free' = free \ {v}
    /\ riding' = riding \union {<<r, v>>}
    /\ booked' = booked \union {r}
    /\ UNCHANGED <<told, commanded>>

\* The operator frees v, whoever rides it
Free(v) ==
    /\ v \in Taxis
    /\ free' = free \union {v}
    /\ riding' = {ride \in riding : ride[2] # v}
    /\ UNCHANGED <<booked, told, commanded>>

Answer(r, answer) ==
    /\ told[r] = "none"
    /\ answer = "assigned" => r \in booked
    /\ answer \in Refusals => r \notin booked
    /\ told' = [told EXCEPT ![r] = answer]
    /\ UNCHANGED <<free, riding, booked, commanded>>

AskAgain(r) ==
    /\ told[r] = "just_taken"
    /\ told' = [told EXCEPT ![r] = "none"]
    /\ UNCHANGED <<free, riding, booked, commanded>>

\* The connections of some unanswered requests break
Disconnect ==
    /\ \E broken \in SUBSET {r \in Requests : told[r] = "none"} :
          told' = [r \in Requests |-> IF r \in broken THEN "reset" ELSE told[r]]
    /\ UNCHANGED <<free, riding, booked, commanded>>

Command(r) ==
    /\ r \in booked
    /\ commanded' = commanded \union {r}
    /\ UNCHANGED <<free, riding, booked, told>>

Next ==
    \/ \E r \in Requests :
          \/ \E v \in Vehicles : Book(r, v)
          \/ \E answer \in Refusals \union {"assigned", "internal_error"} : Answer(r, answer)
          \/ AskAgain(r) \/ Command(r)
    \/ \E v \in Vehicles : Free(v)
    \/ Disconnect

Spec == Init /\ [][Next]_ledgerVars
=============================================================================
