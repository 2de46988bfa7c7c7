------------------------ MODULE DispatchLedgerProofs ------------------------
(***************************************************************************)
(* dispatch-service implements the ledger of FleetLedger: every step of    *)
(* the detailed system is one step of the ledger or leaves it alone, for   *)
(* any fleet, pool and number of requests and any bounds on faults.        *)
(***************************************************************************)
EXTENDS DispatchProofs

\* Everybody but r is where they were, with the answer they had
OthersStay(r) == \A s \in Requests : s # r => pc'[s] = pc[s] /\ response'[s] = response[s]

(* A step is invisible when it moves no answered request and touches       *)
(* neither the rides nor what has been commanded.                          *)
LEMMA Invisible ==
    ASSUME UNCHANGED <<primaryVars, commanded>>,
           \A s \in Requests : pc'[s] = "done" <=> pc[s] = "done",
           \A s \in Requests : pc[s] = "done" => response'[s] = response[s]
    PROVE  UNCHANGED Ledger!ledgerVars
BY DEF primaryVars, Ledger!ledgerVars

(* So is one that moves a request on to another await.                     *)
LEMMA GoesOn ==
    ASSUME UNCHANGED <<primaryVars, commanded>>, NEW r \in Requests, OthersStay(r),
           pc[r] # "done", pc'[r] # "done"
    PROVE  UNCHANGED Ledger!ledgerVars
BY Invisible DEF OthersStay

(* A request gets an answer that agrees with the rides.                    *)
LEMMA Answered ==
    ASSUME UNCHANGED <<primaryVars, commanded>>, NEW r \in Requests, OthersStay(r),
           pc[r] # "done", pc'[r] = "done",
           response'[r] \in Refusals \union {"assigned", "internal_error"},
           response'[r] = "assigned" => booking[r] # NoVehicle,
           response'[r] \in Refusals => booking[r] = NoVehicle
    PROVE  Ledger!Next
<1>1. [s \in Requests |-> IF pc'[s] = "done" THEN response'[s] ELSE "none"]
        = [[s \in Requests |-> IF pc[s] = "done" THEN response[s] ELSE "none"]
              EXCEPT ![r] = response'[r]]
  BY DEF OthersStay
<1>2. \E answer \in Refusals \union {"assigned", "internal_error"} : Ledger!Answer(r, answer)
  BY <1>1 DEF Ledger!Answer, primaryVars
<1> QED
  BY <1>2 DEF Ledger!Next

(* A COMMIT that takes effect is the booking, whether or not the request   *)
(* gets to know.  The row lock it holds says that the vehicle is free.     *)
LEMMA Books ==
    ASSUME DispatchAssumption, TypeOK, HasChosen, LockInv, AnswerInv, NEW r \in Requests,
           OthersStay(r), pc[r] = "commit", pc'[r] # "done", Committed(r), UNCHANGED commanded
    PROVE  Ledger!Next
<1> DEFINE v == chosen[r]
<1>1. v \in Vehicles
  BY DEF HasChosen, Deciding, InTransaction
<1>2. vehicleStatus[v] = "available" /\ booking[r] = NoVehicle
  BY <1>1 DEF LockInv, AnswerInv, Agrees, Unbooked
<1>3. {w \in Vehicles : vehicleStatus'[w] = "available"}
        = {w \in Vehicles : vehicleStatus[w] = "available"} \ {v}
  BY <1>1 DEF Committed, TypeOK
<1>4. {ride \in Requests \X Vehicles : ride[1] \in serving'[ride[2]]}
        = {ride \in Requests \X Vehicles : ride[1] \in serving[ride[2]]} \union {<<r, v>>}
  <2>1. \A s \in Requests, w \in Vehicles :
           s \in serving'[w] <=> s \in serving[w] \/ (s = r /\ w = v)
    BY <1>1 DEF Committed, TypeOK
  <2> QED
    BY <1>1, <2>1
<1>5. {s \in Requests : booking'[s] # NoVehicle} = {s \in Requests : booking[s] # NoVehicle} \union {r}
  BY <1>1 DEF Committed, TypeOK, DispatchAssumption
<1>6. [s \in Requests |-> IF pc'[s] = "done" THEN response'[s] ELSE "none"]
        = [s \in Requests |-> IF pc[s] = "done" THEN response[s] ELSE "none"]
  BY DEF OthersStay
<1>7. \E w \in Vehicles : Ledger!Book(r, w)
  BY <1>1, <1>2, <1>3, <1>4, <1>5, <1>6 DEF Ledger!Book
<1> QED
  BY <1>7 DEF Ledger!Next

(* The operator frees a vehicle.                                           *)
LEMMA Frees ==
    ASSUME TypeOK, NEW v \in Vehicles, OperatorReset(v)
    PROVE  Ledger!Next
<1>1. v \in Taxis /\ UNCHANGED <<booking, commanded, pc, response>>
  BY DEF OperatorReset, worldVars, requestVars
<1>2. {w \in Vehicles : vehicleStatus'[w] = "available"}
        = {w \in Vehicles : vehicleStatus[w] = "available"} \union {v}
  BY DEF OperatorReset, TypeOK
<1>3. {ride \in Requests \X Vehicles : ride[1] \in serving'[ride[2]]}
        = {ride \in {x \in Requests \X Vehicles : x[1] \in serving[x[2]]} : ride[2] # v}
  <2>1. \A s \in Requests, w \in Vehicles : s \in serving'[w] <=> s \in serving[w] /\ w # v
    BY DEF OperatorReset, TypeOK
  <2> QED
    BY <2>1
<1>4. Ledger!Free(v)
  BY <1>1, <1>2, <1>3 DEF Ledger!Free
<1> QED
  BY <1>4 DEF Ledger!Next

(* The process is gone: everybody who waits is disconnected.               *)
LEMMA Disconnects ==
    ASSUME TypeOK, Gone
    PROVE  Ledger!Next
<1> DEFINE broken == {r \in Requests : pc[r] \notin {"idle", "done"}}
           told == [r \in Requests |-> IF pc[r] = "done" THEN response[r] ELSE "none"]
<1>1. broken \in SUBSET {r \in Requests : told[r] = "none"}
  OBVIOUS
<1>2. [r \in Requests |-> IF pc'[r] = "done" THEN response'[r] ELSE "none"]
        = [r \in Requests |-> IF r \in broken THEN "reset" ELSE told[r]]
  BY DEF Gone
<1>3. UNCHANGED <<primaryVars, commanded>>
  BY DEF Gone
<1>4. Ledger!Disconnect
  BY <1>1, <1>2, <1>3 DEF Ledger!Disconnect, primaryVars
<1> QED
  BY <1>4 DEF Ledger!Next

-----------------------------------------------------------------------------

(* The choice of a vehicle, or the answer that there is none.              *)
LEMMA DecideMaps ==
    ASSUME TypeOK, AnswerInv, NEW r \in Requests, NEW found, pc[r] \in {"cache", "fill"},
           Decide(r, found), UNCHANGED <<primaryVars, commanded>>
    PROVE  [Ledger!Next]_Ledger!ledgerVars
<1>0. booking[r] = NoVehicle
  BY DEF AnswerInv, Agrees, Unbooked
<1>1. ASSUME NEW answer \in {"no_vehicle", "unreachable", "internal_error"}, Respond(r, answer)
      PROVE  [Ledger!Next]_Ledger!ledgerVars
  <2>1. OthersStay(r) /\ pc'[r] = "done" /\ response'[r] = answer
    BY <1>1 DEF TypeOK, Respond, GoTo, OthersStay
  <2> QED
    BY <1>0, <2>1, Answered DEF Refusals
<1>2. CASE GoTo(r, "connect") /\ UNCHANGED response
  <2>1. OthersStay(r) /\ pc'[r] = "connect"
    BY <1>2 DEF TypeOK, GoTo, OthersStay
  <2> QED
    BY <2>1, GoesOn
<1> QED
  BY <1>1, <1>2 DEF Decide

(* The steps of a request.                                                 *)
LEMMA RideMaps ==
    ASSUME DispatchAssumption, TypeOK, HasChosen, LockInv, AnswerInv,
           NEW r \in Requests, HandleRide(r)
    PROVE  [Ledger!Next]_Ledger!ledgerVars
<1> USE DEF At, worldVars
<1>0. Agrees(r)
  BY DEF AnswerInv
<1>1. CASE Submit(r)
  <2>1. OthersStay(r) /\ pc[r] # "done" /\ pc'[r] # "done" /\ UNCHANGED <<primaryVars, commanded>>
    BY <1>1 DEF TypeOK, Submit, GoTo, OthersStay
  <2> QED
    BY <2>1, GoesOn
<1>2. CASE Retry(r)
  <2>1. /\ OthersStay(r) /\ pc[r] = "done" /\ pc'[r] = "user" /\ response[r] = "just_taken"
        /\ UNCHANGED <<primaryVars, commanded>>
    BY <1>2 DEF TypeOK, Retry, GoTo, OthersStay
  <2>2. [s \in Requests |-> IF pc'[s] = "done" THEN response'[s] ELSE "none"]
          = [[s \in Requests |-> IF pc[s] = "done" THEN response[s] ELSE "none"] EXCEPT ![r] = "none"]
    BY <2>1 DEF OthersStay
  <2>3. Ledger!AskAgain(r)
    BY <2>1, <2>2 DEF Ledger!AskAgain, primaryVars
  <2> QED
    BY <2>3 DEF Ledger!Next
<1>3. CASE UserExists(r)
  <2>1. UNCHANGED <<primaryVars, commanded>> /\ pc[r] = "user" /\ booking[r] = NoVehicle
    BY <1>0, <1>3 DEF UserExists, Agrees, Unbooked
  <2>2. CASE GoTo(r, "cache") /\ UNCHANGED response
    <3>1. OthersStay(r) /\ pc'[r] = "cache"
      BY <2>2 DEF TypeOK, GoTo, OthersStay
    <3> QED
      BY <2>1, <3>1, GoesOn
  <2>3. CASE Respond(r, "unknown_user")
    <3>1. OthersStay(r) /\ pc'[r] = "done" /\ response'[r] = "unknown_user"
      BY <2>3 DEF TypeOK, Respond, GoTo, OthersStay
    <3> QED
      BY <2>1, <3>1, Answered DEF Refusals
  <2> QED
    BY <1>3, <2>2, <2>3 DEF UserExists
<1>4. CASE CacheHit(r)
  BY <1>4, DecideMaps DEF CacheHit
<1>5. CASE FillCache(r)
  BY <1>5, DecideMaps DEF FillCache
<1>6. CASE CacheMiss(r) \/ QueryVehicles(r) \/ FindPositions(r)
  <2>1. /\ OthersStay(r) /\ pc[r] # "done" /\ pc'[r] # "done"
        /\ UNCHANGED <<primaryVars, commanded>>
    BY <1>6 DEF TypeOK, CacheMiss, QueryVehicles, FindPositions, GoTo, OthersStay
  <2> QED
    BY <2>1, GoesOn
<1>7. CASE Connect(r) \/ Insert(r) \/ Invalidate(r)
  <2>1. /\ OthersStay(r) /\ pc[r] # "done" /\ pc'[r] # "done"
        /\ UNCHANGED <<primaryVars, commanded>>
    BY <1>7 DEF TypeOK, Connect, Insert, Invalidate, GoTo, OthersStay
  <2> QED
    BY <2>1, GoesOn
<1>8. CASE Update(r)
  <2>1. /\ OthersStay(r) /\ pc[r] # "done" /\ pc'[r] # "done"
        /\ UNCHANGED <<primaryVars, commanded>>
    BY <1>8 DEF TypeOK, Update, GoTo, OthersStay
  <2> QED
    BY <2>1, GoesOn
<1>9. CASE Commit(r)
  <2>1. /\ OthersStay(r) /\ pc[r] = "commit" /\ pc'[r] # "done" /\ Committed(r)
        /\ UNCHANGED commanded
    BY <1>9 DEF TypeOK, Commit, GoTo, OthersStay
  <2> QED
    BY <2>1, Books
<1>10. CASE Rollback(r)
  <2>1. /\ OthersStay(r) /\ pc[r] = "rollback" /\ pc'[r] = "done" /\ response' = response
        /\ UNCHANGED <<primaryVars, commanded>>
    BY <1>10 DEF TypeOK, Rollback, GoTo, OthersStay
  <2>2. /\ response[r] \in {"just_taken", "internal_error"}
        /\ response[r] = "just_taken" => booking[r] = NoVehicle
    BY <1>0, <2>1 DEF Agrees
  <2> QED
    BY <2>1, <2>2, Answered DEF Refusals
<1>11. CASE Publish(r)
  <2>1. /\ OthersStay(r) /\ pc[r] = "publish" /\ pc'[r] = "done" /\ response'[r] = "assigned"
        /\ UNCHANGED <<primaryVars, commanded>>
    BY <1>11 DEF TypeOK, Publish, Respond, GoTo, OthersStay
  <2>2. booking[r] # NoVehicle
    BY <1>0, <2>1 DEF Agrees, HasChosen, Deciding, DispatchAssumption
  <2> QED
    BY <2>1, <2>2, Answered DEF Refusals
<1> QED
  BY <1>1, <1>2, <1>3, <1>4, <1>5, <1>6, <1>7, <1>8, <1>9, <1>10, <1>11
  DEF HandleRide, FindVehicle, AssignTrip

(* What goes wrong for a request.                                          *)
LEMMA FailureMaps ==
    ASSUME DispatchAssumption, TypeOK, HasChosen, LockInv, AnswerInv,
           NEW r \in Requests, Failure(r)
    PROVE  [Ledger!Next]_Ledger!ledgerVars
<1> USE DEF At, worldVars
<1>1. CASE QueryFails(r) \/ StoreClosed(r)
  <2>1. /\ UNCHANGED <<primaryVars, commanded>> /\ Respond(r, "internal_error")
        /\ pc[r] # "done"
    BY <1>1 DEF QueryFails, CallFails, StoreClosed
  <2>2. OthersStay(r) /\ pc'[r] = "done" /\ response'[r] = "internal_error"
    BY <2>1 DEF TypeOK, Respond, GoTo, OthersStay
  <2> QED
    BY <2>1, <2>2, Answered DEF Refusals
<1>2. CASE StatementFails(r)
  <2>1. /\ OthersStay(r) /\ pc[r] # "done" /\ pc'[r] # "done"
        /\ UNCHANGED <<primaryVars, commanded>>
    BY <1>2 DEF TypeOK, StatementFails, GoTo, OthersStay
  <2> QED
    BY <2>1, GoesOn
<1>3. CASE CommitUnknown(r)
  <2>1. OthersStay(r) /\ pc[r] = "commit" /\ pc'[r] # "done" /\ UNCHANGED commanded
    BY <1>3 DEF TypeOK, CommitUnknown, GoTo, OthersStay
  <2>2. CASE Committed(r)
    BY <2>1, <2>2, Books
  <2>3. CASE UNCHANGED primaryVars
    BY <2>1, <2>3, GoesOn
  <2> QED
    BY <1>3, <2>2, <2>3 DEF CommitUnknown
<1>4. CASE LoseCommand(r)
  <2>1. UNCHANGED <<primaryVars, commanded, pc, response>>
    BY <1>4 DEF LoseCommand, requestVars
  <2> QED
    BY <2>1, Invisible
<1> QED
  BY <1>1, <1>2, <1>3, <1>4 DEF Failure

(* Every step of dispatch-service is a step of the ledger, or none.        *)
LEMMA LedgerStep ==
    ASSUME DispatchAssumption, TypeOK, HasChosen, LockInv, AnswerInv, [Next]_vars
    PROVE  [Ledger!Next]_Ledger!ledgerVars
<1>1. CASE \E r \in Requests : HandleRide(r) \/ Failure(r)
  BY <1>1, RideMaps, FailureMaps
<1>2. CASE \E r \in Requests : Deliver(r)
  <2> PICK r \in Requests : Deliver(r)
    BY <1>2
  <2>1. booking[r] # NoVehicle
    BY DEF Deliver, AnswerInv, Agrees, Taxis, DispatchAssumption
  <2>2. Ledger!Command(r)
    BY <2>1 DEF Deliver, requestVars, primaryVars, Ledger!Command
  <2> QED
    BY <2>2 DEF Ledger!Next
<1>3. CASE \E v \in Vehicles : OperatorReset(v)
  BY <1>3, Frees
<1>4. CASE Exit \/ Crash
  BY <1>4, Disconnects DEF Exit, Crash
<1>5. CASE Served \/ UNCHANGED vars
  <2>1. UNCHANGED <<primaryVars, commanded, pc, response>>
    BY <1>5 DEF Served, vars, requestVars, worldVars
  <2> QED
    BY <2>1, Invisible
<1>6. CASE (\E k \in Parties : Expire(k)) \/ Replay \/ (\E v \in Vehicles : Locate(v))
              \/ SigTerm \/ Restart
  <2>1. UNCHANGED <<primaryVars, commanded, pc, response>>
    BY <1>6 DEF Expire, Replay, Locate, SigTerm, Restart, requestVars, worldVars
  <2> QED
    BY <2>1, Invisible
<1> QED
  BY <1>1, <1>2, <1>3, <1>4, <1>5, <1>6 DEF Next, Environment

(* ImplementsLedger holds: cache, replica, pool, locks, transactions,      *)
(* unknown commits, crashes and restarts are invisible, and what is left   *)
(* is a ledger that books a free vehicle in one step.                      *)
THEOREM Implementation == Spec => ImplementsLedger
<1>1. Init => Ledger!Init
  <2> SUFFICES ASSUME Init
               PROVE  Ledger!Init
    OBVIOUS
  <2>1. {v \in Vehicles : vehicleStatus[v] = "available"} = Taxis
    BY DEF Init, SeedStatus, Taxis
  <2>2. {ride \in Requests \X Vehicles : ride[1] \in serving[ride[2]]} = {}
    BY DEF Init
  <2> QED
    BY <2>1, <2>2 DEF Init, Ledger!Init
<1>2. TypeOK /\ HasChosen /\ LockInv /\ AnswerInv /\ [Next]_vars
        => [Ledger!Next]_Ledger!ledgerVars
  BY DispatchAssumption, LedgerStep
<1> QED
  BY <1>1, <1>2, LocksAlways, AnswersAlways, PTL DEF Spec, ImplementsLedger, Ledger!Spec
=============================================================================
