--------------------------- MODULE DispatchProofs ---------------------------
(***************************************************************************)
(* Proofs about Dispatch, for any number of requests and vehicles.         *)
(***************************************************************************)
EXTENDS Dispatch, FiniteSetTheorems, TLAPS

-----------------------------------------------------------------------------
(* Types.  A COMMIT writes the row of the chosen vehicle into the WAL, so  *)
(* the types need the fact that there is one.                              *)

Deciding == {"connect", "publish"} \union InTransaction

HasChosen == \A r \in Requests : pc[r] \in Deciding => chosen[r] \in Vehicles

LEMMA Bounds == CacheableSeats \in Nat /\ MaxFaults \in Nat /\ MaxStops \in Nat /\ MaxResets \in Nat
BY DispatchAssumption DEF DispatchAssumption

WalEntries == [vehicle : Vehicles, status : {"available", "on_trip"}]

LEMMA WalAppend ==
    ASSUME wal \in Seq(WalEntries), NEW v \in Vehicles, NEW s \in {"available", "on_trip"}
    PROVE  Append(wal, [vehicle |-> v, status |-> s]) \in Seq(WalEntries)
<1>1. [vehicle |-> v, status |-> s] \in WalEntries
  BY DEF WalEntries
<1> QED
  BY <1>1

\* Entering a set of vehicles under a key of the cache
LEMMA CacheEntry ==
    ASSUME cache \in [Parties -> (SUBSET Vehicles) \union {NoEntry}], NEW r \in Requests,
           NEW found \in SUBSET Vehicles
    PROVE  [cache EXCEPT ![CacheKey(r)] = found] \in [Parties -> (SUBSET Vehicles) \union {NoEntry}]
<1>1. CacheKey(r) \in Parties
  BY DEF CacheKey, Parties
<1> QED
  BY <1>1

LEMMA CacheHitType ==
    ASSUME cache \in [Parties -> (SUBSET Vehicles) \union {NoEntry}], NEW r \in Requests,
           cache[CacheKey(r)] # NoEntry
    PROVE  cache[CacheKey(r)] \in SUBSET Vehicles
<1>1. CacheKey(r) \in Parties
  BY DEF CacheKey, Parties
<1> QED
  BY <1>1

\* The steps of deciding on a set of vehicles
LEMMA DecideType ==
    ASSUME TypeOK, HasChosen, NEW r \in Requests, NEW found \in SUBSET Vehicles, Decide(r, found)
    PROVE  /\ pc' \in [Requests -> Awaits \union {"idle", "done"}]
           /\ chosen' \in [Requests -> Vehicles \union {NoVehicle}]
           /\ response' \in [Requests -> Responses]
           /\ HasChosen'
<1> USE DEF TypeOK, HasChosen, Respond, GoTo, Deciding, InTransaction, Awaits, Responses, Refusals
<1>1. ASSUME NEW answer \in {"no_vehicle", "unreachable", "internal_error"},
             Respond(r, answer), UNCHANGED chosen
      PROVE  /\ pc' \in [Requests -> Awaits \union {"idle", "done"}]
             /\ chosen' \in [Requests -> Vehicles \union {NoVehicle}]
             /\ response' \in [Requests -> Responses]
             /\ HasChosen'
  BY <1>1
<1>2. CASE (\E v \in found : chosen' = [chosen EXCEPT ![r] = v]) /\ GoTo(r, "connect") /\ UNCHANGED response
  <2> PICK v \in found : chosen' = [chosen EXCEPT ![r] = v]
    BY <1>2
  <2> QED
    BY <1>2
<1> QED
  BY <1>1, <1>2 DEF Decide

\* What a commit does to the types
LEMMA CommittedType ==
    ASSUME TypeOK, NEW r \in Requests, chosen[r] \in Vehicles, Committed(r)
    PROVE  /\ vehicleStatus' \in [Vehicles -> {"available", "on_trip"}]
           /\ serving' \in [Vehicles -> SUBSET Requests]
           /\ booking' \in [Requests -> Vehicles \union {NoVehicle}]
           /\ wal' \in Seq(WalEntries)
           /\ rowLock' \in [Vehicles -> SUBSET Requests]
<1>1. wal' \in Seq(WalEntries)
  <2>1. wal \in Seq(WalEntries)
    BY DEF TypeOK, WalEntries
  <2>2. Append(wal, [vehicle |-> chosen[r], status |-> "on_trip"]) \in Seq(WalEntries)
    BY <2>1, WalAppend
  <2> QED
    BY <2>1, <2>2 DEF Committed
<1>2. serving' \in [Vehicles -> SUBSET Requests]
  BY DEF TypeOK, Committed
<1>3. rowLock' \in [Vehicles -> SUBSET Requests]
  BY DEF TypeOK, Committed, Unlocked
<1> QED
  BY <1>1, <1>2, <1>3 DEF TypeOK, Committed

LEMMA InitType == Init => TypeOK /\ HasChosen
<1> SUFFICES ASSUME Init PROVE TypeOK /\ HasChosen
  OBVIOUS
<1>1. cache \in [Parties -> (SUBSET Vehicles) \union {NoEntry}]
  BY DEF Init
<1>2. serving \in [Vehicles -> SUBSET Requests] /\ rowLock \in [Vehicles -> SUBSET Requests]
  BY DEF Init
<1>3. wal \in Seq([vehicle : Vehicles, status : {"available", "on_trip"}])
  BY DEF Init
<1>4. faults \in 0..MaxFaults /\ stops \in 0..MaxStops /\ resets \in 0..MaxResets
  BY Bounds DEF Init
<1>5. HasChosen
  BY DEF Init, HasChosen, Deciding, InTransaction
<1>6. candidates \in [Requests -> SUBSET Vehicles] /\ leftovers \subseteq Parties \X Vehicles
  BY DEF Init
<1> QED
  BY <1>1, <1>2, <1>3, <1>4, <1>5, <1>6
  DEF Init, TypeOK, SeedStatus, Awaits, Responses

\* The pairs that become leftovers
LEMMA LeftoversType ==
    ASSUME TypeOK
    PROVE  /\ \A r \in Requests : chosen[r] \in Vehicles =>
                 Naming({chosen[r]}) \subseteq Parties \X Vehicles
           /\ \A r \in Requests, vs \in SUBSET Vehicles :
                 Refilled(CacheKey(r), vs) \subseteq Parties \X Vehicles
<1>1. \A r \in Requests : CacheKey(r) \in Parties
  BY DEF CacheKey, Parties
<1> QED
  BY <1>1 DEF TypeOK, Naming, Refilled

LEMMA GoneType ==
    ASSUME TypeOK, HasChosen, Gone, stops' \in 0..MaxStops
    PROVE  TypeOK' /\ HasChosen'
<1> DEFINE invalidating == {s \in Requests : pc[s] = "invalidate"}
           freed == {chosen[s] : s \in invalidating}
<1>1. freed \subseteq Vehicles
  BY DEF HasChosen, Deciding, InTransaction
<1>2. leftovers' = leftovers \union Naming(freed)
  BY DEF Gone
<1> HIDE DEF freed
<1>3. leftovers' \subseteq Parties \X Vehicles
  BY <1>1, <1>2 DEF Naming, TypeOK
<1>4. /\ pc' \in [Requests -> Awaits \union {"idle", "done"}]
      /\ response' \in [Requests -> Responses]
      /\ HasChosen'
  BY DEF Gone, TypeOK, HasChosen, Deciding, InTransaction, Awaits, Responses
<1> QED
  BY <1>3, <1>4 DEF Gone, TypeOK, primaryVars, replicaVars

LEMMA StepType == TypeOK /\ HasChosen /\ [Next]_vars => TypeOK' /\ HasChosen'
<1> SUFFICES ASSUME TypeOK, HasChosen, [Next]_vars
             PROVE  TypeOK' /\ HasChosen'
  OBVIOUS
<1> USE Bounds DEF TypeOK, HasChosen, Deciding, InTransaction, Awaits, Responses,
        Refusals, At, GoTo, Respond, primaryVars, replicaVars, worldVars, requestVars, boundVars
<1>1. ASSUME NEW r \in Requests, HandleRide(r) PROVE TypeOK' /\ HasChosen'
  <2>1. CASE Submit(r)
    BY <2>1 DEF Submit
  <2>2. CASE Retry(r)
    BY <2>2 DEF Retry
  <2>3. CASE UserExists(r)
    <3>1. CASE GoTo(r, "cache") /\ UNCHANGED response
      BY <2>3, <3>1 DEF UserExists
    <3>2. CASE Respond(r, "unknown_user")
      BY <2>3, <3>2 DEF UserExists
    <3> QED
      BY <2>3, <3>1, <3>2 DEF UserExists
  <2>4. CASE CacheHit(r)
    <3> DEFINE found == cache[CacheKey(r)]
    <3>1. found \in SUBSET Vehicles
      BY <2>4, CacheHitType DEF CacheHit
    <3>2. Decide(r, found)
      BY <2>4 DEF CacheHit
    <3>3. candidates' \in [Requests -> SUBSET Vehicles]
      BY <2>4, <3>1 DEF CacheHit
    <3> HIDE DEF found
    <3>4. /\ pc' \in [Requests -> Awaits \union {"idle", "done"}]
          /\ chosen' \in [Requests -> Vehicles \union {NoVehicle}]
          /\ response' \in [Requests -> Responses]
          /\ HasChosen'
      BY <3>1, <3>2, DecideType
    <3> QED
      BY <2>4, <3>3, <3>4 DEF CacheHit
  <2>5. CASE CacheMiss(r)
    BY <2>5 DEF CacheMiss
  <2>6. CASE QueryVehicles(r)
    BY <2>6 DEF QueryVehicles, Seating
  <2>7. CASE FindPositions(r)
    BY <2>7 DEF FindPositions
  <2>8. CASE FillCache(r)
    <3>1. candidates[r] \in SUBSET Vehicles
      OBVIOUS
    <3>2. /\ pc' \in [Requests -> Awaits \union {"idle", "done"}]
          /\ chosen' \in [Requests -> Vehicles \union {NoVehicle}]
          /\ response' \in [Requests -> Responses]
          /\ HasChosen'
      BY <2>8, <3>1, DecideType DEF FillCache
    <3>3. cache' \in [Parties -> (SUBSET Vehicles) \union {NoEntry}]
      BY <2>8, <3>1, CacheEntry DEF FillCache
    <3>4. leftovers' \subseteq Parties \X Vehicles
      <4>1. Refilled(CacheKey(r), candidates[r]) \subseteq Parties \X Vehicles
        BY <3>1, LeftoversType
      <4> QED
        BY <2>8, <4>1 DEF FillCache
    <3> QED
      BY <2>8, <3>2, <3>3, <3>4 DEF FillCache
  <2>9. CASE Connect(r)
    BY <2>9 DEF Connect
  <2>10. CASE Update(r)
    <3>1. rowLock' \in [Vehicles -> SUBSET Requests]
      BY <2>10 DEF Update
    <3>2. pc' \in [Requests -> Awaits \union {"idle", "done"}] /\ response' \in [Requests -> Responses]
      BY <2>10 DEF Update
    <3>3. HasChosen'
      BY <2>10 DEF Update
    <3> QED
      BY <2>10, <3>1, <3>2, <3>3 DEF Update
  <2>11. CASE Insert(r)
    BY <2>11 DEF Insert
  <2>12. CASE Commit(r)
    <3>1. chosen[r] \in Vehicles
      BY <2>12 DEF Commit
    <3> QED
      BY <2>12, <3>1, CommittedType DEF Commit, WalEntries
  <2>13. CASE Rollback(r)
    BY <2>13 DEF Rollback, Unlocked
  <2>14. CASE Invalidate(r)
    <3>1. Invalidated \in [Parties -> (SUBSET Vehicles) \union {NoEntry}]
      BY DEF Invalidated
    <3>2. leftovers' \subseteq Parties \X Vehicles
      <4>1. Naming({chosen[r]}) \subseteq Parties \X Vehicles
        BY <2>14, LeftoversType DEF Invalidate
      <4> QED
        BY <2>14, <4>1 DEF Invalidate
    <3> QED
      BY <2>14, <3>1, <3>2 DEF Invalidate
  <2>15. CASE Publish(r)
    BY <2>15 DEF Publish
  <2> QED
    BY <1>1, <2>1, <2>2, <2>3, <2>4, <2>5, <2>6, <2>7, <2>8, <2>9, <2>10, <2>11, <2>12, <2>13,
       <2>14, <2>15 DEF HandleRide, FindVehicle, AssignTrip
<1>2. ASSUME NEW r \in Requests, Failure(r) PROVE TypeOK' /\ HasChosen'
  <2>1. CASE QueryFails(r)
    BY <2>1 DEF QueryFails, CallFails
  <2>2. CASE StoreClosed(r)
    BY <2>2 DEF StoreClosed
  <2>3. CASE StatementFails(r)
    BY <2>3 DEF StatementFails
  <2>4. CASE CommitUnknown(r)
    <3>1. chosen[r] \in Vehicles
      BY <2>4 DEF CommitUnknown
    <3>2. CASE Committed(r)
      <4>1. /\ vehicleStatus' \in [Vehicles -> {"available", "on_trip"}]
            /\ serving' \in [Vehicles -> SUBSET Requests]
            /\ booking' \in [Requests -> Vehicles \union {NoVehicle}]
            /\ wal' \in Seq(WalEntries)
            /\ rowLock' \in [Vehicles -> SUBSET Requests]
        BY <3>1, <3>2, CommittedType
      <4>2. HasChosen'
        BY <2>4 DEF CommitUnknown
      <4>3. /\ pc' \in [Requests -> Awaits \union {"idle", "done"}]
            /\ response' \in [Requests -> Responses]
            /\ faults' \in 0..MaxFaults
            /\ UNCHANGED <<replicaStatus, cache, located, outbox, commanded, process, clients,
                           candidates, chosen, stops, resets>>
        BY <2>4 DEF CommitUnknown
      <4>4. leftovers' \subseteq Parties \X Vehicles
        <5>1. Naming({chosen[r]}) \subseteq Parties \X Vehicles
          BY <3>1, LeftoversType
        <5>2. leftovers' \in {leftovers, leftovers \union Naming({chosen[r]})}
          BY <2>4 DEF CommitUnknown
        <5> QED
          BY <5>1, <5>2
      <4> QED
        BY <4>1, <4>2, <4>3, <4>4 DEF WalEntries
    <3>3. CASE UNCHANGED <<primaryVars, wal, rowLock, leftovers>>
      BY <2>4, <3>3 DEF CommitUnknown
    <3> QED
      BY <2>4, <3>2, <3>3 DEF CommitUnknown
  <2>5. CASE LoseCommand(r)
    BY <2>5 DEF LoseCommand
  <2> QED
    BY <1>2, <2>1, <2>2, <2>3, <2>4, <2>5 DEF Failure
<1>3. ASSUME NEW r \in Requests, Deliver(r) PROVE TypeOK' /\ HasChosen'
  BY <1>3 DEF Deliver
<1>4. CASE Environment
  <2>1. ASSUME NEW k \in Parties, Expire(k) PROVE TypeOK' /\ HasChosen'
    <3>1. cache' \in [Parties -> (SUBSET Vehicles) \union {NoEntry}]
      BY <2>1 DEF Expire
    <3> QED
      BY <2>1, <3>1 DEF Expire
  <2>2. CASE Replay
    <3>1. wal \in Seq(WalEntries) /\ wal # <<>>
      BY <2>2 DEF Replay, WalEntries
    <3>2. Head(wal) \in WalEntries /\ Tail(wal) \in Seq(WalEntries)
      BY <3>1
    <3> QED
      BY <2>2, <3>2 DEF Replay, WalEntries
  <2>3. ASSUME NEW v \in Vehicles, Locate(v) PROVE TypeOK' /\ HasChosen'
    BY <2>3 DEF Locate
  <2>4. ASSUME NEW v \in Vehicles, OperatorReset(v) PROVE TypeOK' /\ HasChosen'
    <3>1. wal \in Seq(WalEntries)
      BY DEF WalEntries
    <3>2. Append(wal, [vehicle |-> v, status |-> "available"]) \in Seq(WalEntries)
      BY <3>1, WalAppend
    <3>3. wal' \in Seq(WalEntries)
      BY <2>4, <3>1, <3>2 DEF OperatorReset
    <3>4. serving' \in [Vehicles -> SUBSET Requests]
      BY <2>4 DEF OperatorReset
    <3> QED
      BY <2>4, <3>3, <3>4 DEF OperatorReset, WalEntries
  <2>5. CASE SigTerm
    BY <2>5 DEF SigTerm
  <2>6. CASE Exit
    BY <2>6, GoneType DEF Exit
  <2>7. CASE Crash
    BY <2>7, GoneType DEF Crash
  <2>8. CASE Restart
    BY <2>8 DEF Restart
  <2> QED
    BY <1>4, <2>1, <2>2, <2>3, <2>4, <2>5, <2>6, <2>7, <2>8 DEF Environment
<1>5. CASE Served
  BY <1>5 DEF Served, vars
<1>6. CASE UNCHANGED vars
  BY <1>6 DEF vars
<1> QED
  BY <1>1, <1>2, <1>3, <1>4, <1>5, <1>6 DEF Next

(* Type correctness of the dispatch-service.                               *)
THEOREM TypeCorrect == Spec => []TypeOK
<1>1. Spec => [](TypeOK /\ HasChosen)
  BY InitType, StepType, PTL DEF Spec
<1> QED
  BY <1>1, PTL

-----------------------------------------------------------------------------
(* Seats: every list, cached or not, names taxis that seat the party it    *)
(* was made for, and the bus is on a trip wherever one looks.              *)

Seatable(party) == {v \in Taxis : SeatsOf[v] >= party}

SeatInv ==
    /\ \A v \in Bus : vehicleStatus[v] = "on_trip" /\ replicaStatus[v] = "on_trip"
    /\ wal \in Seq([vehicle : Taxis, status : {"available", "on_trip"}])
    /\ \A r \in Requests : candidates[r] \subseteq Seatable(PartyOf[r])
    /\ \A k \in Parties : cache[k] # NoEntry => cache[k] \subseteq Seatable(k)
    /\ \A r \in Requests : pc[r] \in Deciding => chosen[r] \in Seatable(PartyOf[r])

LEMMA InitSeats == Init => SeatInv
<1> SUFFICES ASSUME Init PROVE SeatInv
  OBVIOUS
<1>1. \A v \in Bus : vehicleStatus[v] = "on_trip" /\ replicaStatus[v] = "on_trip"
  BY DispatchAssumption DEF DispatchAssumption, Init, SeedStatus
<1>2. wal \in Seq([vehicle : Taxis, status : {"available", "on_trip"}])
  BY DEF Init
<1> QED
  BY <1>1, <1>2 DEF Init, SeatInv, Deciding, InTransaction

\* Which steps a request at a given await can take decides what it was given
LEMMA DecideSeats ==
    ASSUME TypeOK, SeatInv, NEW r \in Requests, NEW found \in SUBSET Seatable(PartyOf[r]),
           Decide(r, found)
    PROVE  \A s \in Requests : pc'[s] \in Deciding => chosen'[s] \in Seatable(PartyOf[s])
<1>1. ASSUME NEW answer \in {"no_vehicle", "unreachable", "internal_error"},
             Respond(r, answer), UNCHANGED chosen
      PROVE  \A s \in Requests : pc'[s] \in Deciding => chosen'[s] \in Seatable(PartyOf[s])
  BY <1>1 DEF TypeOK, SeatInv, Respond, GoTo, Deciding, InTransaction
<1>2. CASE (\E v \in found : chosen' = [chosen EXCEPT ![r] = v]) /\ GoTo(r, "connect") /\ UNCHANGED response
  <2> PICK v \in found : chosen' = [chosen EXCEPT ![r] = v]
    BY <1>2
  <2> QED
    BY <1>2 DEF TypeOK, SeatInv, GoTo
<1> QED
  BY <1>1, <1>2 DEF Decide

LEMMA SeatingSeats == TypeOK /\ SeatInv => \A n \in Nat : Seating(n) \subseteq Seatable(n)
BY DEF TypeOK, SeatInv, Seating, ReadStatus, Seatable, Taxis

LEMMA CommittedSeats ==
    ASSUME TypeOK, SeatInv, NEW r \in Requests, chosen[r] \in Taxis, Committed(r)
    PROVE  /\ \A v \in Bus : vehicleStatus'[v] = "on_trip"
           /\ wal' \in Seq([vehicle : Taxis, status : {"available", "on_trip"}])
<1> DEFINE S == [vehicle : Taxis, status : {"available", "on_trip"}]
<1>1. \A v \in Bus : vehicleStatus'[v] = "on_trip"
  BY DispatchAssumption DEF DispatchAssumption, TypeOK, SeatInv, Committed
<1>2. wal \in Seq(S) /\ [vehicle |-> chosen[r], status |-> "on_trip"] \in S
  BY DEF SeatInv
<1>3. Append(wal, [vehicle |-> chosen[r], status |-> "on_trip"]) \in Seq(S)
  <2> HIDE DEF S
  <2> QED
    BY <1>2
<1> QED
  BY <1>1, <1>2, <1>3 DEF Committed

\* Steps that leave data, cache and lists alone and decide nothing
LEMMA SeatsUnchanged ==
    ASSUME SeatInv, UNCHANGED <<vehicleStatus, replicaStatus, wal, candidates, cache>>,
           \A s \in Requests : pc'[s] \in Deciding => pc[s] \in Deciding /\ chosen'[s] = chosen[s]
    PROVE  SeatInv'
BY DEF SeatInv

LEMMA StepSeats == TypeOK /\ SeatInv /\ [Next]_vars => SeatInv'
<1> SUFFICES ASSUME TypeOK, SeatInv, [Next]_vars PROVE SeatInv'
  OBVIOUS
<1>0. \A r \in Requests : PartyOf[r] \in Nat /\ PartyOf[r] \in Parties
  BY DispatchAssumption DEF DispatchAssumption, Parties
<1> USE DEF At, GoTo, Respond, primaryVars, replicaVars, worldVars, requestVars, boundVars
<1>1. ASSUME NEW r \in Requests, HandleRide(r) PROVE SeatInv'
  <2>1. CASE Submit(r)
    BY <2>1, SeatsUnchanged DEF TypeOK, Submit, Deciding, InTransaction
  <2>2. CASE Retry(r)
    <3>1. \A s \in Requests : candidates'[s] \subseteq Seatable(PartyOf[s])
      BY <2>2 DEF TypeOK, SeatInv, Retry
    <3>2. \A s \in Requests : pc'[s] \in Deciding => chosen'[s] \in Seatable(PartyOf[s])
      BY <2>2 DEF TypeOK, SeatInv, Retry, Deciding, InTransaction
    <3> QED
      BY <2>2, <3>1, <3>2 DEF SeatInv, Retry
  <2>3. CASE UserExists(r)
    BY <2>3, SeatsUnchanged DEF TypeOK, UserExists, Deciding, InTransaction
  <2>4. CASE CacheHit(r)
    <3>1. cache[CacheKey(r)] \in SUBSET Seatable(PartyOf[r])
      BY <1>0, <2>4 DEF CacheHit, CacheKey, SeatInv
    <3>2. \A s \in Requests : pc'[s] \in Deciding => chosen'[s] \in Seatable(PartyOf[s])
      BY <2>4, <3>1, DecideSeats DEF CacheHit
    <3>3. \A s \in Requests : candidates'[s] \subseteq Seatable(PartyOf[s])
      BY <2>4, <3>1 DEF TypeOK, SeatInv, CacheHit
    <3> QED
      BY <2>4, <3>2, <3>3 DEF SeatInv, CacheHit
  <2>5. CASE CacheMiss(r)
    BY <2>5, SeatsUnchanged DEF TypeOK, CacheMiss, Deciding, InTransaction
  <2>6. CASE QueryVehicles(r)
    <3>1. \A s \in Requests : candidates'[s] \subseteq Seatable(PartyOf[s])
      BY <1>0, <2>6, SeatingSeats DEF TypeOK, SeatInv, QueryVehicles
    <3>2. \A s \in Requests : pc'[s] \in Deciding => chosen'[s] \in Seatable(PartyOf[s])
      BY <2>6 DEF TypeOK, SeatInv, QueryVehicles, Deciding, InTransaction
    <3> QED
      BY <2>6, <3>1, <3>2 DEF SeatInv, QueryVehicles
  <2>7. CASE FindPositions(r)
    <3>1. \A s \in Requests : candidates'[s] \subseteq Seatable(PartyOf[s])
      BY <2>7 DEF TypeOK, SeatInv, FindPositions
    <3>2. \A s \in Requests : pc'[s] \in Deciding => chosen'[s] \in Seatable(PartyOf[s])
      BY <2>7 DEF TypeOK, SeatInv, FindPositions, Deciding, InTransaction
    <3> QED
      BY <2>7, <3>1, <3>2 DEF SeatInv, FindPositions
  <2>8. CASE FillCache(r)
    <3>1. candidates[r] \in SUBSET Seatable(PartyOf[r])
      BY DEF SeatInv
    <3>2. \A s \in Requests : pc'[s] \in Deciding => chosen'[s] \in Seatable(PartyOf[s])
      BY <2>8, <3>1, DecideSeats DEF FillCache
    <3>3. \A k \in Parties : cache'[k] # NoEntry => cache'[k] \subseteq Seatable(k)
      BY <2>8, <3>1 DEF TypeOK, SeatInv, FillCache, CacheKey
    <3> QED
      BY <2>8, <3>2, <3>3 DEF SeatInv, FillCache
  <2>9. CASE Connect(r)
    BY <2>9 DEF TypeOK, SeatInv, Connect, Deciding, InTransaction
  <2>10. CASE Update(r)
    BY <2>10, SeatsUnchanged DEF TypeOK, Update, Deciding, InTransaction
  <2>11. CASE Insert(r)
    BY <2>11, SeatsUnchanged DEF TypeOK, Insert, Deciding, InTransaction
  <2>12. CASE Commit(r)
    <3>1. chosen[r] \in Taxis
      BY <2>12 DEF SeatInv, Commit, Deciding, InTransaction, Seatable
    <3>2. \A s \in Requests : pc'[s] \in Deciding => chosen'[s] \in Seatable(PartyOf[s])
      BY <2>12 DEF TypeOK, SeatInv, Commit, Deciding, InTransaction
    <3> QED
      BY <2>12, <3>1, <3>2, CommittedSeats DEF SeatInv, Commit
  <2>13. CASE Rollback(r)
    BY <2>13, SeatsUnchanged DEF TypeOK, Rollback, Deciding, InTransaction
  <2>14. CASE Invalidate(r)
    <3>1. \A k \in Parties : cache'[k] # NoEntry => cache'[k] \subseteq Seatable(k)
      BY <2>14 DEF TypeOK, SeatInv, Invalidate, Invalidated
    <3>2. \A s \in Requests : pc'[s] \in Deciding => chosen'[s] \in Seatable(PartyOf[s])
      BY <2>14 DEF TypeOK, SeatInv, Invalidate, Deciding, InTransaction
    <3> QED
      BY <2>14, <3>1, <3>2 DEF SeatInv, Invalidate
  <2>15. CASE Publish(r)
    BY <2>15, SeatsUnchanged DEF TypeOK, Publish, Deciding, InTransaction
  <2> QED
    BY <1>1, <2>1, <2>2, <2>3, <2>4, <2>5, <2>6, <2>7, <2>8, <2>9, <2>10, <2>11, <2>12, <2>13,
       <2>14, <2>15 DEF HandleRide, FindVehicle, AssignTrip
<1>2. ASSUME NEW r \in Requests, Failure(r) PROVE SeatInv'
  <2>1. CASE QueryFails(r)
    BY <2>1, SeatsUnchanged DEF TypeOK, QueryFails, CallFails, Deciding, InTransaction
  <2>2. CASE StoreClosed(r)
    BY <2>2, SeatsUnchanged DEF TypeOK, StoreClosed, Deciding, InTransaction
  <2>3. CASE StatementFails(r)
    BY <2>3, SeatsUnchanged DEF TypeOK, StatementFails, Deciding, InTransaction
  <2>4. CASE CommitUnknown(r)
    <3>1. chosen[r] \in Taxis
      BY <2>4 DEF SeatInv, CommitUnknown, Deciding, InTransaction, Seatable
    <3>2. \A s \in Requests : pc'[s] \in Deciding => chosen'[s] \in Seatable(PartyOf[s])
      BY <2>4 DEF TypeOK, SeatInv, CommitUnknown, Deciding, InTransaction
    <3>3. /\ \A v \in Bus : vehicleStatus'[v] = "on_trip"
          /\ wal' \in Seq([vehicle : Taxis, status : {"available", "on_trip"}])
      BY <2>4, <3>1, CommittedSeats DEF SeatInv, CommitUnknown
    <3> QED
      BY <2>4, <3>2, <3>3 DEF SeatInv, CommitUnknown
  <2>5. CASE LoseCommand(r)
    BY <2>5, SeatsUnchanged DEF LoseCommand
  <2> QED
    BY <1>2, <2>1, <2>2, <2>3, <2>4, <2>5 DEF Failure
<1>3. ASSUME NEW r \in Requests, Deliver(r) PROVE SeatInv'
  BY <1>3, SeatsUnchanged DEF Deliver
<1>4. CASE Environment
  <2> DEFINE S == [vehicle : Taxis, status : {"available", "on_trip"}]
  <2>1. ASSUME NEW k \in Parties, Expire(k) PROVE SeatInv'
    BY <2>1 DEF TypeOK, SeatInv, Expire
  <2>2. CASE Replay
    <3>1. wal \in Seq(S) /\ wal # <<>>
      BY <2>2 DEF Replay, SeatInv
    <3>2. Head(wal) \in S /\ Tail(wal) \in Seq(S)
      <4> HIDE DEF S
      <4> QED
        BY <3>1
    <3>3. Head(wal).vehicle \in Taxis
      BY <3>2
    <3>4. \A v \in Bus : replicaStatus'[v] = "on_trip"
      BY <2>2, <3>3, DispatchAssumption DEF DispatchAssumption, Replay, TypeOK, SeatInv, Taxis
    <3> QED
      BY <2>2, <3>2, <3>4 DEF Replay, SeatInv
  <2>3. ASSUME NEW v \in Vehicles, Locate(v) PROVE SeatInv'
    BY <2>3, SeatsUnchanged DEF Locate
  <2>4. ASSUME NEW v \in Vehicles, OperatorReset(v) PROVE SeatInv'
    <3>1. wal \in Seq(S) /\ [vehicle |-> v, status |-> "available"] \in S
      BY <2>4 DEF OperatorReset, SeatInv
    <3>2. Append(wal, [vehicle |-> v, status |-> "available"]) \in Seq(S)
      <4> HIDE DEF S
      <4> QED
        BY <3>1
    <3>3. wal' \in Seq(S)
      BY <2>4, <3>1, <3>2 DEF OperatorReset
    <3>4. \A b \in Bus : vehicleStatus'[b] = "on_trip"
      BY <2>4, DispatchAssumption DEF DispatchAssumption, OperatorReset, TypeOK, SeatInv, Taxis
    <3> QED
      BY <2>4, <3>3, <3>4 DEF OperatorReset, SeatInv
  <2>5. CASE SigTerm
    BY <2>5, SeatsUnchanged DEF SigTerm
  <2>6. CASE Exit
    BY <2>6, SeatsUnchanged DEF Exit, Gone, Deciding, InTransaction
  <2>7. CASE Crash
    BY <2>7, SeatsUnchanged DEF Crash, Gone, Deciding, InTransaction
  <2>8. CASE Restart
    BY <2>8, SeatsUnchanged DEF Restart
  <2> QED
    BY <1>4, <2>1, <2>2, <2>3, <2>4, <2>5, <2>6, <2>7, <2>8 DEF Environment
<1>5. CASE Served \/ UNCHANGED vars
  BY <1>5, SeatsUnchanged DEF Served, vars
<1> QED
  BY <1>1, <1>2, <1>3, <1>4, <1>5 DEF Next

LEMMA SeatsAlways == Spec => [](TypeOK /\ HasChosen /\ SeatInv)
BY InitType, StepType, InitSeats, StepSeats, PTL DEF Spec

(* Where MAX_CACHEABLE_SEATS covers every taxi, as in the seeded fleet, a  *)
(* key that no DEL covers never names a vehicle.                           *)
THEOREM UncoveredKeys ==
    ASSUME \A v \in Taxis : SeatsOf[v] <= CacheableSeats
    PROVE  Spec => []UncoveredKeysEmpty
<1>1. TypeOK /\ HasChosen /\ SeatInv => UncoveredKeysEmpty
  <2> SUFFICES ASSUME SeatInv, NEW k \in Parties, k > CacheableSeats, cache[k] # NoEntry
               PROVE  cache[k] = {}
    BY DEF UncoveredKeysEmpty
  <2>1. k \in Nat /\ \A v \in Taxis : SeatsOf[v] \in Nat
    BY DispatchAssumption DEF DispatchAssumption, Parties, Taxis
  <2>2. Seatable(k) = {}
    BY <2>1, Bounds DEF Seatable
  <2> QED
    BY <2>2 DEF SeatInv
<1> QED
  BY <1>1, SeatsAlways, PTL

-----------------------------------------------------------------------------
(* Locks: beyond LocksAreOwned, a row has one lock at most, only the row   *)
(* of an available vehicle is locked, and a request keeps its lock until   *)
(* it commits.                                                             *)

LockInv ==
    /\ LocksAreOwned
    /\ IsFiniteSet(clients)
    /\ \A v \in Vehicles : \A r, s \in rowLock[v] : r = s
    /\ \A v \in Vehicles : rowLock[v] # {} => vehicleStatus[v] = "available"
    /\ \A r \in Requests : pc[r] \in {"insert", "commit"} => r \in rowLock[chosen[r]]

LEMMA InitLocks == Init => LockInv
<1> SUFFICES ASSUME Init PROVE LockInv
  OBVIOUS
<1>1. Cardinality({}) = 0 /\ IsFiniteSet({})
  BY FS_EmptySet
<1>2. 0 <= PoolSize
  BY DispatchAssumption DEF DispatchAssumption
<1> QED
  BY <1>1, <1>2 DEF Init, LockInv, LocksAreOwned, InTransaction

\* Requests outside assignTrip, and everything that is no request
LEMMA LocksUnchanged ==
    ASSUME TypeOK, LockInv, UNCHANGED <<rowLock, clients, vehicleStatus>>,
           \A s \in Requests : pc[s] \in InTransaction \/ pc'[s] \in InTransaction
                                  => pc'[s] = pc[s] /\ chosen'[s] = chosen[s]
    PROVE  LockInv'
<1>1. \A v \in Vehicles : rowLock[v] \subseteq Requests
  BY DEF TypeOK
<1>2. {"insert", "commit", "rollback"} \subseteq InTransaction
  BY DEF InTransaction
<1>3. LocksAreOwned'
  BY <1>1, <1>2 DEF LockInv, LocksAreOwned
<1> QED
  BY <1>2, <1>3 DEF LockInv

\* Requests inside assignTrip that move on with their client, without a commit
LEMMA LocksHeld ==
    ASSUME TypeOK, LockInv, UNCHANGED <<rowLock, clients, vehicleStatus, chosen>>,
           NEW r \in Requests, NEW await \in InTransaction, GoTo(r, await),
           pc[r] \in InTransaction,
           \A v \in Vehicles : r \in rowLock[v] => await \in {"insert", "commit", "rollback"},
           await \in {"insert", "commit"} => r \in rowLock[chosen[r]]
    PROVE  LockInv'
<1>1. \A v \in Vehicles : rowLock[v] \subseteq Requests
  BY DEF TypeOK
<1>2. clients' = {s \in Requests : pc'[s] \in InTransaction}
  BY DEF TypeOK, LockInv, LocksAreOwned, GoTo
<1>3. LocksAreOwned'
  BY <1>1, <1>2 DEF TypeOK, LockInv, LocksAreOwned, GoTo
<1> QED
  BY <1>3 DEF TypeOK, LockInv, GoTo

\* Requests that give their client back, and their lock with it
LEMMA LocksReleased ==
    ASSUME TypeOK, HasChosen, LockInv, UNCHANGED <<vehicleStatus, chosen>>,
           NEW r \in Requests, NEW await \in {"publish", "done"}, GoTo(r, await),
           rowLock' = Unlocked(r), clients' = clients \ {r}, r \in clients
    PROVE  LockInv'
<1>1. IsFiniteSet(clients') /\ Cardinality(clients') <= PoolSize
  <2>1. IsFiniteSet(clients') /\ Cardinality(clients') = Cardinality(clients) - 1
    BY FS_RemoveElement DEF LockInv
  <2>2. Cardinality(clients) \in Nat
    BY FS_CardinalityType DEF LockInv
  <2> QED
    BY <2>1, <2>2, DispatchAssumption DEF LockInv, LocksAreOwned, DispatchAssumption
<1>2. clients' = {s \in Requests : pc'[s] \in InTransaction}
  BY DEF TypeOK, LockInv, LocksAreOwned, GoTo, InTransaction
<1>3. \A v \in Vehicles : \A s \in rowLock'[v] : s \in rowLock[v] /\ s # r /\ s \in Requests
  BY DEF TypeOK, Unlocked
<1>4. LocksAreOwned'
  BY <1>1, <1>2, <1>3 DEF TypeOK, LockInv, LocksAreOwned, GoTo
<1>5. \A s \in Requests : pc'[s] \in {"insert", "commit"} => s \in rowLock'[chosen'[s]]
  <2> SUFFICES ASSUME NEW s \in Requests, pc'[s] \in {"insert", "commit"}
               PROVE  s \in rowLock'[chosen'[s]]
    OBVIOUS
  <2>1. s # r /\ pc'[s] = pc[s]
    BY DEF TypeOK, GoTo
  <2>2. s \in rowLock[chosen[s]]
    BY <2>1 DEF LockInv
  <2>3. chosen[s] \in Vehicles
    BY <2>1 DEF HasChosen, Deciding, InTransaction
  <2> QED
    BY <2>1, <2>2, <2>3 DEF Unlocked
<1> QED
  BY <1>1, <1>3, <1>4, <1>5 DEF LockInv

\* A commit, whatever the request then learns of it
LEMMA LocksCommitted ==
    ASSUME TypeOK, HasChosen, LockInv, UNCHANGED <<clients, chosen>>,
           NEW r \in Requests, pc[r] = "commit", Committed(r),
           NEW await \in {"invalidate", "rollback"}, GoTo(r, await)
    PROVE  LockInv'
<1>1. chosen[r] \in Vehicles /\ r \in rowLock[chosen[r]]
  BY DEF HasChosen, Deciding, InTransaction, LockInv
<1>2. \A v \in Vehicles : \A s \in rowLock'[v] : s \in rowLock[v] /\ s # r /\ s \in Requests
  BY DEF TypeOK, Committed, Unlocked
<1>3. rowLock'[chosen[r]] = {}
  BY <1>1, <1>2 DEF LockInv
<1>4. \A v \in Vehicles : v # chosen[r] => vehicleStatus'[v] = vehicleStatus[v]
  BY DEF TypeOK, Committed
<1>5. clients' = {s \in Requests : pc'[s] \in InTransaction}
  BY DEF TypeOK, LockInv, LocksAreOwned, GoTo, InTransaction
<1>6. LocksAreOwned'
  BY <1>2, <1>5 DEF TypeOK, LockInv, LocksAreOwned, GoTo
<1>7. \A s \in Requests : pc'[s] \in {"insert", "commit"} => s \in rowLock'[chosen'[s]]
  <2> SUFFICES ASSUME NEW s \in Requests, pc'[s] \in {"insert", "commit"}
               PROVE  s \in rowLock'[chosen'[s]]
    OBVIOUS
  <2>1. s # r /\ pc'[s] = pc[s]
    BY DEF TypeOK, GoTo
  <2>2. s \in rowLock[chosen[s]] /\ chosen[s] \in Vehicles
    BY <2>1 DEF LockInv, HasChosen, Deciding, InTransaction
  <2> QED
    BY <2>1, <2>2 DEF Committed, Unlocked
<1> QED
  BY <1>2, <1>3, <1>4, <1>6, <1>7 DEF LockInv

LEMMA LocksGone == TypeOK /\ LockInv /\ Gone => LockInv'
<1> SUFFICES ASSUME TypeOK, LockInv, Gone PROVE LockInv'
  OBVIOUS
<1>1. Cardinality({}) = 0 /\ IsFiniteSet({}) /\ 0 <= PoolSize
  BY FS_EmptySet, DispatchAssumption DEF DispatchAssumption
<1>2. \A r \in Requests : pc'[r] \in {"idle", "done"}
  BY DEF Gone
<1>3. \A v \in Vehicles : rowLock'[v] = {}
  BY DEF Gone
<1> QED
  BY <1>1, <1>2, <1>3 DEF Gone, LockInv, LocksAreOwned, InTransaction

LEMMA StepLocks == TypeOK /\ HasChosen /\ LockInv /\ [Next]_vars => LockInv'
<1> SUFFICES ASSUME TypeOK, HasChosen, LockInv, [Next]_vars PROVE LockInv'
  OBVIOUS
<1> USE DEF At, GoTo, Respond, primaryVars, replicaVars, worldVars, requestVars, boundVars
<1>1. ASSUME NEW r \in Requests, HandleRide(r) PROVE LockInv'
  <2>1. CASE Submit(r) \/ Retry(r)
    BY <2>1, LocksUnchanged DEF TypeOK, Submit, Retry, InTransaction
  <2>2. CASE UserExists(r) \/ CacheMiss(r)
    BY <2>2, LocksUnchanged DEF TypeOK, UserExists, CacheMiss, InTransaction
  <2>3. CASE QueryVehicles(r) \/ FindPositions(r)
    BY <2>3, LocksUnchanged DEF TypeOK, QueryVehicles, FindPositions, InTransaction
  <2>4. CASE CacheHit(r)
    BY <2>4, LocksUnchanged DEF TypeOK, CacheHit, Decide, InTransaction
  <2>5. CASE FillCache(r)
    BY <2>5, LocksUnchanged DEF TypeOK, FillCache, Decide, InTransaction
  <2>6. CASE Connect(r)
    <3>1. r \notin clients
      BY <2>6 DEF Connect, LockInv, LocksAreOwned, InTransaction
    <3>2. IsFiniteSet(clients') /\ Cardinality(clients') = Cardinality(clients) + 1
      BY <2>6, <3>1, FS_AddElement DEF Connect, LockInv
    <3>3. Cardinality(clients') <= PoolSize
      BY <2>6, <3>2, FS_CardinalityType, DispatchAssumption
      DEF Connect, ClientFree, LockInv, DispatchAssumption
    <3>4. clients' = {s \in Requests : pc'[s] \in InTransaction}
      BY <2>6 DEF TypeOK, Connect, LockInv, LocksAreOwned, InTransaction
    <3>5. \A v \in Vehicles : r \notin rowLock[v] /\ rowLock[v] \subseteq Requests
      BY <3>1 DEF TypeOK, LockInv, LocksAreOwned
    <3>6. LocksAreOwned'
      BY <2>6, <3>3, <3>4, <3>5 DEF TypeOK, Connect, LockInv, LocksAreOwned
    <3> QED
      BY <2>6, <3>2, <3>5, <3>6 DEF TypeOK, Connect, LockInv
  <2>7. CASE Update(r)
    <3>1. chosen[r] \in Vehicles /\ rowLock[chosen[r]] = {}
      BY <2>7 DEF Update, HasChosen, Deciding, InTransaction
    <3>2. \A v \in Vehicles : r \notin rowLock[v] /\ rowLock[v] \subseteq Requests
      BY <2>7 DEF TypeOK, Update, LockInv, LocksAreOwned
    <3>3. CASE GoTo(r, "rollback") /\ UNCHANGED rowLock
      <4>1. "rollback" \in InTransaction /\ pc[r] \in InTransaction
        BY <2>7 DEF Update, InTransaction
      <4> QED
        BY <2>7, <3>2, <3>3, <4>1, LocksHeld DEF Update
    <3>4. CASE /\ Updatable(chosen[r])
               /\ rowLock' = [rowLock EXCEPT ![chosen[r]] = @ \union {r}]
               /\ GoTo(r, "insert")
      <4>1. clients' = {s \in Requests : pc'[s] \in InTransaction}
        BY <2>7, <3>4 DEF TypeOK, Update, LockInv, LocksAreOwned, InTransaction
      <4>2. rowLock'[chosen[r]] = {r}
        BY <3>1, <3>4 DEF TypeOK
      <4>3. \A v \in Vehicles : v # chosen[r] => rowLock'[v] = rowLock[v]
        BY <3>4 DEF TypeOK
      <4>4. r \in clients' /\ pc'[r] = "insert"
        BY <2>7, <3>4, <4>1 DEF TypeOK, InTransaction
      <4>5. \A s \in Requests : s # r => pc'[s] = pc[s]
        BY <3>4 DEF TypeOK
      <4>6. UNCHANGED <<chosen, vehicleStatus, clients>>
        BY <2>7 DEF Update
      <4>7. LocksAreOwned'
        <5>1. ASSUME NEW v \in Vehicles, NEW q \in rowLock'[v]
              PROVE  q \in clients' /\ chosen'[q] = v /\ pc'[q] \in {"insert", "commit", "rollback"}
          <6>1. CASE v = chosen[r]
            BY <4>2, <4>4, <4>6, <5>1, <6>1
          <6>2. CASE v # chosen[r]
            BY <3>2, <4>3, <4>5, <4>6, <5>1, <6>2 DEF LockInv, LocksAreOwned
          <6> QED
            BY <6>1, <6>2
        <5> QED
          BY <4>1, <4>6, <5>1 DEF LockInv, LocksAreOwned
      <4>8. \A s \in Requests : pc'[s] \in {"insert", "commit"} => s \in rowLock'[chosen'[s]]
        <5> SUFFICES ASSUME NEW s \in Requests, pc'[s] \in {"insert", "commit"}, s # r
                     PROVE  s \in rowLock'[chosen[s]]
          BY <4>2, <4>6
        <5>1. s \in rowLock[chosen[s]] /\ chosen[s] \in Vehicles
          BY <4>5 DEF LockInv, HasChosen, Deciding, InTransaction
        <5> QED
          BY <3>1, <4>3, <5>1
      <4> QED
        BY <3>1, <3>4, <4>2, <4>3, <4>6, <4>7, <4>8 DEF LockInv, Updatable
    <3> QED
      BY <2>7, <3>3, <3>4 DEF Update
  <2>8. CASE Insert(r)
    <3>1. r \in rowLock[chosen[r]] /\ "commit" \in InTransaction /\ pc[r] \in InTransaction
      BY <2>8 DEF Insert, LockInv, InTransaction
    <3> QED
      BY <2>8, <3>1, LocksHeld DEF Insert
  <2>9. CASE Commit(r)
    BY <2>9, LocksCommitted DEF Commit
  <2>10. CASE Rollback(r)
    <3>1. r \in clients
      BY <2>10 DEF Rollback, LockInv, LocksAreOwned, InTransaction
    <3> QED
      BY <2>10, <3>1, LocksReleased DEF Rollback
  <2>11. CASE Invalidate(r)
    <3>1. r \in clients /\ \A v \in Vehicles : r \notin rowLock[v]
      BY <2>11 DEF TypeOK, Invalidate, LockInv, LocksAreOwned, InTransaction
    <3>2. rowLock' = Unlocked(r)
      BY <2>11, <3>1 DEF TypeOK, Invalidate, Unlocked
    <3> QED
      BY <2>11, <3>1, <3>2, LocksReleased DEF Invalidate
  <2>12. CASE Publish(r)
    BY <2>12, LocksUnchanged DEF TypeOK, Publish, InTransaction
  <2> QED
    BY <1>1, <2>1, <2>2, <2>3, <2>4, <2>5, <2>6, <2>7, <2>8, <2>9, <2>10, <2>11, <2>12
    DEF HandleRide, FindVehicle, AssignTrip
<1>2. ASSUME NEW r \in Requests, Failure(r) PROVE LockInv'
  <2>1. CASE QueryFails(r)
    BY <2>1, LocksUnchanged DEF TypeOK, QueryFails, CallFails, InTransaction
  <2>2. CASE StoreClosed(r)
    BY <2>2, LocksUnchanged DEF TypeOK, StoreClosed, InTransaction
  <2>3. CASE StatementFails(r)
    <3>1. "rollback" \in InTransaction /\ pc[r] \in InTransaction
      BY <2>3 DEF StatementFails, InTransaction
    <3> QED
      BY <2>3, <3>1, LocksHeld DEF StatementFails
  <2>4. CASE CommitUnknown(r)
    <3>1. CASE Committed(r)
      BY <2>4, <3>1, LocksCommitted DEF CommitUnknown
    <3>2. CASE UNCHANGED <<primaryVars, wal, rowLock, leftovers>>
      <4>1. "rollback" \in InTransaction /\ pc[r] \in InTransaction
        BY <2>4 DEF CommitUnknown, InTransaction
      <4> QED
        BY <2>4, <3>2, <4>1, LocksHeld DEF CommitUnknown
    <3> QED
      BY <2>4, <3>1, <3>2 DEF CommitUnknown
  <2>5. CASE LoseCommand(r)
    BY <2>5, LocksUnchanged DEF LoseCommand
  <2> QED
    BY <1>2, <2>1, <2>2, <2>3, <2>4, <2>5 DEF Failure
<1>3. ASSUME NEW r \in Requests, Deliver(r) PROVE LockInv'
  BY <1>3, LocksUnchanged DEF Deliver
<1>4. CASE Environment
  <2>1. ASSUME NEW k \in Parties, Expire(k) PROVE LockInv'
    BY <2>1, LocksUnchanged DEF Expire
  <2>2. CASE Replay
    BY <2>2, LocksUnchanged DEF Replay
  <2>3. ASSUME NEW v \in Vehicles, Locate(v) PROVE LockInv'
    BY <2>3, LocksUnchanged DEF Locate
  <2>4. ASSUME NEW v \in Vehicles, OperatorReset(v) PROVE LockInv'
    <3>1. \A u \in Vehicles : rowLock[u] # {} => vehicleStatus'[u] = "available"
      BY <2>4 DEF TypeOK, OperatorReset, LockInv
    <3> QED
      BY <2>4, <3>1 DEF OperatorReset, LockInv, LocksAreOwned
  <2>5. CASE SigTerm
    BY <2>5, LocksUnchanged DEF SigTerm
  <2>6. CASE Exit \/ Crash
    BY <2>6, LocksGone DEF Exit, Crash
  <2>7. CASE Restart
    BY <2>7, LocksUnchanged DEF Restart
  <2> QED
    BY <1>4, <2>1, <2>2, <2>3, <2>4, <2>5, <2>6, <2>7 DEF Environment
<1>5. CASE Served \/ UNCHANGED vars
  BY <1>5, LocksUnchanged DEF Served, vars
<1> QED
  BY <1>1, <1>2, <1>3, <1>4, <1>5 DEF Next

LEMMA LocksAlways == Spec => [](TypeOK /\ HasChosen /\ LockInv)
BY InitType, StepType, InitLocks, StepLocks, PTL DEF Spec

(* Locks and clients are owned, for pools of any size and any number of    *)
(* concurrent requests.                                                    *)
THEOREM OwnedLocks == Spec => []LocksAreOwned
<1>1. TypeOK /\ HasChosen /\ LockInv => LocksAreOwned
  BY DEF LockInv
<1> QED
  BY <1>1, LocksAlways, PTL

\* What the await of r waits for is there: a client of the pool, the row of the
\* vehicle, or nothing but the answer of a call.  These are the guards of the
\* steps of FindVehicle, AssignTrip and Publish, and of StoreClosed for a
\* connect on a pool that has ended.
CanGoOn(r) ==
    /\ pc[r] = "user" => ClientFree
    /\ pc[r] = "vehicles" => HasReplica \/ ClientFree
    /\ pc[r] = "connect" => ClientFree \/ process = "stopping"
    /\ pc[r] = "update" => rowLock[chosen[r]] = {}

\* While requests are being handled, one of them can go on
SomebodyGoesOn ==
    (\E r \in Requests : pc[r] \in Awaits) => \E r \in Requests : pc[r] \in Awaits /\ CanGoOn(r)

(* The requests that wait for a client or a row lock never wait on each    *)
(* other in a circle, for any pool and any number of requests: whoever     *)
(* waits for a row waits for a request that waits for neither, and when    *)
(* nobody is in a transaction the whole pool is free.                      *)
THEOREM NoCircularWait == Spec => []SomebodyGoesOn
<1>1. TypeOK /\ HasChosen /\ LockInv => SomebodyGoesOn
  <2> SUFFICES ASSUME TypeOK, HasChosen, LockInv, NEW r \in Requests, pc[r] \in Awaits
               PROVE  \E s \in Requests : pc[s] \in Awaits /\ CanGoOn(s)
    BY DEF SomebodyGoesOn
  <2>1. CASE \E s \in Requests : pc[s] \in {"insert", "commit", "rollback", "invalidate"}
    BY <2>1 DEF CanGoOn, Awaits, InTransaction
  <2>2. CASE \E s \in Requests : pc[s] = "update"
    <3>1. PICK s \in Requests : pc[s] = "update"
      BY <2>2
    <3>2. CASE rowLock[chosen[s]] = {}
      BY <3>1, <3>2 DEF CanGoOn, Awaits, InTransaction
    <3>3. CASE rowLock[chosen[s]] # {}
      <4>1. chosen[s] \in Vehicles
        BY <3>1 DEF HasChosen, Deciding, InTransaction
      <4>2. PICK owner \in rowLock[chosen[s]] : TRUE
        BY <3>3
      <4>3. owner \in Requests /\ pc[owner] \in {"insert", "commit", "rollback"}
        BY <4>1, <4>2 DEF LockInv, LocksAreOwned, TypeOK
      <4> QED
        BY <4>3, <2>1
    <3> QED
      BY <3>2, <3>3
  <2>3. CASE \A s \in Requests : pc[s] \notin InTransaction
    <3>1. clients = {}
      BY <2>3 DEF LockInv, LocksAreOwned
    <3>2. Cardinality(clients) = 0 /\ 0 < PoolSize
      BY <3>1, FS_EmptySet, DispatchAssumption DEF DispatchAssumption
    <3>3. ClientFree
      BY <3>2 DEF ClientFree
    <3>4. pc[r] # "update"
      BY <2>3 DEF InTransaction
    <3> QED
      BY <3>3, <3>4 DEF CanGoOn
  <2> QED
    BY <2>1, <2>2, <2>3 DEF InTransaction
<1> QED
  BY <1>1, LocksAlways, PTL

-----------------------------------------------------------------------------
(* The ledger: status and rides change together, in three ways only.       *)

LedgerInv ==
    /\ \A v \in Vehicles : vehicleStatus[v] = "available" => serving[v] = {}
    /\ BookedTogether
    /\ NoDoubleBooking

LEMMA LedgerSteps ==
    ASSUME [Next]_vars
    PROVE  \/ UNCHANGED primaryVars
           \/ \E r \in Requests : pc[r] = "commit" /\ Committed(r)
           \/ \E v \in Taxis : /\ vehicleStatus' = [vehicleStatus EXCEPT ![v] = "available"]
                               /\ serving' = [serving EXCEPT ![v] = {}]
                               /\ UNCHANGED booking
<1> USE DEF primaryVars
<1>1. ASSUME NEW r \in Requests, HandleRide(r)
      PROVE  UNCHANGED primaryVars \/ (pc[r] = "commit" /\ Committed(r))
  <2>1. ASSUME Submit(r) \/ Retry(r) \/ Publish(r) PROVE UNCHANGED primaryVars
    BY <2>1 DEF Submit, Retry, Publish
  <2>2. ASSUME FindVehicle(r) PROVE UNCHANGED primaryVars
    BY <2>2 DEF FindVehicle, UserExists, CacheHit, CacheMiss, QueryVehicles, FindPositions, FillCache
  <2>3. CASE Commit(r)
    BY <2>3 DEF Commit, At
  <2>4. ASSUME Connect(r) \/ Update(r) \/ Insert(r) \/ Rollback(r) \/ Invalidate(r)
        PROVE  UNCHANGED primaryVars
    BY <2>4 DEF Connect, Update, Insert, Rollback, Invalidate
  <2> QED
    BY <1>1, <2>1, <2>2, <2>3, <2>4 DEF HandleRide, AssignTrip
<1>2. ASSUME NEW r \in Requests, Failure(r)
      PROVE  UNCHANGED primaryVars \/ (pc[r] = "commit" /\ Committed(r))
  <2>1. ASSUME QueryFails(r) \/ StoreClosed(r) \/ StatementFails(r) \/ LoseCommand(r)
        PROVE  UNCHANGED primaryVars
    BY <2>1 DEF QueryFails, CallFails, StoreClosed, StatementFails, LoseCommand
  <2>2. CASE CommitUnknown(r)
    BY <2>2 DEF CommitUnknown, At
  <2> QED
    BY <1>2, <2>1, <2>2 DEF Failure
<1>3. ASSUME NEW r \in Requests, Deliver(r) PROVE UNCHANGED primaryVars
  BY <1>3 DEF Deliver
<1>4. ASSUME NEW v \in Vehicles, OperatorReset(v)
      PROVE  /\ v \in Taxis
             /\ vehicleStatus' = [vehicleStatus EXCEPT ![v] = "available"]
             /\ serving' = [serving EXCEPT ![v] = {}]
             /\ UNCHANGED booking
  BY <1>4 DEF OperatorReset
<1>5. CASE Environment /\ ~(\E v \in Vehicles : OperatorReset(v))
  BY <1>5 DEF Environment, Expire, Replay, Locate, SigTerm, Exit, Crash, Gone, Restart
<1>6. CASE Served \/ UNCHANGED vars
  BY <1>6 DEF Served, vars
<1> QED
  BY <1>1, <1>2, <1>3, <1>4, <1>5, <1>6 DEF Next, Environment

LEMMA InitLedger == Init => LedgerInv
BY DEF Init, SeedStatus, LedgerInv, BookedTogether, NoDoubleBooking, Taxis

\* The lock holder finds its vehicle available, hence without a ride
LEMMA StepLedger == TypeOK /\ HasChosen /\ LockInv /\ LedgerInv /\ [Next]_vars => LedgerInv'
<1> SUFFICES ASSUME TypeOK, HasChosen, LockInv, LedgerInv, [Next]_vars PROVE LedgerInv'
  OBVIOUS
<1>1. CASE UNCHANGED primaryVars
  BY <1>1 DEF primaryVars, LedgerInv, BookedTogether, NoDoubleBooking
<1>2. ASSUME NEW r \in Requests, pc[r] = "commit", Committed(r) PROVE LedgerInv'
  <2>1. chosen[r] \in Vehicles /\ vehicleStatus[chosen[r]] = "available"
    BY <1>2 DEF HasChosen, Deciding, InTransaction, LockInv
  <2>2. serving[chosen[r]] = {}
    BY <2>1 DEF LedgerInv
  <2>3. vehicleStatus'[chosen[r]] = "on_trip" /\ serving'[chosen[r]] = {r}
    BY <1>2, <2>1, <2>2 DEF TypeOK, Committed
  <2>4. \A v \in Vehicles : v # chosen[r] =>
           vehicleStatus'[v] = vehicleStatus[v] /\ serving'[v] = serving[v]
    BY <1>2 DEF TypeOK, Committed
  <2> QED
    BY <2>3, <2>4 DEF LedgerInv, BookedTogether, NoDoubleBooking, Taxis
<1>3. ASSUME NEW v \in Taxis, vehicleStatus' = [vehicleStatus EXCEPT ![v] = "available"],
             serving' = [serving EXCEPT ![v] = {}]
      PROVE  LedgerInv'
  <2>1. vehicleStatus'[v] = "available" /\ serving'[v] = {}
    BY <1>3 DEF TypeOK, Taxis
  <2>2. \A u \in Vehicles : u # v => vehicleStatus'[u] = vehicleStatus[u] /\ serving'[u] = serving[u]
    BY <1>3 DEF TypeOK
  <2> QED
    BY <2>1, <2>2 DEF LedgerInv, BookedTogether, NoDoubleBooking, Taxis
<1> QED
  BY <1>1, <1>2, <1>3, LedgerSteps

LEMMA LedgerAlways == Spec => [](TypeOK /\ HasChosen /\ LockInv /\ LedgerInv)
BY InitType, StepType, InitLocks, StepLocks, InitLedger, StepLedger, PTL DEF Spec

(* No vehicle is dispatched twice, whatever the cache and the replica say. *)
THEOREM OneRide == Spec => []NoDoubleBooking
<1>1. TypeOK /\ HasChosen /\ LockInv /\ LedgerInv => NoDoubleBooking
  BY DEF LedgerInv
<1> QED
  BY <1>1, LedgerAlways, PTL

(* The status flip and the ride land together.                             *)
THEOREM RideAndStatus == Spec => []BookedTogether
<1>1. TypeOK /\ HasChosen /\ LockInv /\ LedgerInv => BookedTogether
  BY DEF LedgerInv
<1> QED
  BY <1>1, LedgerAlways, PTL

-----------------------------------------------------------------------------
(* Answers and commands, followed through the awaits of a request.         *)

Unbooked == {"idle", "user", "cache", "vehicles", "positions", "fill", "connect", "update",
             "insert", "commit"}

Agrees(r) ==
    /\ pc[r] = "done" =>
          /\ response[r] = "assigned" =>
                booking[r] = chosen[r] /\ booking[r] \in Taxis /\ SeatsOf[booking[r]] >= PartyOf[r]
          /\ response[r] \in Refusals => booking[r] = NoVehicle
    /\ pc[r] \in Unbooked => booking[r] = NoVehicle
    /\ pc[r] \in {"invalidate", "publish"} => booking[r] = chosen[r]
    /\ pc[r] = "rollback" =>
          /\ response[r] \in {"just_taken", "internal_error"}
          /\ response[r] = "just_taken" => booking[r] = NoVehicle
    /\ r \in outbox \union commanded => pc[r] = "done" /\ response[r] = "assigned"

AnswerInv == \A r \in Requests : Agrees(r)

LEMMA InitAnswers == Init => AnswerInv
BY DEF Init, AnswerInv, Agrees, Unbooked, Refusals

\* A step of r is no business of s
LEMMA AgreesUnchanged ==
    ASSUME NEW s, Agrees(s), pc'[s] = pc[s], response'[s] = response[s], booking'[s] = booking[s],
           chosen'[s] = chosen[s],
           s \in outbox' \union commanded' => s \in outbox \union commanded
    PROVE  Agrees(s)'
BY DEF Agrees

\* A step that changes none of it
LEMMA AnswersUnchanged ==
    ASSUME AnswerInv, UNCHANGED <<pc, response, booking, chosen>>,
           outbox' \union commanded' \subseteq outbox \union commanded
    PROVE  AnswerInv'
BY AgreesUnchanged DEF AnswerInv

\* r moves on; only its own entries change
LEMMA AnswersMove ==
    ASSUME AnswerInv, NEW r \in Requests,
           \A s \in Requests : s # r =>
              /\ pc'[s] = pc[s] /\ response'[s] = response[s]
              /\ booking'[s] = booking[s] /\ chosen'[s] = chosen[s],
           outbox' \union commanded' \subseteq outbox \union commanded \union {r},
           Agrees(r)'
    PROVE  AnswerInv'
<1> SUFFICES ASSUME NEW s \in Requests, s # r PROVE Agrees(s)'
  BY DEF AnswerInv
<1> QED
  BY AgreesUnchanged DEF AnswerInv

\* r goes on to another await, or is answered, without a commit
LEMMA AnswersGoOn ==
    ASSUME TypeOK, AnswerInv, NEW r \in Requests, pc[r] \in Unbooked,
           NEW await \in (Unbooked \ {"idle"}) \union {"done", "rollback"}, GoTo(r, await),
           \A s \in Requests : s # r => response'[s] = response[s] /\ chosen'[s] = chosen[s],
           await \in {"done", "rollback"} => response'[r] \in Refusals \union {"internal_error"},
           await = "rollback" => response'[r] \in {"just_taken", "internal_error"},
           UNCHANGED <<booking, outbox, commanded>>
    PROVE  AnswerInv'
<1>1. Agrees(r)
  BY DEF AnswerInv
<1>2. pc'[r] = await /\ booking'[r] = NoVehicle /\ r \notin outbox' \union commanded'
  BY <1>1 DEF TypeOK, GoTo, Agrees, Unbooked
<1>3. \A s \in Requests : s # r => pc'[s] = pc[s]
  BY DEF TypeOK, GoTo
<1>4. Agrees(r)'
  BY <1>2 DEF Agrees, Unbooked, Refusals
<1> QED
  BY <1>3, <1>4, AnswersMove

LEMMA DecideAnswers ==
    ASSUME TypeOK, AnswerInv, NEW r \in Requests, NEW found, pc[r] \in Unbooked,
           Decide(r, found), UNCHANGED <<booking, outbox, commanded>>
    PROVE  AnswerInv'
<1>1. ASSUME NEW answer \in {"no_vehicle", "unreachable", "internal_error"},
             Respond(r, answer), UNCHANGED chosen
      PROVE  AnswerInv'
  BY <1>1, AnswersGoOn DEF TypeOK, Respond, Refusals, Unbooked
<1>2. CASE (\E v \in found : chosen' = [chosen EXCEPT ![r] = v]) /\ GoTo(r, "connect") /\ UNCHANGED response
  <2>1. \A s \in Requests : s # r => response'[s] = response[s] /\ chosen'[s] = chosen[s]
    BY <1>2 DEF TypeOK
  <2>2. "connect" \in Unbooked \ {"idle"}
    BY DEF Unbooked
  <2> QED
    BY <1>2, <2>1, <2>2, AnswersGoOn
<1> QED
  BY <1>1, <1>2 DEF Decide

LEMMA AnswersGone == TypeOK /\ AnswerInv /\ Gone => AnswerInv'
<1> SUFFICES ASSUME TypeOK, AnswerInv, Gone, NEW r \in Requests PROVE Agrees(r)'
  BY DEF AnswerInv
<1>1. Agrees(r)
  BY DEF AnswerInv
<1>2. UNCHANGED <<booking, chosen, commanded>> /\ outbox' = {}
  BY DEF Gone, primaryVars
<1>3. CASE pc[r] \in {"idle", "done"}
  <2>1. pc'[r] = pc[r] /\ response'[r] = response[r]
    BY <1>3 DEF Gone
  <2> QED
    BY <1>1, <1>2, <2>1, AgreesUnchanged
<1>4. CASE pc[r] \notin {"idle", "done"}
  <2>1. pc'[r] = "done" /\ response'[r] = "reset" /\ r \notin outbox' \union commanded'
    BY <1>1, <1>2, <1>4 DEF Gone, Agrees
  <2> QED
    BY <2>1 DEF Agrees, Unbooked, Refusals
<1> QED
  BY <1>3, <1>4

\* A commit, whatever the request then learns of it
LEMMA AnswersCommitted ==
    ASSUME TypeOK, HasChosen, AnswerInv, NEW r \in Requests, pc[r] = "commit", Committed(r),
           NEW await \in {"invalidate", "rollback"}, GoTo(r, await),
           await = "rollback" => response'[r] = "internal_error",
           \A s \in Requests : s # r => response'[s] = response[s],
           UNCHANGED <<chosen, outbox, commanded>>
    PROVE  AnswerInv'
<1>1. r \notin outbox \union commanded
  BY DEF AnswerInv, Agrees
<1>2. pc'[r] = await /\ booking'[r] = chosen[r]
  BY DEF TypeOK, GoTo, Committed
<1>3. \A s \in Requests : s # r => pc'[s] = pc[s] /\ booking'[s] = booking[s]
  BY DEF TypeOK, GoTo, Committed
<1>4. Agrees(r)'
  BY <1>1, <1>2 DEF Agrees, Unbooked
<1> QED
  BY <1>3, <1>4, AnswersMove

LEMMA StepAnswers == TypeOK /\ HasChosen /\ SeatInv /\ AnswerInv /\ [Next]_vars => AnswerInv'
<1> SUFFICES ASSUME TypeOK, HasChosen, SeatInv, AnswerInv, [Next]_vars PROVE AnswerInv'
  OBVIOUS
<1> USE DEF At, Respond, primaryVars, replicaVars, worldVars, requestVars, boundVars
<1>1. ASSUME NEW r \in Requests, HandleRide(r) PROVE AnswerInv'
  <2>0. Agrees(r)
    BY DEF AnswerInv
  <2>1. CASE Submit(r)
    BY <2>1, <2>0, AnswersMove DEF TypeOK, Submit, GoTo, Agrees, Unbooked
  <2>2. CASE Retry(r)
    <3>1. r \notin outbox' \union commanded' /\ booking'[r] = NoVehicle /\ pc'[r] = "user"
      BY <2>2, <2>0 DEF TypeOK, Retry, GoTo, Agrees, Refusals
    <3>2. \A s \in Requests : s # r =>
             /\ pc'[s] = pc[s] /\ response'[s] = response[s]
             /\ booking'[s] = booking[s] /\ chosen'[s] = chosen[s]
      BY <2>2 DEF TypeOK, Retry, GoTo
    <3>3. Agrees(r)'
      BY <3>1 DEF Agrees, Unbooked
    <3> QED
      BY <2>2, <3>2, <3>3, AnswersMove DEF Retry
  <2>3. CASE UserExists(r)
    <3>1. CASE GoTo(r, "cache") /\ UNCHANGED response
      BY <2>3, <3>1, AnswersGoOn DEF UserExists, Unbooked
    <3>2. CASE Respond(r, "unknown_user")
      BY <2>3, <3>2, AnswersGoOn DEF TypeOK, UserExists, Unbooked, Refusals
    <3> QED
      BY <2>3, <3>1, <3>2 DEF UserExists
  <2>4. CASE CacheHit(r)
    BY <2>4, DecideAnswers DEF CacheHit, Unbooked
  <2>5. CASE CacheMiss(r)
    BY <2>5, AnswersGoOn DEF CacheMiss, Unbooked
  <2>6. CASE QueryVehicles(r)
    <3>1. CASE GoTo(r, "fill")
      BY <2>6, <3>1, AnswersGoOn DEF QueryVehicles, Unbooked
    <3>2. CASE GoTo(r, "positions")
      BY <2>6, <3>2, AnswersGoOn DEF QueryVehicles, Unbooked
    <3> QED
      BY <2>6, <3>1, <3>2 DEF QueryVehicles
  <2>7. CASE FindPositions(r)
    BY <2>7, AnswersGoOn DEF FindPositions, Unbooked
  <2>8. CASE FillCache(r)
    BY <2>8, DecideAnswers DEF FillCache, Unbooked
  <2>9. CASE Connect(r)
    BY <2>9, AnswersGoOn DEF Connect, Unbooked
  <2>10. CASE Update(r)
    <3>1. CASE GoTo(r, "insert") /\ UNCHANGED response
      BY <2>10, <3>1, AnswersGoOn DEF Update, Unbooked
    <3>2. CASE GoTo(r, "rollback") /\ response' = [response EXCEPT ![r] = "just_taken"]
      BY <2>10, <3>2, AnswersGoOn DEF TypeOK, Update, Unbooked, Refusals
    <3> QED
      BY <2>10, <3>1, <3>2 DEF Update
  <2>11. CASE Insert(r)
    BY <2>11, AnswersGoOn DEF Insert, Unbooked
  <2>12. CASE Commit(r)
    BY <2>12, AnswersCommitted DEF Commit
  <2>13. CASE Rollback(r)
    <3>1. pc'[r] = "done" /\ \A s \in Requests : s # r => pc'[s] = pc[s]
      BY <2>13 DEF TypeOK, Rollback, GoTo
    <3>2. Agrees(r)'
      BY <2>13, <2>0, <3>1 DEF Rollback, Agrees, Unbooked, Refusals
    <3> QED
      BY <2>13, <3>1, <3>2, AnswersMove DEF Rollback
  <2>14. CASE Invalidate(r)
    <3>1. pc'[r] = "publish" /\ \A s \in Requests : s # r => pc'[s] = pc[s]
      BY <2>14 DEF TypeOK, Invalidate, GoTo
    <3>2. Agrees(r)'
      BY <2>14, <2>0, <3>1 DEF Invalidate, Agrees, Unbooked
    <3> QED
      BY <2>14, <3>1, <3>2, AnswersMove DEF Invalidate
  <2>15. CASE Publish(r)
    <3>1. pc'[r] = "done" /\ response'[r] = "assigned"
      BY <2>15 DEF TypeOK, Publish, GoTo
    <3>2. \A s \in Requests : s # r => pc'[s] = pc[s] /\ response'[s] = response[s]
      BY <2>15 DEF TypeOK, Publish, GoTo
    <3>3. booking[r] = chosen[r] /\ chosen[r] \in Taxis /\ SeatsOf[chosen[r]] >= PartyOf[r]
      BY <2>15, <2>0 DEF Publish, Agrees, SeatInv, Seatable, Deciding
    <3>4. Agrees(r)'
      BY <2>15, <3>1, <3>3 DEF Publish, Agrees, Unbooked, Refusals
    <3>5. outbox' \union commanded' \subseteq outbox \union commanded \union {r}
      BY <2>15 DEF Publish
    <3> QED
      BY <2>15, <3>2, <3>4, <3>5, AnswersMove DEF Publish
  <2> QED
    BY <1>1, <2>1, <2>2, <2>3, <2>4, <2>5, <2>6, <2>7, <2>8, <2>9, <2>10, <2>11, <2>12, <2>13,
       <2>14, <2>15 DEF HandleRide, FindVehicle, AssignTrip
<1>2. ASSUME NEW r \in Requests, Failure(r) PROVE AnswerInv'
  <2>0. Agrees(r)
    BY DEF AnswerInv
  <2>1. CASE QueryFails(r)
    <3> PICK await \in {"user", "vehicles", "positions", "connect"} : CallFails(r, await)
      BY <2>1 DEF QueryFails
    <3> QED
      BY AnswersGoOn DEF TypeOK, CallFails, Unbooked
  <2>2. CASE StoreClosed(r)
    BY <2>2, AnswersGoOn DEF TypeOK, StoreClosed, Unbooked
  <2>3. CASE StatementFails(r)
    <3>1. pc'[r] = "rollback" /\ response'[r] = "internal_error"
      BY <2>3 DEF TypeOK, StatementFails, GoTo
    <3>2. \A s \in Requests : s # r => pc'[s] = pc[s] /\ response'[s] = response[s]
      BY <2>3 DEF TypeOK, StatementFails, GoTo
    <3>3. Agrees(r)'
      BY <2>3, <2>0, <3>1 DEF StatementFails, Agrees, Unbooked
    <3> QED
      BY <2>3, <3>2, <3>3, AnswersMove DEF StatementFails
  <2>4. CASE CommitUnknown(r)
    <3>1. response'[r] = "internal_error" /\ \A s \in Requests : s # r => response'[s] = response[s]
      BY <2>4 DEF TypeOK, CommitUnknown
    <3>2. CASE Committed(r)
      BY <2>4, <3>1, <3>2, AnswersCommitted DEF CommitUnknown
    <3>3. CASE UNCHANGED booking
      BY <2>4, <3>1, <3>3, AnswersGoOn DEF CommitUnknown, Unbooked
    <3> QED
      BY <2>4, <3>2, <3>3 DEF CommitUnknown
  <2>5. CASE LoseCommand(r)
    BY <2>5, AnswersUnchanged DEF LoseCommand
  <2> QED
    BY <1>2, <2>1, <2>2, <2>3, <2>4, <2>5 DEF Failure
<1>3. ASSUME NEW r \in Requests, Deliver(r) PROVE AnswerInv'
  BY <1>3, AnswersUnchanged DEF Deliver
<1>4. CASE Environment
  <2>1. CASE (\E k \in Parties : Expire(k)) \/ Replay \/ SigTerm \/ Restart
    BY <2>1, AnswersUnchanged DEF Expire, Replay, SigTerm, Restart
  <2>2. CASE \E v \in Vehicles : Locate(v) \/ OperatorReset(v)
    BY <2>2, AnswersUnchanged DEF Locate, OperatorReset
  <2>3. CASE Exit \/ Crash
    BY <2>3, AnswersGone DEF Exit, Crash
  <2> QED
    BY <1>4, <2>1, <2>2, <2>3 DEF Environment
<1>5. CASE Served \/ UNCHANGED vars
  BY <1>5, AnswersUnchanged DEF Served, vars
<1> QED
  BY <1>1, <1>2, <1>3, <1>4, <1>5 DEF Next

LEMMA AnswersAlways == Spec => [](TypeOK /\ HasChosen /\ SeatInv /\ AnswerInv)
BY InitType, StepType, InitSeats, StepSeats, InitAnswers, StepAnswers, PTL DEF Spec

(* Answers agree with the ledger, for every party and fleet.               *)
THEOREM HonestAnswers == Spec => []AnswersMatchLedger
<1>1. TypeOK /\ HasChosen /\ SeatInv /\ AnswerInv => AnswersMatchLedger
  BY DEF AnswerInv, Agrees, AnswersMatchLedger
<1> QED
  BY <1>1, AnswersAlways, PTL

(* Commands belong to committed rides.                                     *)
THEOREM HonestCommands == Spec => []CommandsMatchLedger
<1>1. TypeOK /\ HasChosen /\ SeatInv /\ AnswerInv => CommandsMatchLedger
  BY DEF TypeOK, AnswerInv, Agrees, CommandsMatchLedger, Taxis
<1> QED
  BY <1>1, AnswersAlways, PTL

-----------------------------------------------------------------------------
(* Stale lists.                                                            *)

\* No list changes and no DEL is lost
LEMMA StaleUnchanged ==
    ASSUME StaleHasCause, UNCHANGED <<vehicleStatus, cache, leftovers>>,
           \A s \in Requests : pc[s] = "invalidate" =>
              pc'[s] = "invalidate" /\ chosen'[s] = chosen[s]
    PROVE  StaleHasCause'
BY DEF StaleHasCause

\* A commit makes the chosen vehicle's entries stale, and no other's
LEMMA StaleCommitted ==
    ASSUME TypeOK, HasChosen, StaleHasCause, NEW r \in Requests, pc[r] = "commit", Committed(r),
           UNCHANGED <<cache, chosen>>, \A s \in Requests : s # r => pc'[s] = pc[s],
           \/ leftovers' = leftovers /\ pc'[r] = "invalidate"
           \/ leftovers' = leftovers \union Naming({chosen[r]})
    PROVE  StaleHasCause'
<1> SUFFICES ASSUME NEW k \in Parties, k <= CacheableSeats, cache[k] # NoEntry,
                    NEW v \in cache[k], vehicleStatus'[v] # "available"
             PROVE  \/ <<k, v>> \in leftovers'
                    \/ \E s \in Requests : pc'[s] = "invalidate" /\ chosen[s] = v
  BY DEF StaleHasCause
<1>1. v \in Vehicles
  BY DEF TypeOK
<1>2. CASE v = chosen[r]
  <2>1. <<k, v>> \in Naming({chosen[r]})
    BY <1>2 DEF Naming
  <2> QED
    BY <1>2, <2>1
<1>3. CASE v # chosen[r]
  <2>1. vehicleStatus[v] # "available"
    BY <1>1, <1>3 DEF Committed, TypeOK
  <2>2. CASE <<k, v>> \in leftovers
    BY <2>2
  <2>3. ASSUME NEW s \in Requests, pc[s] = "invalidate", chosen[s] = v
        PROVE  \E u \in Requests : pc'[u] = "invalidate" /\ chosen[u] = v
    BY <1>3, <2>3
  <2> QED
    BY <2>1, <2>2, <2>3 DEF StaleHasCause
<1> QED
  BY <1>2, <1>3

\* The list written for r names the unavailable vehicles as leftovers
LEMMA StaleFilled ==
    ASSUME TypeOK, StaleHasCause, NEW r \in Requests, FillCache(r)
    PROVE  StaleHasCause'
<1>1. /\ \A s \in Requests : pc[s] = "invalidate" =>
            pc'[s] = "invalidate" /\ chosen'[s] = chosen[s]
      /\ UNCHANGED vehicleStatus
  BY DEF TypeOK, FillCache, At, Decide, Respond, GoTo, primaryVars
<1>2. CASE UNCHANGED <<cache, leftovers>>
  BY <1>1, <1>2, StaleUnchanged
<1>3. CASE /\ cache' = [cache EXCEPT ![CacheKey(r)] = candidates[r]]
           /\ leftovers' = Refilled(CacheKey(r), candidates[r])
  <2> SUFFICES ASSUME NEW k \in Parties, k <= CacheableSeats, cache'[k] # NoEntry,
                      NEW v \in cache'[k], vehicleStatus[v] # "available"
               PROVE  \/ <<k, v>> \in leftovers'
                      \/ \E s \in Requests : pc'[s] = "invalidate" /\ chosen'[s] = v
    BY <1>1 DEF StaleHasCause
  <2>1. CASE k = CacheKey(r)
    <3>1. v \in candidates[r]
      BY <1>3, <2>1 DEF TypeOK
    <3>2. <<k, v>> \in {CacheKey(r)} \X {u \in candidates[r] : vehicleStatus[u] # "available"}
      BY <2>1, <3>1
    <3> QED
      BY <1>3, <3>2 DEF Refilled
  <2>2. CASE k # CacheKey(r)
    <3>1. cache[k] = cache'[k]
      BY <1>3, <2>2 DEF TypeOK
    <3>2. <<k, v>> \in leftovers => <<k, v>> \in leftovers'
      BY <1>3, <2>2 DEF Refilled
    <3> QED
      BY <1>1, <3>1, <3>2 DEF StaleHasCause
  <2> QED
    BY <2>1, <2>2
<1> QED
  BY <1>2, <1>3 DEF FillCache

\* DEL clears what bookings invalidate; when it fails, its vehicle's entries
\* become leftovers
LEMMA StaleInvalidated ==
    ASSUME TypeOK, StaleHasCause, NEW r \in Requests, Invalidate(r)
    PROVE  StaleHasCause'
<1>1. /\ \A s \in Requests : s # r => pc'[s] = pc[s]
      /\ UNCHANGED <<vehicleStatus, chosen>>
  BY DEF TypeOK, Invalidate, GoTo, primaryVars
<1>2. CASE cache' = Invalidated
  BY <1>2 DEF StaleHasCause, Invalidated
<1>3. CASE UNCHANGED cache /\ leftovers' = leftovers \union Naming({chosen[r]})
  <2> SUFFICES ASSUME NEW k \in Parties, k <= CacheableSeats, cache[k] # NoEntry,
                      NEW v \in cache[k], vehicleStatus[v] # "available"
               PROVE  \/ <<k, v>> \in leftovers'
                      \/ \E s \in Requests : pc'[s] = "invalidate" /\ chosen[s] = v
    BY <1>1, <1>3 DEF StaleHasCause
  <2>1. CASE v = chosen[r]
    <3>1. <<k, v>> \in Naming({chosen[r]})
      BY <2>1 DEF Naming
    <3> QED
      BY <1>3, <3>1
  <2>2. CASE v # chosen[r]
    BY <1>1, <1>3, <2>2 DEF StaleHasCause
  <2> QED
    BY <2>1, <2>2
<1> QED
  BY <1>2, <1>3 DEF Invalidate

\* The DELs that the end of the process drops leave leftovers
LEMMA StaleGone ==
    ASSUME TypeOK, StaleHasCause, Gone
    PROVE  StaleHasCause'
<1> DEFINE freed == {chosen[s] : s \in {u \in Requests : pc[u] = "invalidate"}}
<1>1. leftovers' = leftovers \union Naming(freed) /\ UNCHANGED <<vehicleStatus, cache>>
  BY DEF Gone, primaryVars
<1> SUFFICES ASSUME NEW k \in Parties, k <= CacheableSeats, cache[k] # NoEntry,
                    NEW v \in cache[k], vehicleStatus[v] # "available"
             PROVE  <<k, v>> \in leftovers'
  BY <1>1 DEF StaleHasCause
<1>2. CASE <<k, v>> \in leftovers
  BY <1>1, <1>2
<1>3. ASSUME NEW s \in Requests, pc[s] = "invalidate", chosen[s] = v
      PROVE  <<k, v>> \in leftovers'
  <2>1. v \in freed
    BY <1>3
  <2> HIDE DEF freed
  <2>2. <<k, v>> \in Naming(freed)
    BY <2>1 DEF Naming
  <2> QED
    BY <1>1, <2>2
<1> QED
  BY <1>2, <1>3 DEF StaleHasCause

LEMMA StepStale == TypeOK /\ HasChosen /\ StaleHasCause /\ [Next]_vars => StaleHasCause'
<1> SUFFICES ASSUME TypeOK, HasChosen, StaleHasCause, [Next]_vars PROVE StaleHasCause'
  OBVIOUS
<1> USE DEF At, GoTo, Respond, primaryVars, replicaVars, worldVars, requestVars, boundVars
<1>1. ASSUME NEW r \in Requests, HandleRide(r) PROVE StaleHasCause'
  <2>1. CASE Submit(r) \/ Retry(r) \/ UserExists(r) \/ CacheMiss(r) \/ QueryVehicles(r) \/ FindPositions(r)
    BY <2>1, StaleUnchanged
    DEF TypeOK, Submit, Retry, UserExists, CacheMiss, QueryVehicles, FindPositions
  <2>2. CASE CacheHit(r)
    BY <2>2, StaleUnchanged DEF TypeOK, CacheHit, Decide
  <2>3. CASE FillCache(r)
    BY <2>3, StaleFilled
  <2>4. CASE Connect(r) \/ Update(r) \/ Insert(r) \/ Rollback(r) \/ Publish(r)
    BY <2>4, StaleUnchanged DEF TypeOK, Connect, Update, Insert, Rollback, Publish
  <2>5. CASE Commit(r)
    <3>1. pc'[r] = "invalidate" /\ \A s \in Requests : s # r => pc'[s] = pc[s]
      BY <2>5 DEF TypeOK, Commit
    <3> QED
      BY <2>5, <3>1, StaleCommitted DEF Commit
  <2>6. CASE Invalidate(r)
    BY <2>6, StaleInvalidated
  <2> QED
    BY <1>1, <2>1, <2>2, <2>3, <2>4, <2>5, <2>6 DEF HandleRide, FindVehicle, AssignTrip
<1>2. ASSUME NEW r \in Requests, Failure(r) PROVE StaleHasCause'
  <2>1. CASE QueryFails(r) \/ StoreClosed(r) \/ StatementFails(r) \/ LoseCommand(r)
    BY <2>1, StaleUnchanged
    DEF TypeOK, QueryFails, CallFails, StoreClosed, StatementFails, LoseCommand
  <2>2. CASE CommitUnknown(r)
    <3>1. /\ \A s \in Requests : s # r => pc'[s] = pc[s]
          /\ pc[r] = "commit" /\ UNCHANGED <<cache, chosen>>
      BY <2>2 DEF TypeOK, CommitUnknown
    <3>2. CASE Committed(r) /\ leftovers' = leftovers \union Naming({chosen[r]})
      BY <3>1, <3>2, StaleCommitted
    <3>3. CASE UNCHANGED <<vehicleStatus, leftovers>>
      BY <3>1, <3>3, StaleUnchanged
    <3> QED
      BY <2>2, <3>2, <3>3 DEF CommitUnknown
  <2> QED
    BY <1>2, <2>1, <2>2 DEF Failure
<1>3. ASSUME NEW r \in Requests, Deliver(r) PROVE StaleHasCause'
  BY <1>3, StaleUnchanged DEF Deliver
<1>4. CASE Environment
  <2>1. ASSUME NEW k \in Parties, Expire(k) PROVE StaleHasCause'
    BY <2>1 DEF TypeOK, Expire, StaleHasCause
  <2>2. ASSUME NEW v \in Vehicles, OperatorReset(v) PROVE StaleHasCause'
    <3>1. /\ vehicleStatus' = [vehicleStatus EXCEPT ![v] = "available"]
          /\ leftovers' = {p \in leftovers : p[2] # v}
          /\ UNCHANGED <<cache, pc, chosen>>
      BY <2>2 DEF OperatorReset
    <3>2. \A u \in Vehicles : vehicleStatus'[u] # "available" => u # v /\ vehicleStatus[u] # "available"
      BY <3>1 DEF TypeOK
    <3>3. \A k \in Parties : cache[k] # NoEntry => cache[k] \subseteq Vehicles
      BY DEF TypeOK
    <3> QED
      BY <3>1, <3>2, <3>3 DEF StaleHasCause
  <2>3. CASE Replay \/ SigTerm \/ Restart \/ \E v \in Vehicles : Locate(v)
    BY <2>3, StaleUnchanged DEF Replay, SigTerm, Restart, Locate
  <2>4. CASE Exit \/ Crash
    BY <2>4, StaleGone DEF Exit, Crash
  <2> QED
    BY <1>4, <2>1, <2>2, <2>3, <2>4 DEF Environment
<1>5. CASE Served \/ UNCHANGED vars
  BY <1>5, StaleUnchanged DEF Served, vars
<1> QED
  BY <1>1, <1>2, <1>3, <1>4, <1>5 DEF Next

(* A cached list names a booked vehicle for the named reasons only, for    *)
(* any number of requests, parties, restarts and failed calls.             *)
THEOREM StaleCaused == Spec => []StaleHasCause
<1>1. Init => StaleHasCause
  BY DEF Init, StaleHasCause
<1> QED
  BY <1>1, InitType, StepType, StepStale, PTL DEF Spec
=============================================================================
