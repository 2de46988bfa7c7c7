------------------------------ MODULE Dispatch ------------------------------
(***************************************************************************)
(* services/dispatch-service: handleRide (index.js) and the data access it *)
(* awaits (store.js), for requests that one process serves concurrently.   *)
(* A request is at the await pc names; everything between two awaits is    *)
(* one step, and other requests, the TTL, the replica, the operator and    *)
(* the end of the process come in between.                                 *)
(*                                                                         *)
(* Which candidate selectVehicle prefers is left open: positions move      *)
(* while requests run, so any candidate may have the lowest score.         *)
(*                                                                         *)
(* A definition marked "Mutant" is a plausible slip in the definition that *)
(* follows it.  No specification uses it; it shows which property notices. *)
(***************************************************************************)
EXTENDS Integers, Sequences, FiniteSets

CONSTANTS Requests,      \* POST /rides requests
          Vehicles,
          Bus,           \* the vehicles seeded as on_trip for good
          SeatsOf,       \* vehicle -> passenger_seats
          PartyOf,       \* request -> passengers
          Strangers,     \* requests whose userId is not in users
          Connected,     \* melbourne.json has a way between any two landmarks
          HasReplica,    \* PG_READ_URL is set
          PoolSize,      \* clients of the pg Pool of the primary
          CacheableSeats,\* MAX_CACHEABLE_SEATS
          NoVehicle,     \* no vehicle chosen or booked yet
          NoEntry,       \* the cache has no such key
          MaxFaults,     \* bound on failed calls and lost messages
          MaxStops,      \* bound on crashes and SIGTERMs
          MaxResets      \* bound on operator resets

ASSUME DispatchAssumption ==
    /\ Bus \subseteq Vehicles
    /\ SeatsOf \in [Vehicles -> Nat]
    /\ PartyOf \in [Requests -> Nat \ {0}]
    /\ Strangers \subseteq Requests
    /\ Connected \in BOOLEAN
    /\ HasReplica \in BOOLEAN
    /\ PoolSize \in Nat \ {0}
    /\ NoVehicle \notin Vehicles
    /\ \A s \in SUBSET Vehicles : s # NoEntry
    /\ {CacheableSeats, MaxFaults, MaxStops, MaxResets} \subseteq Nat

VARIABLES
    \* PostgreSQL
    vehicleStatus,  \* [v]  committed status of v on the primary
    serving,        \* [v]  requests with a ride of v committed since v was last freed
    booking,        \* [r]  the vehicle of r's committed ride
    rowLock,        \* [v]  requests whose open transaction has updated v's row
    replicaStatus,  \* [v]  status of v on the read replica
    wal,            \* committed status changes the replica has not replayed
    \* Redis, MongoDB, MQTT
    cache,          \* [seats]  avail:<seats>
    leftovers,      \* history: <<seats, v>> such that avail:<seats> names v, which
                    \* was not available when the list was written, or is not and
                    \* no DEL will come for its ride
    located,        \* vehicles with a telemetry document
    outbox,         \* dispatch commands published but not delivered
    commanded,      \* dispatch commands a vehicle received
    \* the process
    process,        \* "up", "stopping" (SIGTERM) or "down"
    clients,        \* requests holding a client of the primary's pool
    pc,             \* [r]  the await r is at
    candidates,     \* [r]  result of availableCandidates, complete or not
    chosen,         \* [r]  choice.vehicleId
    response,       \* [r]  what the passenger is told once r is done
    faults, stops, resets

primaryVars == <<vehicleStatus, serving, booking>>
replicaVars == <<replicaStatus, wal>>
worldVars == <<cache, leftovers, located, outbox, commanded>>
requestVars == <<pc, candidates, chosen, response>>
boundVars == <<faults, stops, resets>>
vars == <<primaryVars, rowLock, replicaVars, worldVars, process, clients, requestVars, boundVars>>

Taxis == Vehicles \ Bus
Parties == {PartyOf[r] : r \in Requests}

\* Awaits inside assignTrip after pool.connect, and all the awaits
InTransaction == {"update", "insert", "commit", "invalidate", "rollback"}
Awaits == {"user", "cache", "vehicles", "positions", "fill", "connect", "publish"}
              \union InTransaction
Refusals == {"unknown_user", "no_vehicle", "unreachable", "just_taken"}
Responses == {"none", "assigned", "internal_error", "reset"} \union Refusals

TypeOK ==
    /\ vehicleStatus \in [Vehicles -> {"available", "on_trip"}]
    /\ serving \in [Vehicles -> SUBSET Requests]
    /\ booking \in [Requests -> Vehicles \union {NoVehicle}]
    /\ rowLock \in [Vehicles -> SUBSET Requests]
    /\ replicaStatus \in [Vehicles -> {"available", "on_trip"}]
    /\ wal \in Seq([vehicle : Vehicles, status : {"available", "on_trip"}])
    /\ cache \in [Parties -> (SUBSET Vehicles) \union {NoEntry}]
    /\ leftovers \subseteq Parties \X Vehicles
    /\ located \subseteq Vehicles
    /\ outbox \subseteq Requests
    /\ commanded \subseteq Requests
    /\ process \in {"up", "stopping", "down"}
    /\ clients \subseteq Requests
    /\ pc \in [Requests -> Awaits \union {"idle", "done"}]
    /\ candidates \in [Requests -> SUBSET Vehicles]
    /\ chosen \in [Requests -> Vehicles \union {NoVehicle}]
    /\ response \in [Requests -> Responses]
    /\ faults \in 0..MaxFaults
    /\ stops \in 0..MaxStops
    /\ resets \in 0..MaxResets

SeedStatus == [v \in Vehicles |-> IF v \in Bus THEN "on_trip" ELSE "available"]

Init ==
    /\ vehicleStatus = SeedStatus
    /\ serving = [v \in Vehicles |-> {}]
    /\ booking = [r \in Requests |-> NoVehicle]
    /\ rowLock = [v \in Vehicles |-> {}]
    /\ replicaStatus = SeedStatus
    /\ wal = <<>>
    /\ cache = [k \in Parties |-> NoEntry]
    /\ leftovers = {}
    /\ located \in SUBSET Vehicles
    /\ outbox = {}
    /\ commanded = {}
    /\ process = "up"
    /\ clients = {}
    /\ pc = [r \in Requests |-> "idle"]
    /\ candidates = [r \in Requests |-> {}]
    /\ chosen = [r \in Requests |-> NoVehicle]
    /\ response = [r \in Requests |-> "none"]
    /\ faults = 0 /\ stops = 0 /\ resets = 0

-----------------------------------------------------------------------------
(* Moving a request along.                                                 *)

At(r, await) == process # "down" /\ pc[r] = await

GoTo(r, await) == pc' = [pc EXCEPT ![r] = await]

Respond(r, answer) ==
    /\ GoTo(r, "done")
    /\ response' = [response EXCEPT ![r] = answer]

\* A query on the pool waits for a client of it.  One that is not part of a
\* transaction gives it straight back, and one that was sent before the pool
\* ended still gets its answer.
ClientFree == Cardinality(clients) < PoolSize

\* One of the calls that fail: handleRide's catch sends a 500
CallFails(r, await) ==
    /\ At(r, await)
    /\ faults < MaxFaults
    /\ faults' = faults + 1
    /\ Respond(r, "internal_error")
    /\ UNCHANGED <<primaryVars, rowLock, replicaVars, worldVars, process, clients,
                   candidates, chosen, stops, resets>>

QueryFails(r) == \E await \in {"user", "vehicles", "positions", "connect"} : CallFails(r, await)

\* A call on an ended pool or a closed MongoDB client
StoreClosed(r) ==
    /\ process = "stopping"
    /\ pc[r] \in {"user", "vehicles", "positions", "connect"}
    /\ Respond(r, "internal_error")
    /\ UNCHANGED <<primaryVars, rowLock, replicaVars, worldVars, process, clients,
                   candidates, chosen, boundVars>>

-----------------------------------------------------------------------------
(* handleRide up to the choice of a vehicle.                               *)

\* A request whose body passes validation arrives; one that does not is
\* answered 400 on the spot and changes nothing
Submit(r) ==
    /\ process = "up"
    /\ pc[r] = "idle"
    /\ GoTo(r, "user")
    /\ UNCHANGED <<primaryVars, rowLock, replicaVars, worldVars, process, clients,
                   candidates, chosen, response, boundVars>>

\* The client handles "just taken, please retry" by sending the request again
Retry(r) ==
    /\ process = "up"
    /\ pc[r] = "done"
    /\ response[r] = "just_taken"
    /\ GoTo(r, "user")
    /\ response' = [response EXCEPT ![r] = "none"]
    /\ candidates' = [candidates EXCEPT ![r] = {}]
    /\ chosen' = [chosen EXCEPT ![r] = NoVehicle]
    /\ UNCHANGED <<primaryVars, rowLock, replicaVars, worldVars, process, clients, boundVars>>

UserExists(r) ==
    /\ At(r, "user")
    /\ ClientFree
    /\ \/ r \notin Strangers /\ GoTo(r, "cache") /\ UNCHANGED response
       \/ r \in Strangers /\ Respond(r, "unknown_user")
    /\ UNCHANGED <<primaryVars, rowLock, replicaVars, worldVars, process, clients,
                   candidates, chosen, boundVars>>

\* What follows availableCandidates, up to the pool.connect of assignTrip.  The
\* landmarks of a request are left open; when there is no way to the dropoff,
\* reading the costKm of null throws
Decide(r, found) ==
    \/ /\ found = {}
       /\ Respond(r, "no_vehicle")
       /\ UNCHANGED chosen
    \/ /\ found # {} /\ ~Connected
       /\ Respond(r, "unreachable")
       /\ UNCHANGED chosen
    \/ /\ found # {} /\ ~Connected
       /\ Respond(r, "internal_error")
       /\ UNCHANGED chosen
    \/ /\ \E v \in found : chosen' = [chosen EXCEPT ![r] = v]
       /\ GoTo(r, "connect")
       /\ UNCHANGED response

\* Mutant: one key for parties of all sizes
SharedCacheKey(r) == 1

CacheKey(r) == PartyOf[r]

CacheHit(r) ==
    /\ At(r, "cache")
    /\ cache[CacheKey(r)] # NoEntry
    /\ candidates' = [candidates EXCEPT ![r] = cache[CacheKey(r)]]
    /\ Decide(r, cache[CacheKey(r)])
    /\ UNCHANGED <<primaryVars, rowLock, replicaVars, worldVars, process, clients, boundVars>>

\* No entry, or GET rejected because Redis is away
CacheMiss(r) ==
    /\ At(r, "cache")
    /\ \/ cache[CacheKey(r)] = NoEntry /\ UNCHANGED faults
       \/ faults < MaxFaults /\ faults' = faults + 1
    /\ GoTo(r, "vehicles")
    /\ UNCHANGED <<primaryVars, rowLock, replicaVars, worldVars, process, clients,
                   candidates, chosen, response, stops, resets>>

\* The status a query of readPool sees
ReadStatus == IF HasReplica THEN replicaStatus ELSE vehicleStatus

\* Mutant: the query does not filter on the status
SeatingAnyStatus(party) == {v \in Vehicles : SeatsOf[v] >= party}

Seating(party) == {v \in Vehicles : ReadStatus[v] = "available" /\ SeatsOf[v] >= party}

\* The replica has a pool of its own; an empty result skips the positions
QueryVehicles(r) ==
    /\ At(r, "vehicles")
    /\ HasReplica \/ ClientFree
    /\ candidates' = [candidates EXCEPT ![r] = Seating(PartyOf[r])]
    /\ GoTo(r, IF Seating(PartyOf[r]) = {} THEN "fill" ELSE "positions")
    /\ UNCHANGED <<primaryVars, rowLock, replicaVars, worldVars, process, clients,
                   chosen, response, boundVars>>

FindPositions(r) ==
    /\ At(r, "positions")
    /\ candidates' = [candidates EXCEPT ![r] = @ \intersect located]
    /\ GoTo(r, "fill")
    /\ UNCHANGED <<primaryVars, rowLock, replicaVars, worldVars, process, clients,
                   chosen, response, boundVars>>

\* <<seats, v>> where avail:<seats> names a vehicle v of vs
Naming(vs) == {p \in Parties \X vs : cache[p[1]] # NoEntry /\ p[2] \in cache[p[1]]}

\* The leftovers once avail:<k> lists the vehicles vs
Refilled(k, vs) ==
    {p \in leftovers : p[1] # k} \union ({k} \X {v \in vs : vehicleStatus[v] # "available"})

\* SETEX, or nothing when it is rejected
FillCache(r) ==
    /\ At(r, "fill")
    /\ \/ /\ cache' = [cache EXCEPT ![CacheKey(r)] = candidates[r]]
          /\ leftovers' = Refilled(CacheKey(r), candidates[r])
          /\ UNCHANGED faults
       \/ faults < MaxFaults /\ faults' = faults + 1 /\ UNCHANGED <<cache, leftovers>>
    /\ Decide(r, candidates[r])
    /\ UNCHANGED <<primaryVars, rowLock, replicaVars, located, outbox, commanded, process,
                   clients, candidates, stops, resets>>

-----------------------------------------------------------------------------
(* assignTrip, one action per await.                                       *)

\* pool.connect and BEGIN
Connect(r) ==
    /\ At(r, "connect")
    /\ process = "up"
    /\ ClientFree
    /\ clients' = clients \union {r}
    /\ GoTo(r, "update")
    /\ UNCHANGED <<primaryVars, rowLock, replicaVars, worldVars, process,
                   candidates, chosen, response, boundVars>>

\* Mutant: the UPDATE is not guarded
UpdatableAlways(v) == TRUE

\* Mutant: assignTrip uses readPool
UpdatableOnReplica(v) == ReadStatus[v] = "available"

\* The guarded UPDATE waits for the row lock, then matches the row or not
Updatable(v) == vehicleStatus[v] = "available"

Update(r) ==
    /\ At(r, "update")
    /\ rowLock[chosen[r]] = {}
    /\ \/ /\ Updatable(chosen[r])
          /\ rowLock' = [rowLock EXCEPT ![chosen[r]] = @ \union {r}]
          /\ GoTo(r, "insert")
          /\ UNCHANGED response
       \/ /\ ~Updatable(chosen[r])
          /\ GoTo(r, "rollback")
          /\ response' = [response EXCEPT ![r] = "just_taken"]
          /\ UNCHANGED rowLock
    /\ UNCHANGED <<primaryVars, replicaVars, worldVars, process, clients,
                   candidates, chosen, boundVars>>

\* Mutant: the command goes out before COMMIT
InsertAndPublish(r) ==
    /\ At(r, "insert")
    /\ GoTo(r, "commit")
    /\ outbox' = outbox \union {r}
    /\ UNCHANGED <<primaryVars, rowLock, replicaVars, cache, leftovers, located, commanded, process, clients,
                   candidates, chosen, response, boundVars>>

Insert(r) ==
    /\ At(r, "insert")
    /\ GoTo(r, "commit")
    /\ UNCHANGED <<primaryVars, rowLock, replicaVars, worldVars, process, clients,
                   candidates, chosen, response, boundVars>>

\* A statement is rejected, the ROLLBACK after a lost race included: the catch
\* block rolls back and rethrows.  When the ROLLBACK of the catch block is
\* rejected too, the connection is gone and PostgreSQL aborts: Rollback.
StatementFails(r) ==
    /\ process # "down"
    /\ \/ pc[r] \in {"update", "insert"}
       \/ pc[r] = "rollback" /\ response[r] = "just_taken"
    /\ faults < MaxFaults
    /\ faults' = faults + 1
    /\ GoTo(r, "rollback")
    /\ response' = [response EXCEPT ![r] = "internal_error"]
    /\ UNCHANGED <<primaryVars, rowLock, replicaVars, worldVars, process, clients,
                   candidates, chosen, stops, resets>>

Unlocked(r) == [v \in Vehicles |-> rowLock[v] \ {r}]

\* Mutant: the vehicle gets the status of the ride
CommittedRideStatus(r) ==
    LET v == chosen[r] IN
    /\ vehicleStatus' = [vehicleStatus EXCEPT ![v] = "assigned"]
    /\ serving' = [serving EXCEPT ![v] = @ \union {r}]
    /\ booking' = [booking EXCEPT ![r] = v]
    /\ wal' = wal
    /\ rowLock' = Unlocked(r)

\* Mutant: the ride is not part of the transaction
CommittedWithoutRide(r) ==
    LET v == chosen[r] IN
    /\ vehicleStatus' = [vehicleStatus EXCEPT ![v] = "on_trip"]
    /\ UNCHANGED <<serving, booking>>
    /\ wal' = IF HasReplica THEN Append(wal, [vehicle |-> v, status |-> "on_trip"]) ELSE wal
    /\ rowLock' = Unlocked(r)

\* What COMMIT makes visible: the status flip and the ride
Committed(r) ==
    LET v == chosen[r] IN
    /\ vehicleStatus' = [vehicleStatus EXCEPT ![v] = "on_trip"]
    /\ serving' = [serving EXCEPT ![v] = @ \union {r}]
    /\ booking' = [booking EXCEPT ![r] = v]
    /\ wal' = IF HasReplica THEN Append(wal, [vehicle |-> v, status |-> "on_trip"]) ELSE wal
    /\ rowLock' = Unlocked(r)

Commit(r) ==
    /\ At(r, "commit")
    /\ Committed(r)
    /\ GoTo(r, "invalidate")
    /\ UNCHANGED <<replicaStatus, worldVars, process, clients, candidates, chosen, response,
                   boundVars>>

\* Mutant: a rejected COMMIT is taken for a lost race
CommitUnknownTaken(r) ==
    /\ At(r, "commit")
    /\ faults < MaxFaults
    /\ faults' = faults + 1
    /\ \/ Committed(r) /\ leftovers' = leftovers \union Naming({chosen[r]})
       \/ UNCHANGED <<primaryVars, wal, rowLock, leftovers>>
    /\ GoTo(r, "rollback")
    /\ response' = [response EXCEPT ![r] = "just_taken"]
    /\ UNCHANGED <<replicaStatus, cache, located, outbox, commanded, process, clients,
                   candidates, chosen, stops, resets>>

\* The answer to COMMIT never comes: it took effect or it did not
CommitUnknown(r) ==
    /\ At(r, "commit")
    /\ faults < MaxFaults
    /\ faults' = faults + 1
    /\ \/ Committed(r) /\ leftovers' = leftovers \union Naming({chosen[r]})
       \/ UNCHANGED <<primaryVars, wal, rowLock, leftovers>>
    /\ GoTo(r, "rollback")
    /\ response' = [response EXCEPT ![r] = "internal_error"]
    /\ UNCHANGED <<replicaStatus, cache, located, outbox, commanded, process, clients,
                   candidates, chosen, stops, resets>>

\* Mutant: the client is not released on this path
RollbackLeaks(r) ==
    /\ At(r, "rollback")
    /\ rowLock' = Unlocked(r)
    /\ GoTo(r, "done")
    /\ UNCHANGED <<primaryVars, replicaVars, worldVars, process, clients, candidates, chosen,
                   response, boundVars>>

\* ROLLBACK, client.release() and the answer decided before
Rollback(r) ==
    /\ At(r, "rollback")
    /\ rowLock' = Unlocked(r)
    /\ clients' = clients \ {r}
    /\ GoTo(r, "done")
    /\ UNCHANGED <<primaryVars, replicaVars, worldVars, process, candidates, chosen, response,
                   boundVars>>

Invalidated == [k \in Parties |-> IF k <= CacheableSeats THEN NoEntry ELSE cache[k]]

\* Mutant: DEL of the list at hand only
InvalidateOwnKey(r) ==
    /\ At(r, "invalidate")
    /\ cache' = [cache EXCEPT ![CacheKey(r)] = NoEntry]
    /\ leftovers' = {p \in leftovers : p[1] # CacheKey(r)}
    /\ UNCHANGED faults
    /\ clients' = clients \ {r}
    /\ GoTo(r, "publish")
    /\ UNCHANGED <<primaryVars, rowLock, replicaVars, located, outbox, commanded, process,
                   candidates, chosen, response, stops, resets>>

\* DEL avail:1..7, or nothing when it is rejected, and client.release()
Invalidate(r) ==
    /\ At(r, "invalidate")
    /\ \/ /\ cache' = Invalidated
          /\ leftovers' = {p \in leftovers : p[1] > CacheableSeats}
          /\ UNCHANGED faults
       \/ /\ faults < MaxFaults /\ faults' = faults + 1
          /\ leftovers' = leftovers \union Naming({chosen[r]})
          /\ UNCHANGED cache
    /\ clients' = clients \ {r}
    /\ GoTo(r, "publish")
    /\ UNCHANGED <<primaryVars, rowLock, replicaVars, located, outbox, commanded, process,
                   candidates, chosen, response, stops, resets>>

\* The command and the 200; once the MQTT client has ended, publish drops it
Publish(r) ==
    /\ At(r, "publish")
    /\ outbox' = IF process = "up" THEN outbox \union {r} ELSE outbox
    /\ Respond(r, "assigned")
    /\ UNCHANGED <<primaryVars, rowLock, replicaVars, cache, leftovers, located, commanded, process, clients,
                   candidates, chosen, boundVars>>

-----------------------------------------------------------------------------
(* Everything around the requests.                                         *)

\* QoS 0: the client sends what it holds when it is connected; a message may
\* be lost on the way
Deliver(r) ==
    /\ r \in outbox
    /\ outbox' = outbox \ {r}
    /\ commanded' = commanded \union {r}
    /\ UNCHANGED <<primaryVars, rowLock, replicaVars, cache, leftovers, located, process, clients,
                   requestVars, boundVars>>

LoseCommand(r) ==
    /\ r \in outbox
    /\ faults < MaxFaults
    /\ faults' = faults + 1
    /\ outbox' = outbox \ {r}
    /\ UNCHANGED <<primaryVars, rowLock, replicaVars, cache, leftovers, located, commanded, process, clients,
                   requestVars, stops, resets>>

\* Mutant: SET instead of SETEX
NeverExpires(k) == FALSE

\* The CACHE_TTL_S of an entry is over
Expire(k) ==
    /\ cache[k] # NoEntry
    /\ cache' = [cache EXCEPT ![k] = NoEntry]
    /\ leftovers' = {p \in leftovers : p[1] # k}
    /\ UNCHANGED <<primaryVars, rowLock, replicaVars, located, outbox, commanded, process, clients,
                   requestVars, boundVars>>

Replay ==
    /\ wal # <<>>
    /\ replicaStatus' = [replicaStatus EXCEPT ![Head(wal).vehicle] = Head(wal).status]
    /\ wal' = Tail(wal)
    /\ UNCHANGED <<primaryVars, rowLock, worldVars, process, clients, requestVars, boundVars>>

\* telemetry-service writes the first document of v
Locate(v) ==
    /\ v \notin located
    /\ located' = located \union {v}
    /\ UNCHANGED <<primaryVars, rowLock, replicaVars, cache, leftovers, outbox, commanded, process, clients,
                   requestVars, boundVars>>

\* No code ends a ride: an operator resets the vehicle by hand
OperatorReset(v) ==
    /\ v \in Taxis
    /\ resets < MaxResets
    /\ resets' = resets + 1
    /\ rowLock[v] = {}
    /\ vehicleStatus' = [vehicleStatus EXCEPT ![v] = "available"]
    /\ serving' = [serving EXCEPT ![v] = {}]
    /\ wal' = IF HasReplica THEN Append(wal, [vehicle |-> v, status |-> "available"]) ELSE wal
    /\ leftovers' = {p \in leftovers : p[2] # v}
    /\ UNCHANGED <<booking, rowLock, replicaStatus, cache, located, outbox, commanded, process,
                   clients, requestVars, faults, stops>>

\* The signal handler: no new connections, mqttClient.end(true), pool.end()
SigTerm ==
    /\ process = "up"
    /\ stops < MaxStops
    /\ stops' = stops + 1
    /\ process' = "stopping"
    /\ outbox' = {}
    /\ UNCHANGED <<primaryVars, rowLock, replicaVars, cache, leftovers, located, commanded, clients,
                   requestVars, faults, resets>>

\* What is left of the process: nothing.  PostgreSQL aborts the transactions
\* of its connections and the passengers' connections are reset.
Gone ==
    /\ process' = "down"
    /\ rowLock' = [v \in Vehicles |-> {}]
    /\ clients' = {}
    /\ outbox' = {}
    /\ pc' = [r \in Requests |-> IF pc[r] = "idle" THEN "idle" ELSE "done"]
    /\ response' = [r \in Requests |->
                       IF pc[r] \in {"idle", "done"} THEN response[r] ELSE "reset"]
    /\ leftovers' = leftovers \union Naming({chosen[r] : r \in {s \in Requests : pc[s] = "invalidate"}})
    /\ UNCHANGED <<primaryVars, replicaVars, cache, located, commanded, candidates, chosen,
                   faults, resets>>

\* pool.end() waits for the clients in use
Exit == process = "stopping" /\ clients = {} /\ Gone /\ UNCHANGED stops

Crash ==
    /\ process # "down"
    /\ stops < MaxStops
    /\ stops' = stops + 1
    /\ Gone

Restart ==
    /\ process = "down"
    /\ process' = "up"
    /\ UNCHANGED <<primaryVars, rowLock, replicaVars, worldVars, clients, requestVars, boundVars>>

FindVehicle(r) ==
    \/ UserExists(r) \/ CacheHit(r) \/ CacheMiss(r)
    \/ QueryVehicles(r) \/ FindPositions(r) \/ FillCache(r)

AssignTrip(r) ==
    \/ Connect(r) \/ Update(r) \/ Insert(r) \/ Commit(r) \/ Rollback(r) \/ Invalidate(r)

Failure(r) ==
    QueryFails(r) \/ StoreClosed(r) \/ StatementFails(r) \/ CommitUnknown(r) \/ LoseCommand(r)

HandleRide(r) == Submit(r) \/ Retry(r) \/ FindVehicle(r) \/ AssignTrip(r) \/ Publish(r)

Environment ==
    \/ \E k \in Parties : Expire(k)
    \/ Replay
    \/ \E v \in Vehicles : Locate(v) \/ OperatorReset(v)
    \/ SigTerm \/ Exit \/ Crash \/ Restart

\* Every request has been answered: the process waits for more, and a state
\* without a step is a deadlock
Served ==
    /\ process = "up"
    /\ \A r \in Requests : pc[r] = "done"
    /\ UNCHANGED vars

Next ==
    \/ \E r \in Requests : HandleRide(r) \/ Failure(r) \/ Deliver(r)
    \/ Environment
    \/ Served

Spec == Init /\ [][Next]_vars

\* Steps that wait for an answer only, and steps that also wait for a client of
\* the pool or for a row lock
Prompt(r) ==
    \/ CacheHit(r) \/ CacheMiss(r) \/ FindPositions(r) \/ FillCache(r)
    \/ Insert(r) \/ Commit(r) \/ Rollback(r) \/ Invalidate(r) \/ Publish(r) \/ Retry(r)

Queued(r) == UserExists(r) \/ QueryVehicles(r) \/ Connect(r) \/ Update(r)

\* Awaited calls return.  The pool serves its waiting callers in order and
\* PostgreSQL the waiters of a row lock, so a request that can be served again
\* and again is served.  Passengers told to retry do, entries expire, the
\* replica catches up, ECS restarts the task.
Fairness ==
    /\ \A r \in Requests : WF_vars(Prompt(r)) /\ SF_vars(Queued(r)) /\ WF_vars(Deliver(r))
    /\ \A k \in Parties : WF_vars(Expire(k))
    /\ WF_vars(Replay) /\ WF_vars(Exit) /\ WF_vars(Restart)

FairSpec == Spec /\ Fairness

-----------------------------------------------------------------------------
(* Properties.                                                             *)

(* No vehicle is dispatched twice: whatever the cache, the replica or a    *)
(* concurrent request made a request believe, a vehicle has at most one    *)
(* ride between two operator resets (the guarded UPDATE of assignTrip).    *)
NoDoubleBooking == \A v \in Vehicles : \A r, s \in serving[v] : r = s

(* The status flip and the ride land together or not at all: outside the   *)
(* bus, a vehicle is on_trip exactly when it has a ride, through           *)
(* rollbacks, unknown commits, crashes and resets.                         *)
BookedTogether == \A v \in Taxis :
    vehicleStatus[v] = "on_trip" <=> serving[v] # {}

(* A request's answer agrees with the ledger although most of it was       *)
(* computed from stale data: an assigned request has a ride in the vehicle *)
(* it was told, which seats the party; a refused one has no ride.          *)
AnswersMatchLedger == \A r \in Requests : pc[r] = "done" =>
    /\ response[r] = "assigned" =>
          booking[r] = chosen[r] /\ booking[r] \in Taxis /\ SeatsOf[booking[r]] >= PartyOf[r]
    /\ response[r] \in Refusals => booking[r] = NoVehicle

(* Only the request that will commit or roll back holds a row lock, it     *)
(* holds a client of the pool meanwhile, and it never waits for a second   *)
(* lock or client: nobody waits on everybody.                              *)
LocksAreOwned ==
    /\ \A v \in Vehicles : \A r \in rowLock[v] :
          r \in clients /\ chosen[r] = v /\ pc[r] \in {"insert", "commit", "rollback"}
    /\ clients = {r \in Requests : pc[r] \in InTransaction}
    /\ Cardinality(clients) <= PoolSize

(* A cached list for a party larger than MAX_CACHEABLE_SEATS, which no     *)
(* booking ever invalidates, never names a vehicle.                        *)
UncoveredKeysEmpty == \A k \in Parties :
    k > CacheableSeats => cache[k] \in {NoEntry, {}}

(* A vehicle sets out only for a committed ride, so a command never        *)
(* belongs to a request that was told to retry.                            *)
CommandsMatchLedger == \A r \in outbox \union commanded :
    booking[r] = chosen[r] /\ booking[r] \in Vehicles

Settled == Responses \ {"none", "just_taken"}

(* Every request is answered, and a passenger who retries when told to     *)
(* ends up with a vehicle, without one to be had, or with an error: the    *)
(* stale cache entries and replica reads that cause the retries run out,   *)
(* and no request waits for ever for a client or a row lock.               *)
EveryRequestSettles == \A r \in Requests :
    pc[r] # "idle" ~> pc[r] = "done" /\ response[r] \in Settled

(* A cached list that bookings invalidate names a vehicle that is not      *)
(* available for three reasons only: it was written so, by a request that  *)
(* read before the commit or from the replica; the DEL of the vehicle's    *)
(* ride is still to come; or that DEL failed, or was lost with the answer  *)
(* to COMMIT or with the process.  No other way of requests past each      *)
(* other leaves a booked vehicle on a list, whatever its party size.       *)
StaleHasCause == \A k \in Parties : k <= CacheableSeats /\ cache[k] # NoEntry =>
    \A v \in cache[k] : vehicleStatus[v] # "available" =>
       \/ <<k, v>> \in leftovers
       \/ \E r \in Requests : pc[r] = "invalidate" /\ chosen[r] = v

(* The worst a stale read costs is the 409 that asks for a retry (comment  *)
(* on CACHE_TTL_S in store.js): a cached list never makes a request answer *)
(* that there is no vehicle while one is available, located and seats the  *)
(* party.                                                                  *)
StaleHitOnlyCostsRetry ==
    [][\A r \in Requests : CacheHit(r) /\ response'[r] = "no_vehicle" =>
          \A v \in located : vehicleStatus[v] = "available" => SeatsOf[v] < PartyOf[r]]_vars

(* Every booked vehicle is told to set out: Node-RED's actuator picks up   *)
(* the command of each ride (README.md on the dispatch flow).              *)
EveryRideIsCommanded == \A r \in Requests :
    booking[r] # NoVehicle ~> r \in commanded

\* The ledger this implements
Ledger == INSTANCE FleetLedger WITH
             free <- {v \in Vehicles : vehicleStatus[v] = "available"},
             riding <- {ride \in Requests \X Vehicles : ride[1] \in serving[ride[2]]},
             booked <- {r \in Requests : booking[r] # NoVehicle},
             told <- [r \in Requests |-> IF pc[r] = "done" THEN response[r] ELSE "none"]

(* Cache, replica, pool, locks, transactions and restarts are invisible:   *)
(* dispatch-service implements the ledger.                                 *)
ImplementsLedger == Ledger!Spec
=============================================================================
