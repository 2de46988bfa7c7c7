# Driverless taxi system: specifications, checks and proofs

TLA+ specifications of the backend in `src/`: the telemetry pipeline (vehicle → broker →
event-router → SQS → telemetry-service → MongoDB) and the dispatch pipeline (passenger →
dispatch-service → PostgreSQL/Redis/MongoDB → broker → vehicle). Every definition that models
code is listed with its source lines under `map` in `PROJECT.json`; `hazards` lists what is
hard to test in the code, with the properties that cover it.

## 1. Inventory

| Part | State it keeps | Operations | Talks to |
|---|---|---|---|
| **telemetry-service, batcher** (`services/telemetry-service/src/batcher.js`) | `buffer` (newest packet per vehicle), `historyBuffer` (all packets), the `flushing` flag and the two batches of the running flush | `add`, `start`, `stop`, `flush` | MongoDB: an unordered `bulkWrite` of guarded upserts, then an unordered `insertMany` |
| **telemetry-service, SQS mode** (`index.js:54-127`) | `pendingReceipts`, receipts of running `flushAndAck`s, `shuttingDown` | `pollLoop`, `flushAndAck` (timer and SIGTERM), delete batches, exit | SQS, the batcher |
| **telemetry-service, MQTT mode** (`index.js:128-165`) | the batcher's timer | message handler, `stop` | broker, the batcher |
| **SQS queue and dead-letter queue** (`terraform/sqs.tf`) | messages, receive counts, visibility | send, receive, delete, visibility timeout (60 s), redrive after 5 receives | event-router, telemetry-service |
| **MongoDB** (`db/mongo`) | `telemetry` (one document per vehicle), `telemetry_history` (append-only, TTL) | upsert, insert, find | telemetry-service writes, dispatch-service reads |
| **event-router** (`services/event-router/src`) | counters only | validate, republish, `sqs.send` | broker (shared subscription), SQS |
| **dispatch-service, handleRide** (`services/dispatch-service/src/index.js`) | per request: candidates, choice, answer; `shuttingDown` | POST /rides, SIGTERM | store, graph, select, broker |
| **dispatch-service, store** (`store.js`) | pg pools, open transactions | `userExists`, `availableCandidates`, `assignTrip`, `close` | PostgreSQL primary and replica, Redis, MongoDB |
| **road graph, A\*, selection** (`graph.js`, `select.js`) | none (pure) | `aStar`, `nearestNode`, `selectVehicle` | — |
| **PostgreSQL** (`db/postgres`) | `vehicles.status`, `rides`, `users`; a streaming replica | guarded UPDATE, INSERT, COMMIT, replay | dispatch-service |
| **Redis** | `avail:<seats>` for 3 s | GET, SETEX, DEL | dispatch-service |
| **Node-RED** (`node-red/flows.json`) | `fleet`, `lastSent` | sensor tick, edge filter, actuator | broker |
| **MQTT broker** | QoS 0 messages in flight | publish, deliver | everyone but the databases |
| **auto-scaling, ECS, network** (`terraform/`) | desired count of tasks | scale out and in, replace a stopped task | event-router, telemetry-service |

What is hard, and what makes each part correct:

* **Telemetry.** A flush awaits two unordered bulk writes; the timer, newly received packets,
  other instances, SIGTERM and crashes come in between, and either write can fail half-way.
  Correct means: a message is deleted only when its packet is stored (no loss); the stored
  state of a vehicle never regresses; the history never runs ahead of the current state;
  receipts and packets are swapped, restored and dropped together; duplicates have a bounded
  cause; malformed messages leave the queue and others are eventually written.
* **Dispatch.** Requests run concurrently between awaits, on data that is stale by design (a
  3 s cache, a lagging replica, positions of the past). Correct means: a vehicle has one ride
  at a time; status and ride are committed together; the answer and the command agree with the
  ledger whatever fails; retries end; the pool and the row locks never make everyone wait.
* **Event-router and MQTT mode.** Nothing is awaited, acknowledged or sent twice on purpose.
  Correct means: a reading that passed the check is lost to a fault of the environment only,
  never to a handler; several routers send it to the queue once; nothing unchecked is stored;
  a document the collection refuses holds up no other vehicle.
* **Fleet.** dispatch-service decides on positions of the past, the edge filter hides readings on
  purpose, and the command finds the vehicle where it is by then. Correct means: filtering hides
  no move; a parked vehicle becomes known where it stands; undisturbed commands are driven
  along roads to the pickup; the selected candidate is the best one.

## 2. Modules

| Module | What it is |
|---|---|
| `TelemetryBatcher` | `batcher.js`, for several instances over the two shared collections. No next-state relation of its own. |
| `TelemetrySqs` | EXTENDS `TelemetryBatcher`: SQS mode of `index.js`, the queue, the processes. The specification that is checked and proved. |
| `TelemetryStore` | Abstract: current document, recorded packets, acknowledged messages. |
| `EventRouter` | `services/event-router/src`, several routers with the broker before them and SQS behind. No next-state relation of its own. |
| `TelemetryMqtt` | EXTENDS `TelemetryBatcher` and `EventRouter`: MQTT mode of `index.js`, composed with the router. |
| `AStar` | `aStar` of `graph.js`, one step per turn of its loops, over every road network. |
| `VehicleSelection` | `select.js` and `nearestNode`, as folds over lists. |
| `FleetSimulator` | EXTENDS `VehicleSelection`: the sensor tick, edge filter and actuator of `flows.json`. |
| `FleetOperation` | EXTENDS `FleetSimulator`: the loop that dispatch-service closes around the fleet. |
| `Induction` | Induction on natural numbers as a fact about sets; the folds of the community modules exist and are unfolded from it. |
| `TelemetryBatcherProofs`, `TelemetrySqsProofs`, `TelemetryMqttProofs`, `DispatchProofs`, `DispatchLedgerProofs`, `AStarProofs`, `FleetProofs` | TLAPS proofs (section 5). |
| `Dispatch` | `handleRide` and `store.js`, PostgreSQL, Redis, the replica and the command channel. |
| `FleetLedger` | Abstract: a ledger of bookings, and answers and commands that agree with it. |
| `MCTelemetrySqs`, `MCTelemetryMqtt`, `MCDispatch`, `MCAStar`, `MCFleet` | Constants and symmetry for TLC. |

### 2.1 TelemetryBatcher and TelemetrySqs

Variables carry the code's names. `buffer`, `historyBuffer`, `batch`, `historyBatch` are the
maps and arrays of the same names, per instance. `historyBuffer` is a bag: `insertMany` is
unordered and the order of history documents is by timestamp, so the order of the array is
not observable. `stage` is the `flushing` flag together with the await the flush is at; `ops` and
`docs` are the part of that bulk call the database has not applied yet. `current` and
`history` are the collections; a packet is a model value with a vehicle and a timestamp.

| Action | Code |
|---|---|
| `Add` | `add(pkt)`, one step of the event loop |
| `FlushBegin` | `flush()` up to `bulkWrite`: early return, flag, swap of both buffers |
| `ApplyUpsert`, `InsertDocument` | the database applies one operation of the unordered bulk call |
| `BulkWriteDone`, `InsertManyDone` | the awaited call resolves |
| `FlushFail` | it rejects after any part was applied: the catch block and `finally` |
| `BulkWriteRejected` | every upsert was tried and some document was refused by the collection's validator: the same catch block |
| `Receive` | one message out of `pollLoop`'s receive: skipped when malformed, else `add` and `pendingReceipts.push` |
| `ReceiveLost` | a receive whose answer is lost: `pollLoop` logs it and goes on, SQS has counted it |
| `FlushTick` | the interval timer calls `flushAndAck`, up to its first await |
| `FlushReturns`, `FlushThrows` | `flushAndAck` after `batcher.flush()` |
| `DeleteMessage`, `DeleteFail` | an entry of a `DeleteMessageBatchCommand` is deleted, or is not; `.catch` logs and goes on |
| `SigTerm`, `Exit` | signal handler: last `flushAndAck`, then `process.exit` as soon as that one has returned |
| `Crash`, `Restart` | the process dies anywhere; ECS replaces it |
| `Send`, `VisibilityTimeout`, `PrematureTimeout` | the queue: a sent message, the 60 s timeout, early redelivery |

The upserts are `$set`s, so a document keeps fields of earlier packets. When a vehicle changes its
`vehicleType`, the merged document has fields of both types and the collection's validator
refuses it, although each packet is valid by itself: `Refused` are the operations of that kind.

A `flushAndAck` whose `flush()` returned early, because another is running or there is nothing to
flush, goes on to delete the receipts it took, exactly as in the code; `acking` holds the
receipts being deleted, with the caller whose return `Exit` waits for.

`failures` counts failed calls to MongoDB, `queueFailures` lost receives and failed deletes; the
bounds `MaxFailures` and `MaxQueueFailures` are guards of the actions that count.

Three BOOLEAN constants say what the environment may do: `FlushOutlastsWindow` (the timer
fires while a flush is running), `StopDuringFlush` (SIGTERM arrives during a flush) and
`EarlyTimeout` (a message is redelivered while its receipt is held). The first two are the
preconditions of the zero-loss promise; with either of them TRUE the code breaks it (section 4).

### 2.2 Dispatch

`pc[r]` is the await a request is at. Everything between two awaits is one step.

| Action | Code |
|---|---|
| `Submit`, `Retry` | a valid POST /rides; the client repeating it after "please retry" |
| `UserExists` | `store.userExists`, 404 |
| `CacheHit`, `CacheMiss` | `redis.get(...).catch(() => null)` |
| `QueryVehicles`, `FindPositions`, `FillCache` | `readPool.query`, `telemetry.find`, `redis.setex(...).catch(...)` |
| `Decide` | `handleRide` after `availableCandidates`: 409 for an empty list; 409 if no candidate reaches the pickup; 500 if the ride itself has no path, which the code only finds out when it uses the path; or a choice |
| `Connect`, `Update`, `Insert`, `Commit`, `Rollback`, `Invalidate` | the awaits of `assignTrip` |
| `CommitUnknown` | COMMIT rejected: it took effect or not |
| `Publish` | the command and the 200 |
| `QueryFails`, `StatementFails`, `StoreClosed` | a rejected call: the catch blocks, 500 |
| `Deliver`, `LoseCommand` | QoS 0 |
| `Expire`, `Replay`, `Locate`, `OperatorReset` | TTL, replica, first telemetry of a vehicle, the operator's UPDATE |
| `SigTerm`, `Exit`, `Crash`, `Restart` | signal handler and process |

`selectVehicle` is abstracted to "any candidate": positions, and so scores, move while
requests run. `Connected` says whether every landmark can be reached from every other; without it any
list may turn out to be out of reach. `rowLock` is PostgreSQL's row lock of an uncommitted UPDATE; a second guarded
UPDATE waits for it and then re-evaluates its WHERE clause, as READ COMMITTED does.
Ghost variables: `serving[v]`, the requests with a ride of v since v was last freed;
`booking[r]`, the vehicle of r's committed ride; `leftovers`, the cached lists that name a vehicle
although it is not available because they were written so, or because the DEL of its ride never took place.
A client's retry reuses the request's identity: `told` of the ledger goes back to "none".
`Served` is the only step without an effect: it tells the quiescent state from a deadlock.

### 2.3 AStar

The graph is part of the state: the initial states are all road networks on the landmarks, so
a run covers all graphs of a size, and the proofs cover all graphs. `g`, `cameFrom` and `open` are the maps and
the set of that name; a missing key is a missing key (`?? Infinity`), and `f`, which the code
always sets together with `g`, is a definition.

| Action | Code |
|---|---|
| `Init` | a call: `startId === goalId` returns at once |
| `Expand(cur)` | one turn of `while (open.size)`: the scan, `open.delete`, the relaxation of all neighbours |
| `ReachGoal`, `Rebuild` | the goal has the lowest f; one turn of `path.unshift`, the return |
| `Unreachable` | the open set is empty: `null` |

The scan takes the first of the nodes with the lowest f, in insertion order; `IsNext` takes any of
them. Kilometres are whole numbers and `haversineKm` is any metric: what is used of it is
that the straight line never exceeds the road (the heuristic is consistent). Rounding of floating-point sums is not
modelled.

### 2.4 EventRouter and TelemetryMqtt

Environment variables choose between two deployments, and `deployment` is their value: on "aws" the
routers share a subscription and send to SQS, whose other end is `TelemetrySqs`; on "local"
there is one router, and telemetry-service listens to what it publishes.

| Action | Code |
|---|---|
| `Publish` | a vehicle publishes at QoS 0; the broker picks `Recipients`: one of a shared group, or every subscriber |
| `Subscribe`, `Listen` | the connect handlers, also after a reconnect |
| `OnMessage` | the router's message handler: `checkMessage`, then `publish` and `send`, neither awaited |
| `SendDone`, `SendRepeated`, `SendFails` | `sqs.send` resolves; succeeds twice, when the SDK repeats it; rejects, which is only logged |
| `Republish`, `Hear` | the broker takes over a validated message; the message handler of telemetry-service: `packetIsValid`, `add` |
| `FlushTick`, `FlushProgress`, `FlushReturns`, `FlushThrows` | the batcher's own timer and its flush (section 2.1) |
| `ConnectionLost`, `Unheard` | a connection drops, with the messages on it |
| `RouterSigTerm`, `RouterExit` | `client.end(true)`, then `process.exit`: sends in flight may still complete in between |
| `ServiceSigTerm`, `ServiceExit` | `batcher.stop()`, whose flush is awaited if it could begin; then `process.exit` |
| `RouterCrash`, `ServiceCrash`, `RouterRestart`, `ServiceRestart` | a process dies anywhere, or `subscribe` fails, and may be started again |

`lost` is a ghost: an action adds a message to it only when a fault or the end of a process takes it, or when it is
published while nobody is subscribed. `owed` is the ghost that remembers what the final flush
took, `resent` counts the repeated sends of each message, and only these. `MaxFaults` bounds lost connections,
stops and odd sends together.

### 2.5 VehicleSelection, FleetSimulator and FleetOperation

Coordinates are points of a grid and scores quarters of a kilometre, so that the penalties of 0.25, 2, 5 and 8
km are exact. Paths and costs between landmarks are constants here (`AStar` computes them).
The simulator's fields keep their names. A leg has `LegUnits` steps and `edgeProgress` counts them; a tick goes as many
as the speed drawn for it allows, any of the vehicle's `Paces`. That legs are equally long is a
simplification: with several paces a leg takes different numbers of ticks anyway.

`Near` is the comparison with `GPS_EPSILON` (`flows.json:113`). A tick that moves a vehicle by less, such as the last
one before it arrives, is forwarded while the vehicle drives and suppressed once it is parked. `lastSent` can
then be a place just short of the landmark, with the status "driving", until the next heartbeat, and `SentIsCurrent`
says what holds nevertheless: the landmark nearest to `lastSent`, which is all `selectVehicle` uses of a position, is the
vehicle's, and after a heartbeat of standing still place and status are exact. The history variable
`standing` counts the ticks without driving up to a heartbeat. What is assumed of the map is that landmarks
are three epsilons apart in some coordinate; in `melbourne.json` the closest pair is 0.032 degrees apart, and
epsilon is 0.0001. Coordinates are not rounded to six places here, which is a hundredth of epsilon.
 `SelectionAssumption` says
what is used of paths: they begin and end where asked, and each leg is a road (`Legal`), itself
the path between its ends. `Selections` are the calls of `selectVehicle` that `SelectsBest` is about: all
lists of up to 3 of some candidates in the run, any set of lists in the proof.

| Action | Code |
|---|---|
| `FleetTick` = `Move` + `Filter` | the simulator's function over the whole fleet, then the edge filter on each reading |
| `Engage` in `Deliver` | actuator, `dispatch`: the route is adopted wherever the vehicle is by then |
| `Disengage` in `Stop` | actuator, `stop` |
| `Reboot` in `FleetReboot` | Node-RED restarts with its context in memory: everyone at home, nothing sent |
| `Learn`, `Miss` | the reading forwarded last becomes what dispatch-service knows, or is lost |
| `Ride` | `handleRide` from candidates to command, with `selectVehicle`; atomic, as `Dispatch` has its steps |
| `Lose` | a command at QoS 0 is lost, or meets a vehicle the actuator does not know yet |
| `Reset` | the operator's UPDATE |

Everything a reading passes on its way (broker, services, batch, database, cache) is one step of
arbitrary delay; of several readings under way only the one forwarded last counts. That is
coarser than `TelemetrySqs` and `TelemetryMqtt`, and it is why the property about knowledge is a
liveness property about a vehicle that has come to rest. A command is *sound* when the vehicle stood
idle where dispatch-service took it to be (`Near`), no other command was on its way to it, and neither a reset nor
a restart came since; `SoundRides` says that soundness lasts until the vehicle has arrived.

## 3. Runs that pass

| Run | Instance | Shows |
|---|---|---|
| `sqs_core` | 2 instances, 2 packets of one vehicle with different timestamps, 2 receives, 1 failed flush, 1 lost receive or failed delete, 1 stop, early redelivery; the second packet has another `vehicleType`, so that writing it over the first is always refused | types, no loss, coverage, history order, receipts follow packets, bounded duplicates, no regress, and the refinement of `TelemetryStore` |
| `sqs_live` | 2 instances, a readable and a malformed message, 4 receives, 1 failed flush, 2 lost receives or failed deletes, 1 stop | everything readable is written and deleted, the malformed message is quarantined |
| `sqs_overlap` | 1 instance, 2 packets, 2 receives, flushes that outlast the window, early redelivery, 1 failed flush, 1 lost receive or failed delete, no stop | early deletion is harmless as long as no process stops |
| `mqtt_pipeline` | 2 routers sharing the subscription before SQS, or 1 router and 1 telemetry-service; 4 messages of 2 vehicles, one of them under a foreign topic, one with a document the collection refuses; 1 failed call, 1 fault | each message queued once and once more for each repeated send, none lost without a fault, only checked ones stored, history order, the final flush, and delivery |
| `dispatch_booking` | 3 requests (parties of 1, 5, 8), sedan, van and bus, pool of 2, 1 fault, 1 crash or SIGTERM, 1 operator reset, landmarks out of reach | one ride per vehicle, answers agree with the ledger, locks and clients are owned, the key no DEL covers is always empty, a cached list that names a booked vehicle has a cause |
| `dispatch_faults` | 2 requests, 2 vehicles, replica, 2 faults, 1 crash or SIGTERM, 1 reset | status and ride together, commands belong to rides, refinement of `FleetLedger` |
| `dispatch_live` | 2 requests for one vehicle and a stranger, pool of 2, replica, 1 fault, 1 stop, 1 reset | every request settles |
| `astar` | all choices of 7 roads between 5 landmarks, all distances of 1 or 2 | a shortest route or null, the chain agrees with `costKm`, expanded nodes are final, every call returns |
| `fleet` | a sedan for hire with two paces and the bus on a loop, an epsilon that suppresses some arrivals, 4 landmarks of which one is cut off, 2 rides, 1 stop command, 1 restart of Node-RED, any number of resets | filtering never hides where a vehicle has got to, undisturbed commands are driven on roads to the pickup, a parked vehicle becomes known; `selectVehicle` over all lists of up to 3 candidates |

Deadlock is checked in every run but two: in `astar` a search that has returned stops, in
`mqtt_pipeline` the fleet stops publishing once every message is out.

**Why the bounds are enough.** Out-of-order arrival, overtaking and regress need two packets
of one vehicle; vehicles interact only in that their upserts are separate steps of a call, so
one vehicle shows what several would (the proofs cover any number). A conflict
between instances needs two of them, redelivery two receives, "old batch retried after a newer
write" one failure. The bounds `MaxFailures`, `MaxQueueFailures`, `MaxStops`, `MaxReceiveCount` are guards of the
actions that consume them. In `sqs_live` the losses possible (2 lost receives or failed deletes + 1 stop) are fewer
than the receives (4): with as many losses as receives even a readable message ends in the
dead-letter queue, which is what the redrive policy is for. A double booking needs two requests for one vehicle; the parties
of 1 and 5 in `dispatch_booking` have lists that overlap under different keys, the party of 8 has the key no booking invalidates. In `dispatch_live` two
clients are what it takes for one request to wait for the row lock of another, and a third request to wait for a client. Faults and stops interact in pairs
(for instance an unknown commit and a failed DEL), hence 2 faults and 1 stop. In `astar` the landmark before the goal can be
reached by two roads, so that it is relaxed twice before it is expanded, and a detour can beat the road tried
first; two distances are enough to make routes of the same and of different length, and every
assignment of them is a metric. In `mqtt_pipeline` every way a message can go is taken with and
without a fault on it; the routers share nothing, so that one fault at a time shows what each of them
loses. The message under a foreign topic fails the check, and the second reading of the first vehicle
makes its document unacceptable, so that every later flush fails: two vehicles are needed to see
that the other one is still written. In `fleet` a leg takes 2 ticks (8 to 31 in the code), the
sedan is after the first within epsilon of its end, or not, by the pace drawn, and the heartbeat is 2 ticks (20 in the
code): a vehicle is seen between two landmarks, arriving within epsilon, and with a reading suppressed. A path with a landmark in the middle and a point closer to that landmark
than to either end let a command start from elsewhere than the vehicle stands; the second ride
overtakes the first after a reset.

**Fairness.** `TelemetrySqs`: weak fairness of every step that only waits for a call the code
awaits (MongoDB and SQS answer), of the interval timer, of the poll loop as a whole (for each
message, *some* instance receives it), of the visibility timeout, of `Exit` and of `Restart`
(ECS keeps the desired count). Nothing is assumed about failures, crashes or early redelivery.
`Dispatch`: weak fairness of the awaits that only wait for an answer, of the TTL, the replica,
`Exit` and `Restart`; strong fairness of the awaits that queue for a pool client or a row
lock, because node-postgres serves its waiters first come first served and PostgreSQL queues
lock waiters. `Retry` is fair: the properties are about clients that do retry. `AStar`: weak fairness of its only process,
since `aStar` is synchronous code. `TelemetryMqtt`: weak fairness of handlers, sends, the
timer, the database's answers and the exit after SIGTERM; none of publishing, of reconnecting and
of restarting, so that `Delivered` never depends on a process coming back. `FleetOperation`: weak fairness
of the tick, and strong fairness of `Learn`, because a standing vehicle repeats its reading every
heartbeat and some of these come through; a single reading may always be lost.

## 4. Where code and documentation disagree

Three runs are expected to end in a violation; `findings` in `PROJECT.json` quotes the text.

* `sqs_overlapped_flush`: the timer fires, or SIGTERM arrives, while a flush is running. `flush()`
  returns at once, and `flushAndAck` deletes messages whose packets are only in memory. Either
  of the two alone is enough: with one of `FlushOutlastsWindow` and `StopDuringFlush` FALSE the violation remains.
* `dispatch_stranded`: the process ends between COMMIT and the delivery of the command.
* `dispatch_stale_empty`: a cached list stale in the other direction refuses a passenger for
  whom a vehicle is available.

Divergences met on the way that no run is about:

* `validator.js:5-7` says that "valid to the Event Router" and "valid to the database" mean the
  same thing. They do for single packets, not for the merged document of a vehicle that changed its
  `vehicleType`: its upserts fail in every flush, and the history of that instance then waits
  for ever. The fleet of `flows.json` never changes a type.
* In MQTT mode a SIGTERM during a running flush loses the window, too (`batcher.js:76-82`): the flush
  in `stop()` returns at once. `FinalFlushKeepsWindow` is about flushes that `stop()` started.
* A comment in `flows.json:93` says that the bus ignores dispatch. The actuator (`:346`) does not:
  what keeps commands away from the bus is its status `on_trip` in the seed data.
* A command that is not sound (section 2.5) is driven from the vehicle's last landmark straight to
  the first landmark of the route, on a road or not, and a stop between two landmarks puts the
  vehicle back to the one it came from.

## 5. Proofs

`TelemetryBatcherProofs` proves, for each action of the batcher, that it keeps the types and
the two invariants `BufferCovers` and `HistoryNeverAhead`, in the strengthened form `BatcherInv`;
that a flush at rest holds no batch (`BatchInv`); that no step drops a packet from memory and history
together (`NoneDropped`), invents one (`NothingInvented`) or makes a current document older
(`CurrentStep`). `TelemetrySqsProofs` and `TelemetryMqttProofs` build on it. SQS mode:

| Theorem | States | Assumes |
|---|---|---|
| `TypeCorrect` | `Spec => []TypeOK` | the named assumptions on the constants |
| `BufferCoverage` | `Spec => []BufferCovers` | the same |
| `HistoryOrder` | `Spec => []HistoryNeverAhead` | the same |
| `NoRegress` | `Spec => CurrentNeverRegresses` | the same |
| `DuplicatesHaveCauses` | `Spec => []DuplicatesBounded` | the same |
| `NoLoss` | `Spec => []ZeroLoss` | also `FlushesUndisturbed`: neither a tick nor a SIGTERM during a flush |
| `ReceiptsStayWithPackets` | `Spec => []ReceiptsFollowPackets` | also `FlushesUndisturbed` |
| `EarlyDeleteIsHarmless` | `Spec => []NeverForgotten` | also `MaxStops = 0`: no process stops; flushes may overlap |
| `Implementation` | `Spec => ImplementsStore` | also `FlushesUndisturbed` |

`HistoryNeverAhead` is not inductive: when `InsertDocument` adds a history document, the current
document must already be at least as new. The strengthening follows the packet through the
flush: every packet in `historyBuffer` is covered by `buffer` (`BufferCovers`), every packet in
`historyBatch` by `batch`; during `bulkWrite` each vehicle of the batch either still has its
upsert in `ops` or has a current document at least as new as its batch packet; during
`insertMany` all have; and `docs` is part of `historyBatch`. Failure restores both parts
together, so coverage survives it; other instances only ever make `current` newer.

`ZeroLoss` is strengthened likewise by following the receipts: a pending receipt has its packet in
`historyBuffer`, a receipt of the running flush has it in `historyBatch`, every packet of
`historyBatch` that is not in `docs` during `insertMany` is in `history`, and a receipt being deleted has its packet in
`history`. The step that needs `FlushesUndisturbed` is `FlushAndAck` with `~CanFlush`: with an
idle flush it means both buffers are empty, hence so is `pendingReceipts`.

`NeverForgotten` allows overlapping flushes. `KeptInv` says that wherever a receipt is held, the packet
is in the history or in the memory of some instance, and `NoneDropped` that no step of a batcher but the end of its
process takes it away there.

`DuplicatesBounded` relates the history to two counters: a message has at most
`receives * (failures + 1)` documents, where `failures` are failed flushes alone: lost receives and failed deletes are
not among them, as they show in `receives`. The proof avoids sums over instances by handing out tokens
(`Covered`): the copies in the memory of the instances hold disjoint sets of tokens out of `1..receives`, and what
they are still to insert (`Pending`), together with the documents there are, holds disjoint sets out of
`(1..receives) \X (0..failures)`. A receive brings new tokens for its instance (`TokenIsAdded`), an insert passes one from the
instance to the history (`TokenIsMoved`), and a failure, after which the instance may insert all its
copies once more, brings a whole round of them (`RoundIsAdded`). All other steps, early returns and crashes
included, need no token (`QuietStep`). No set has more tokens than there are (`CoveredIsBounded`).

The refinement is step by step. `InvisibleSteps` leave the documents, the history and the deleted
messages alone; the visible ones are an upsert, an insert and a delete, and map to the store's
three actions. A delete needs `ReceiptsFollowPackets`, an upsert that the slot it replaces holds a packet of the same vehicle
(`OwnSlots`), an insert `HistoryNeverAhead`.

`TelemetryMqttProofs` assumes the named assumptions only, for any number of routers, instances, vehicles and faults:

| Theorem | States | Invariant behind it |
|---|---|---|
| `TypeCorrect` | `Spec => []TypeOK` | itself |
| `HistoryOrder` | `Spec => []HistoryNeverAhead` | `BatcherInv` |
| `OwnTopic` | `Spec => []StoredUnderOwnTopic` | `OnlyCheckedPass`: what leaves a router, travels on, or is in a buffer, a batch or a collection is in `Checked` |
| `NoSilentLoss` | `Spec => []Accounted` | `Accounted` itself, with `BatchInv` and `NoneDropped` for the flush |
| `SharedSubscription` | `Spec => []QueuedOnce` | `OneCopy`: on "aws" at most one router has a message, and only one that was published and whose copies in the queue are all due to repeated sends |
| `FinalFlushWrites` | `Spec => FinalFlushKeepsWindow` | `OwedInv`: each packet owed is in the batch of the final flush as long as that runs, and in the history once it has returned |

`DispatchProofs` assumes no more than `DispatchAssumption`, so the fleet, the pool, the number of
requests and the bounds on faults, stops and resets are arbitrary.

| Theorem | States |
|---|---|
| `TypeCorrect` | `Spec => []TypeOK` |
| `UncoveredKeys` | `Spec => []UncoveredKeysEmpty`, where every taxi has at most `CacheableSeats` seats |
| `OwnedLocks` | `Spec => []LocksAreOwned` |
| `OneRide` | `Spec => []NoDoubleBooking` |
| `RideAndStatus` | `Spec => []BookedTogether` |
| `HonestAnswers` | `Spec => []AnswersMatchLedger` |
| `HonestCommands` | `Spec => []CommandsMatchLedger` |
| `StaleCaused` | `Spec => []StaleHasCause` |
| `NoCircularWait` | `Spec => []SomebodyGoesOn`: while requests are being handled, one of them has what it waits for |

Apart from `TypeCorrect` and `StaleCaused` none of these is inductive. `NoCircularWait` is what remains of `EveryRequestSettles` without fairness: who waits for a row
waits for a request in a transaction, which waits for nothing but answers, and who waits for a client
when nobody is in a transaction finds the pool free. Four invariants, each proved in one lemma per step of the system, carry them:

* `SeatInv`: cached lists, candidates and choices are taxis that seat the party they were made
  for. The bus is `on_trip` on the primary and the replica and never appears in the WAL.
* `LockInv`: a row has at most one lock, only rows of available vehicles are locked, and a
  request that is about to insert or commit still holds its lock. This is where the guard of the UPDATE enters.
* `LedgerInv`: an available vehicle has no ride. Only `Committed` and `OperatorReset` change status or rides
  (`LedgerSteps`), and a committing request finds its vehicle available by `LockInv`, hence without a ride.
* `AnswerInv` follows one request: no ride up to COMMIT, the chosen vehicle's ride after it,
  and while it rolls back, "just taken" only if there is no ride.

`StaleHasCause` is inductive with the types: the step that makes a listed vehicle stale is a commit, after which its request is at
the DEL, and a request leaves the DEL with the keys deleted or with the lists it should have deleted in `leftovers`.

`DispatchLedgerProofs` adds `Implementation`, `Spec => ImplementsLedger`: the commit, the answers, the publication,
the operator's reset and the loss of connections map to the ledger's actions, everything else
(cache, replica, locks, reads, rollbacks) is invisible. The mapping needs the four
invariants: that a commit books a free vehicle, and that answers and commands agree with the ledger
are premises of the ledger's actions.

`FleetProofs` shows `FilterHidesNoMove`, `Spec => []SentIsCurrent`, for any fleet, graph, heartbeat, epsilon, paces and
length of a leg. Its invariant `SentInv` follows the entry of `lastSent` and its age: the entry says exactly where the vehicle is, or the
vehicle stands and is within epsilon of it; it is older than the vehicle's rest by no tick, and if it is younger it is exact and does
not say "driving"; and its age is always below a heartbeat, so that after a heartbeat of rest it is younger. Since landmarks are three epsilons apart,
a place within epsilon of a landmark has that landmark as its nearest (`NearIsNearest`).

`SoundCommandsAreDriven` shows `Spec => []SoundRides` without further premises. The invariant `RideInv` adds what makes
soundness last: the vehicle of a sound command is booked, so that no other booking can
choose it, and there is no second command for it. That a command begins where the vehicle stands rests on the three
loops between candidates and command:

| Theorem | States |
|---|---|
| `NearestIsClosest` | `nearestNode` returns a landmark no other is closer than; a landmark is nearest to itself (`NearestToItself`) |
| `BestIsSelected` | `Spec => []SelectsBest`: `selectVehicle` returns the first of the reachable candidates of lowest score, or null |
| `FleetTypes` | `Spec => []FleetTypeOK` |

and the lemma `SelectsCandidate`, that whoever is selected is an eligible vehicle that reaches the pickup. Each loop is a
fold of the community modules, defined there by recursion over sets of indices. `Induction` shows
that the recursive function of such a fold exists (`FoldExists`); its values on the sets `1..k` are what the
loop holds after `k` turns, and an invariant of the turns is carried to the end by `InductionUpTo`. `Induction` itself
needs no predicate as a parameter: what holds of 0 and of every successor is a *set* of numbers, and a set of
numbers that is not empty has a least element (`LeastElement`), because finite sets are
well-founded under strict inclusion, which the library proves.

`AStarProofs` assumes `AStarAssumption` and that distances form a metric (part of `Init`):

| Theorem | States |
|---|---|
| `TypeCorrect` | `Spec => []TypeOK` |
| `ChainIsTight` | `Spec => []CameFromTight` |
| `ClosedFinal` | `Spec => ClosedIsFinal` |
| `NoShorterRoute` | `Spec => []Certified` |
| `ShortestReturned` | `Spec => []ReturnsShortest` |
| `TurnsAreBounded` | `Spec => [](turnsLeft \in 0..(2 * Cardinality(Nodes) + 2)) /\ [][turnsLeft' < turnsLeft]_vars` |
| `ScanFinds` | `Spec => []NeverStuck`: an open set that is not empty has a node with the lowest f |

The code has no closed set, so that an expanded node is final must follow from the order of expansion. The
invariant: every closed node has f no greater than any open node (`Frontier`), every road out
of a closed node is relaxed (`Relaxed`), and no f is below the straight line from start to goal
(`AboveStraight`). With a consistent heuristic a relaxation can then never improve a closed node.
`Certified` turns this into optimality: `price` starts at 0, ends at `costKm` and rises along a
road by no more than its length, so every route costs at least `costKm`: `RoutesCostMore` adds the legs up along a route by
induction over its length. The returned path is such a route, because it is the chain of `cameFrom` (`PathInv`), whose
links add up to `g` (`CameFromTight`) and along which `g` rises, so that no node is on it twice. null is returned
with an empty open set, when the nodes that can be reached from the start are all closed and the goal is not
(`NoRouteWithoutOpen`).

`TurnsAreBounded` and `ScanFinds` are `Terminates` without its fairness: `turnsLeft` counts the nodes that are not closed, which
`ClosedIsFinal` lets only shrink, and then those with a smaller `g` than the node the path has got back to.

**Only model-checked** are the seven liveness properties `EventuallyWritten`, `EventuallyDeleted`,
`MalformedQuarantined`, `Delivered`, `EveryRequestSettles`, `Terminates` and
`ParkedIsFound`: liveness under fairness and ENABLED are beyond the prover. Every invariant and every action
property that a passing run checks is stated by a theorem.

## 6. Not modelled

* MongoDB: TTL pruning, indexes, the replica set, and what its validator checks besides the fields of a vehicle type.
* Fleet: lengths of legs, headings, doors and loads, the rounding of coordinates; the battery's drift, by which a vehicle that charges stops
  doing so at 40 % and starts again; the reconciliation of `LOAD-*` vehicles, which then behave like
  the bus (their loops need not be roads); `settings.js`, which configures the editor.
* `graph.js`: trigonometry and the look-ups of landmarks by name; rounding of floating-point sums.
* Broker: its own restart and its persistence; nothing here is retained or sent above QoS 0.
* `terraform/`: the alarms and step policies that decide when to scale (that instances come and go at any
  time is modelled), networking, secrets, authentication; the bootstrap of the
  replica in `replica-entrypoint.sh`, a shell script around `pg_basebackup`.
* Which rule of the schema a message breaks; logging and statistics; requests answered without
  touching state (400, /health, /nodes); SQS retention.
* Sends repeated by a vehicle or by the router are two messages with equal content in `TelemetrySqs`.

## 7. Plan

What could still be added, by expected worth: that the paths `AStar` returns meet `SelectionAssumption`, so that the two
models meet in a theorem; what else of the liveness properties holds without fairness, for the pipelines (a step of every running
flush is possible in every state) as for `NoCircularWait`; and the reconciliation of `LOAD-*` vehicles as
actions of `FleetSimulator`.
