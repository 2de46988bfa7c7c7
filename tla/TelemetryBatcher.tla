-------------------------- MODULE TelemetryBatcher --------------------------
(***************************************************************************)
(* services/telemetry-service/src/batcher.js: the batcher of every running *)
(* instance of telemetry-service, and the two MongoDB collections they     *)
(* share.  There is no next-state relation here: TelemetrySqs and          *)
(* TelemetryMqtt extend this module with the two ways packets come in.     *)
(*                                                                         *)
(* A flush is not atomic.  bulkWrite and insertMany are awaited, both are  *)
(* unordered and neither is a transaction, so each upsert and each insert  *)
(* is a step, other instances and newly added packets come in between, and *)
(* either call can fail after part of its documents have landed.           *)
(*                                                                         *)
(* A definition marked "Mutant" is a plausible slip in the definition that *)
(* follows it.  No specification uses it; it shows which property notices. *)
(***************************************************************************)
EXTENDS Integers

CONSTANTS Instances,     \* ECS tasks of telemetry-service
          Vehicles,      \* vehicleIDs
          Packets,       \* telemetry packets
          VehicleOf,     \* packet -> vehicleID
          TimestampOf,   \* packet -> edge timestamp
          VehicleTypeOf, \* packet -> vehicleType, which decides the fields it has
          NoPacket,      \* undefined in a buffer, no document in the collection
          MaxFailures    \* bound on failed database calls

ASSUME BatcherAssumption ==
    /\ VehicleOf \in [Packets -> Vehicles]
    /\ TimestampOf \in [Packets -> Nat]
    /\ NoPacket \notin Packets
    /\ MaxFailures \in Nat

VARIABLES
    buffer,         \* [i][v]  newest packet of v this window
    historyBuffer,  \* [i][p]  copies of p received this window (a bag)
    stage,          \* [i]     "idle", or the call the running flush awaits
    batch,          \* [i][v]  the buffer the running flush took
    historyBatch,   \* [i][p]  the history buffer the running flush took
    ops,            \* [i]     vehicles whose upsert has not been applied yet
    docs,           \* [i][p]  history documents not inserted yet
    current,        \* [v]     collection telemetry: the document of v
    history,        \* [p]     collection telemetry_history: documents of p
    failures        \* failed database calls so far

memoryVars == <<buffer, historyBuffer, stage, batch, historyBatch, ops, docs>>
mongoVars == <<current, history>>
batcherVars == <<memoryVars, mongoVars, failures>>

NoneHeld == [v \in Vehicles |-> NoPacket]
NoCopies == [p \in Packets |-> 0]

BatcherTypeOK ==
    /\ buffer \in [Instances -> [Vehicles -> Packets \union {NoPacket}]]
    /\ historyBuffer \in [Instances -> [Packets -> Nat]]
    /\ stage \in [Instances -> {"idle", "bulkWrite", "insertMany"}]
    /\ batch \in [Instances -> [Vehicles -> Packets \union {NoPacket}]]
    /\ historyBatch \in [Instances -> [Packets -> Nat]]
    /\ ops \in [Instances -> SUBSET Vehicles]
    /\ docs \in [Instances -> [Packets -> Nat]]
    /\ current \in [Vehicles -> Packets \union {NoPacket}]
    /\ history \in [Packets -> Nat]
    /\ failures \in 0..MaxFailures

BatcherInit ==
    /\ buffer = [i \in Instances |-> NoneHeld]
    /\ historyBuffer = [i \in Instances |-> NoCopies]
    /\ stage = [i \in Instances |-> "idle"]
    /\ batch = [i \in Instances |-> NoneHeld]
    /\ historyBatch = [i \in Instances |-> NoCopies]
    /\ ops = [i \in Instances |-> {}]
    /\ docs = [i \in Instances |-> NoCopies]
    /\ current = NoneHeld
    /\ history = NoCopies
    /\ failures = 0

-----------------------------------------------------------------------------
(* add(pkt), which runs to completion in the message handler.              *)

\* q is a packet or document at least as new as packet p
AtLeast(q, p) == q # NoPacket /\ TimestampOf[q] >= TimestampOf[p]

\* q is strictly newer than p: add() drops p for the current state
Newer(q, p) == q # NoPacket /\ TimestampOf[q] > TimestampOf[p]

\* Mutant: the last packet to arrive wins
BufferedLast(held, p) == p

\* The packet the buffer holds for p's vehicle after p is added
Buffered(held, p) == IF Newer(held, p) THEN held ELSE p

Add(i, p) ==
    /\ historyBuffer' = [historyBuffer EXCEPT ![i][p] = @ + 1]
    /\ buffer' = [buffer EXCEPT ![i][VehicleOf[p]] = Buffered(@, p)]
    /\ UNCHANGED <<stage, batch, historyBatch, ops, docs, mongoVars, failures>>

-----------------------------------------------------------------------------
(* flush(), one action per await.                                          *)

HasBuffered(i) == buffer[i] # NoneHeld \/ historyBuffer[i] # NoCopies

\* flush() goes past its early return: nothing else is flushing and there is
\* something to flush
CanFlush(i) == stage[i] = "idle" /\ HasBuffered(i)

\* Mutant: historyBuffer is not reset
FlushBeginKeepsHistory(i) ==
    /\ CanFlush(i)
    /\ stage' = [stage EXCEPT ![i] = "bulkWrite"]
    /\ batch' = [batch EXCEPT ![i] = buffer[i]]
    /\ historyBatch' = [historyBatch EXCEPT ![i] = historyBuffer[i]]
    /\ ops' = [ops EXCEPT ![i] = {v \in Vehicles : buffer[i][v] # NoPacket}]
    /\ UNCHANGED <<buffer, historyBuffer, docs, mongoVars, failures>>

\* Take both buffers and call bulkWrite (with no operations when the buffer
\* is empty, which is the code's skipping it)
FlushBegin(i) ==
    /\ CanFlush(i)
    /\ stage' = [stage EXCEPT ![i] = "bulkWrite"]
    /\ batch' = [batch EXCEPT ![i] = buffer[i]]
    /\ historyBatch' = [historyBatch EXCEPT ![i] = historyBuffer[i]]
    /\ ops' = [ops EXCEPT ![i] = {v \in Vehicles : buffer[i][v] # NoPacket}]
    /\ buffer' = [buffer EXCEPT ![i] = NoneHeld]
    /\ historyBuffer' = [historyBuffer EXCEPT ![i] = NoCopies]
    /\ UNCHANGED <<docs, mongoVars, failures>>

\* Mutant: an update without the $cond on the timestamp
UpsertedAlways(doc, p) == p

\* The document after buildUpsert's pipeline: every field takes the packet's
\* value when the packet's timestamp is $gte the stored one, else its own
Upserted(doc, p) == IF Newer(doc, p) THEN doc ELSE p

\* An update that takes p's fields leaves the fields of doc p does not have;
\* when they are of another vehicle type, the document that results fits no
\* alternative of the schema and the collection's validator refuses it
Refused(doc, p) ==
    doc # NoPacket /\ ~Newer(doc, p) /\ VehicleTypeOf[doc] # VehicleTypeOf[p]

ApplyUpsert(i, v) ==
    /\ stage[i] = "bulkWrite"
    /\ v \in ops[i]
    /\ ~Refused(current[v], batch[i][v])
    /\ current' = [current EXCEPT ![v] = Upserted(@, batch[i][v])]
    /\ ops' = [ops EXCEPT ![i] = @ \ {v}]
    /\ UNCHANGED <<buffer, historyBuffer, stage, batch, historyBatch, docs, history, failures>>

\* Mutant: bulkWrite is not awaited
BulkWriteUnawaited(i) ==
    /\ stage[i] = "bulkWrite"
    /\ stage' = [stage EXCEPT ![i] = "insertMany"]
    /\ docs' = [docs EXCEPT ![i] = historyBatch[i]]
    /\ UNCHANGED <<buffer, historyBuffer, batch, historyBatch, ops, mongoVars, failures>>

BulkWriteDone(i) ==
    /\ stage[i] = "bulkWrite"
    /\ ops[i] = {}
    /\ stage' = [stage EXCEPT ![i] = "insertMany"]
    /\ docs' = [docs EXCEPT ![i] = historyBatch[i]]
    /\ UNCHANGED <<buffer, historyBuffer, batch, historyBatch, ops, mongoVars, failures>>

InsertDocument(i, p) ==
    /\ stage[i] = "insertMany"
    /\ docs[i][p] > 0
    /\ history' = [history EXCEPT ![p] = @ + 1]
    /\ docs' = [docs EXCEPT ![i][p] = @ - 1]
    /\ UNCHANGED <<buffer, historyBuffer, stage, batch, historyBatch, ops, current, failures>>

\* flush() returns normally and drops the batches
InsertManyDone(i) ==
    /\ stage[i] = "insertMany"
    /\ docs[i] = NoCopies
    /\ stage' = [stage EXCEPT ![i] = "idle"]
    /\ batch' = [batch EXCEPT ![i] = NoneHeld]
    /\ historyBatch' = [historyBatch EXCEPT ![i] = NoCopies]
    /\ UNCHANGED <<buffer, historyBuffer, ops, docs, mongoVars, failures>>

\* What the catch block leaves in the buffer for a vehicle: the packet of the
\* failed batch, unless one at least as new came in meanwhile
Restored(held, failed) ==
    IF failed = NoPacket \/ (held # NoPacket /\ TimestampOf[held] >= TimestampOf[failed])
    THEN held ELSE failed

\* Mutant: only the current-state batch is restored
TakeBackForgetful(i) ==
    /\ buffer' = [buffer EXCEPT ![i] = [v \in Vehicles |-> Restored(@[v], batch[i][v])]]
    /\ stage' = [stage EXCEPT ![i] = "idle"]
    /\ batch' = [batch EXCEPT ![i] = NoneHeld]
    /\ historyBatch' = [historyBatch EXCEPT ![i] = NoCopies]
    /\ ops' = [ops EXCEPT ![i] = {}]
    /\ docs' = [docs EXCEPT ![i] = NoCopies]
    /\ UNCHANGED <<historyBuffer, mongoVars>>

\* The catch and finally blocks: both batches go back to their buffers
TakeBack(i) ==
    /\ buffer' = [buffer EXCEPT ![i] = [v \in Vehicles |-> Restored(@[v], batch[i][v])]]
    /\ historyBuffer' = [historyBuffer EXCEPT ![i] =
                            [p \in Packets |-> historyBatch[i][p] + @[p]]]
    /\ stage' = [stage EXCEPT ![i] = "idle"]
    /\ batch' = [batch EXCEPT ![i] = NoneHeld]
    /\ historyBatch' = [historyBatch EXCEPT ![i] = NoCopies]
    /\ ops' = [ops EXCEPT ![i] = {}]
    /\ docs' = [docs EXCEPT ![i] = NoCopies]
    /\ UNCHANGED mongoVars

\* The awaited call rejects, with any part of its documents applied, and
\* flush() throws
FlushFail(i) ==
    /\ stage[i] # "idle"
    /\ failures < MaxFailures
    /\ failures' = failures + 1
    /\ TakeBack(i)

\* Mutant: an ordered bulkWrite stops at the first upsert that is refused
BulkWriteStops(i) ==
    /\ stage[i] = "bulkWrite"
    /\ \E v \in ops[i] : Refused(current[v], batch[i][v])
    /\ TakeBack(i)
    /\ UNCHANGED failures

\* Mutant: the rejection of bulkWrite is caught before insertMany
BulkWriteErrorIgnored(i) ==
    /\ stage[i] = "bulkWrite"
    /\ ops[i] # {}
    /\ \A v \in ops[i] : Refused(current[v], batch[i][v])
    /\ stage' = [stage EXCEPT ![i] = "insertMany"]
    /\ docs' = [docs EXCEPT ![i] = historyBatch[i]]
    /\ UNCHANGED <<buffer, historyBuffer, batch, historyBatch, ops, mongoVars, failures>>

\* bulkWrite has tried all the upserts and rejects because of those refused
BulkWriteRejected(i) ==
    /\ stage[i] = "bulkWrite"
    /\ ops[i] # {}
    /\ \A v \in ops[i] : Refused(current[v], batch[i][v])
    /\ TakeBack(i)
    /\ UNCHANGED failures

\* The process is gone, and with it all the batcher holds.  Documents that
\* have landed stay.
ForgetMemory(i) ==
    /\ buffer' = [buffer EXCEPT ![i] = NoneHeld]
    /\ historyBuffer' = [historyBuffer EXCEPT ![i] = NoCopies]
    /\ stage' = [stage EXCEPT ![i] = "idle"]
    /\ batch' = [batch EXCEPT ![i] = NoneHeld]
    /\ historyBatch' = [historyBatch EXCEPT ![i] = NoCopies]
    /\ ops' = [ops EXCEPT ![i] = {}]
    /\ docs' = [docs EXCEPT ![i] = NoCopies]
    /\ UNCHANGED <<mongoVars, failures>>

-----------------------------------------------------------------------------
(* Properties of the batcher, whichever way packets come in.               *)

\* Copies of p an instance holds in memory
InMemory(i, p) == historyBuffer[i][p] + historyBatch[i][p]

(* Every packet waiting for its history document is represented in the     *)
(* current-state buffer next to it by a packet of its vehicle that is at   *)
(* least as new: through out-of-order arrivals, the swap of the two        *)
(* buffers and their restoration after a failed flush (add and the catch   *)
(* block of flush).                                                        *)
BufferCovers == \A i \in Instances, p \in Packets :
    /\ historyBuffer[i][p] > 0 => AtLeast(buffer[i][VehicleOf[p]], p)
    /\ historyBatch[i][p] > 0 => AtLeast(batch[i][VehicleOf[p]], p)

(* No vehicle's history runs ahead of its current document: whatever is in *)
(* telemetry_history, telemetry holds a reading at least as new.  It is    *)
(* the order of the two writes in flush, the restoration of both batches   *)
(* together and the guard of buildUpsert that keep it so when instances    *)
(* flush concurrently, fail half-way and retry.                            *)
HistoryNeverAhead == \A p \in Packets :
    history[p] > 0 => AtLeast(current[VehicleOf[p]], p)
=============================================================================
