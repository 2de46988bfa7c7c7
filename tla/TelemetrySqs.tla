---------------------------- MODULE TelemetrySqs ----------------------------
(***************************************************************************)
(* services/telemetry-service/src/index.js with SQS_QUEUE_URL set: several *)
(* instances poll one queue, batch what they receive and delete a message  *)
(* after the flush that wrote its packet.                                  *)
(*                                                                         *)
(* A receipt is <<p, n>>: the handle SQS returned with the n-th receive of *)
(* the message that carries p.                                             *)
(***************************************************************************)
EXTENDS TelemetryBatcher

CONSTANTS Malformed,            \* messages that are not JSON or fail packetIsValid
          MaxReceiveCount,      \* the queue's redrive_policy
          MaxStops,             \* bound on crashes and SIGTERMs
          MaxQueueFailures,     \* bound on lost receives and failed deletes
          FlushOutlastsWindow,  \* BATCH_MS may elapse while a flush is running
          StopDuringFlush,      \* SIGTERM may arrive while a flush is running
          EarlyTimeout          \* a message may reappear while its receipt is held

ASSUME SqsAssumption ==
    /\ Malformed \subseteq Packets
    /\ MaxReceiveCount \in Nat \ {0}
    /\ MaxStops \in Nat
    /\ MaxQueueFailures \in Nat
    /\ {FlushOutlastsWindow, StopDuringFlush, EarlyTimeout} \subseteq BOOLEAN

VARIABLES
    status,           \* [i]  the process: "running", "stopping" (SIGTERM), "down"
    pendingReceipts,  \* [i]  receipts handed to the batcher since the last flush
    flushReceipts,    \* [i]  receipts of the flushAndAck whose flush is running
    flushCaller,      \* [i]  what called it: the "timer" or "stop"
    acking,           \* [i]  receipts a flushAndAck is deleting, with its caller
    queue,            \* [p]  where SQS has the message of p
    receives,         \* [p]  its receive count
    queueFailures,    \* receives lost and deletes failed so far
    stops             \* processes that have stopped so far

instanceVars == <<status, pendingReceipts, flushReceipts, flushCaller, acking>>
queueVars == <<queue, receives, queueFailures>>
vars == <<batcherVars, instanceVars, queueVars, stops>>

Callers == {"timer", "stop"}
Receipts == Packets \X (1..MaxReceiveCount)
Valid == Packets \ Malformed

TypeOK ==
    /\ BatcherTypeOK
    /\ status \in [Instances -> {"running", "stopping", "down"}]
    /\ pendingReceipts \in [Instances -> SUBSET Receipts]
    /\ flushReceipts \in [Instances -> SUBSET Receipts]
    /\ flushCaller \in [Instances -> Callers]
    /\ acking \in [Instances -> SUBSET (Callers \X Receipts)]
    /\ queue \in [Packets -> {"unsent", "visible", "inflight", "deleted", "dead"}]
    /\ receives \in [Packets -> 0..MaxReceiveCount]
    /\ queueFailures \in 0..MaxQueueFailures
    /\ stops \in 0..MaxStops

Init ==
    /\ BatcherInit
    /\ status = [i \in Instances |-> "running"]
    /\ pendingReceipts = [i \in Instances |-> {}]
    /\ flushReceipts = [i \in Instances |-> {}]
    /\ flushCaller = [i \in Instances |-> "timer"]
    /\ acking = [i \in Instances |-> {}]
    /\ queue = [p \in Packets |-> "unsent"]
    /\ receives = [p \in Packets |-> 0]
    /\ queueFailures = 0
    /\ stops = 0

-----------------------------------------------------------------------------
(* The queue.                                                              *)

Send(p) ==
    /\ queue[p] = "unsent"
    /\ queue' = [queue EXCEPT ![p] = "visible"]
    /\ UNCHANGED <<batcherVars, instanceVars, receives, queueFailures, stops>>

\* The receipts an instance still means to delete
Held(i) ==
    pendingReceipts[i] \union flushReceipts[i] \union {a[2] : a \in acking[i]}

Latest(p) == <<p, receives[p]>>

HeldBySomeone(p) == \E i \in Instances : Latest(p) \in Held(i)

\* Mutant: no redrive policy
ReappearAlways(p) ==
    /\ queue[p] = "inflight"
    /\ queue' = [queue EXCEPT ![p] = "visible"]
    /\ UNCHANGED <<batcherVars, instanceVars, receives, queueFailures, stops>>

\* Mutant: one receive too few
ReappearOnceLess(p) ==
    /\ queue[p] = "inflight"
    /\ queue' = [queue EXCEPT ![p] =
                    IF receives[p] + 1 < MaxReceiveCount THEN "visible" ELSE "dead"]
    /\ UNCHANGED <<batcherVars, instanceVars, receives, queueFailures, stops>>

\* The message of p reappears, or moves to the dead-letter queue after its
\* last receive
Reappear(p) ==
    /\ queue[p] = "inflight"
    /\ queue' = [queue EXCEPT ![p] =
                    IF receives[p] < MaxReceiveCount THEN "visible" ELSE "dead"]
    /\ UNCHANGED <<batcherVars, instanceVars, receives, queueFailures, stops>>

\* The visibility timeout, 60 s, ends with nobody left to delete the message
VisibilityTimeout(p) == ~HeldBySomeone(p) /\ Reappear(p)

\* It ends, or a standard queue delivers once too often, while an instance is
\* still working on the message
PrematureTimeout(p) == EarlyTimeout /\ HeldBySomeone(p) /\ Reappear(p)

-----------------------------------------------------------------------------
(* pollLoop                                                                *)

\* Mutant: the receipt is pushed before the packet is checked
ReceiveUnchecked(i, p) ==
    /\ status[i] # "down"
    /\ queue[p] = "visible"
    /\ queue' = [queue EXCEPT ![p] = "inflight"]
    /\ receives' = [receives EXCEPT ![p] = @ + 1]
    /\ pendingReceipts' = [pendingReceipts EXCEPT ![i] = @ \union {<<p, receives'[p]>>}]
    /\ \/ p \in Malformed /\ UNCHANGED batcherVars
       \/ p \notin Malformed /\ Add(i, p)
    /\ UNCHANGED <<status, flushReceipts, flushCaller, acking, queueFailures, stops>>

\* One received message: a malformed one is skipped, any other goes to the
\* batcher and its receipt to pendingReceipts.  A receive call issued before
\* SIGTERM may still return after it.
Receive(i, p) ==
    /\ status[i] # "down"
    /\ queue[p] = "visible"
    /\ queue' = [queue EXCEPT ![p] = "inflight"]
    /\ receives' = [receives EXCEPT ![p] = @ + 1]
    /\ \/ /\ p \in Malformed
          /\ UNCHANGED <<batcherVars, pendingReceipts>>
       \/ /\ p \notin Malformed
          /\ Add(i, p)
          /\ pendingReceipts' = [pendingReceipts EXCEPT ![i] = @ \union {<<p, receives'[p]>>}]
    /\ UNCHANGED <<status, flushReceipts, flushCaller, acking, queueFailures, stops>>

\* A call to SQS fails
QueueFailure == queueFailures < MaxQueueFailures /\ queueFailures' = queueFailures + 1

\* The receive call is rejected after SQS has counted it: its messages are in
\* flight and nobody has their receipts.  A rejected call SQS never saw changes
\* nothing; either way the loop polls again.
ReceiveLost(p) ==
    /\ \E i \in Instances : status[i] # "down"
    /\ queue[p] = "visible"
    /\ QueueFailure
    /\ queue' = [queue EXCEPT ![p] = "inflight"]
    /\ receives' = [receives EXCEPT ![p] = @ + 1]
    /\ UNCHANGED <<batcherVars, instanceVars, stops>>

-----------------------------------------------------------------------------
(* flushAndAck                                                             *)

\* What is left to delete once flush() has returned to caller
Deleting(caller, receipts) == {<<caller, r>> : r \in receipts}

\* The call up to its first await.  When flush() returns early, because a flush
\* is running or the buffers are empty, the receipts taken go on to be deleted.
FlushAndAck(i, caller) ==
    /\ pendingReceipts' = [pendingReceipts EXCEPT ![i] = {}]
    /\ \/ /\ FlushBegin(i)
          /\ flushReceipts' = [flushReceipts EXCEPT ![i] = pendingReceipts[i]]
          /\ flushCaller' = [flushCaller EXCEPT ![i] = caller]
          /\ UNCHANGED acking
       \/ /\ ~CanFlush(i)
          /\ acking' = [acking EXCEPT ![i] = @ \union Deleting(caller, pendingReceipts[i])]
          /\ UNCHANGED <<batcherVars, flushReceipts, flushCaller>>

FlushTick(i) ==
    /\ status[i] = "running"
    /\ stage[i] = "idle" \/ FlushOutlastsWindow
    /\ FlushAndAck(i, "timer")
    /\ UNCHANGED <<status, queueVars, stops>>

\* The steps of the running flush that leave flushAndAck waiting
FlushProgress(i) ==
    /\ \/ \E v \in Vehicles : ApplyUpsert(i, v)
       \/ BulkWriteDone(i)
       \/ \E p \in Packets : InsertDocument(i, p)
    /\ UNCHANGED <<instanceVars, queueVars, stops>>

FlushReturns(i) ==
    /\ InsertManyDone(i)
    /\ acking' = [acking EXCEPT ![i] = @ \union Deleting(flushCaller[i], flushReceipts[i])]
    /\ flushReceipts' = [flushReceipts EXCEPT ![i] = {}]
    /\ UNCHANGED <<status, pendingReceipts, flushCaller, queueVars, stops>>

\* Mutant: flush() swallows its error
FlushThrowsNothing(i) ==
    /\ FlushFail(i)
    /\ acking' = [acking EXCEPT ![i] = @ \union Deleting(flushCaller[i], flushReceipts[i])]
    /\ flushReceipts' = [flushReceipts EXCEPT ![i] = {}]
    /\ UNCHANGED <<status, pendingReceipts, flushCaller, queueVars, stops>>

\* The catch block: the receipts go back in front of the pending ones
RestoreReceipts(i) ==
    /\ pendingReceipts' = [pendingReceipts EXCEPT ![i] = flushReceipts[i] \union @]
    /\ flushReceipts' = [flushReceipts EXCEPT ![i] = {}]
    /\ UNCHANGED <<status, flushCaller, acking, queueVars, stops>>

FlushThrows(i) == FlushFail(i) /\ RestoreReceipts(i)

FlushRefused(i) == BulkWriteRejected(i) /\ RestoreReceipts(i)

\* SQS deletes a message by the handle of its latest receive; by an older one
\* it may
DeleteMessage(i, a) ==
    LET p == a[2][1] IN
    /\ a \in acking[i]
    /\ acking' = [acking EXCEPT ![i] = @ \ {a}]
    /\ \/ queue' = [queue EXCEPT ![p] = IF @ = "dead" THEN @ ELSE "deleted"]
       \/ a[2] # Latest(p) /\ UNCHANGED queue
    /\ UNCHANGED <<batcherVars, status, pendingReceipts, flushReceipts, flushCaller,
                   receives, queueFailures, stops>>

\* The delete call fails, or reports the entry as failed: it is not retried
DeleteFail(i, a) ==
    /\ a \in acking[i]
    /\ QueueFailure
    /\ acking' = [acking EXCEPT ![i] = @ \ {a}]
    /\ UNCHANGED <<batcherVars, status, pendingReceipts, flushReceipts, flushCaller,
                   queue, receives, stops>>

-----------------------------------------------------------------------------
(* The process.                                                            *)

\* The signal handler: no more polling, no more timer, one last flushAndAck
SigTerm(i) ==
    /\ status[i] = "running"
    /\ stage[i] = "idle" \/ StopDuringFlush
    /\ stops < MaxStops
    /\ stops' = stops + 1
    /\ status' = [status EXCEPT ![i] = "stopping"]
    /\ FlushAndAck(i, "stop")
    /\ UNCHANGED queueVars

\* stopIngestion() has returned to the signal handler
StopDone(i) ==
    /\ status[i] = "stopping"
    /\ ~(stage[i] # "idle" /\ flushCaller[i] = "stop")
    /\ \A a \in acking[i] : a[1] # "stop"

Forget(i) ==
    /\ ForgetMemory(i)
    /\ status' = [status EXCEPT ![i] = "down"]
    /\ pendingReceipts' = [pendingReceipts EXCEPT ![i] = {}]
    /\ flushReceipts' = [flushReceipts EXCEPT ![i] = {}]
    /\ flushCaller' = [flushCaller EXCEPT ![i] = "timer"]
    /\ acking' = [acking EXCEPT ![i] = {}]
    /\ UNCHANGED queueVars

\* mongo.close() and process.exit(0), whatever the timer's flush is doing
Exit(i) == StopDone(i) /\ Forget(i) /\ UNCHANGED stops

Crash(i) ==
    /\ status[i] # "down"
    /\ stops < MaxStops
    /\ stops' = stops + 1
    /\ Forget(i)

\* ECS replaces the task
Restart(i) ==
    /\ status[i] = "down"
    /\ status' = [status EXCEPT ![i] = "running"]
    /\ UNCHANGED <<batcherVars, pendingReceipts, flushReceipts, flushCaller, acking,
                   queueVars, stops>>

QueueStep(p) == Send(p) \/ VisibilityTimeout(p) \/ PrematureTimeout(p) \/ ReceiveLost(p)

FlushStep(i) ==
    FlushProgress(i) \/ FlushReturns(i) \/ FlushThrows(i) \/ FlushRefused(i)

AckStep(i) == \E a \in acking[i] : DeleteMessage(i, a) \/ DeleteFail(i, a)

ProcessStep(i) == SigTerm(i) \/ Exit(i) \/ Crash(i) \/ Restart(i)

Next ==
    \/ \E p \in Packets : QueueStep(p)
    \/ \E i \in Instances, p \in Packets : Receive(i, p)
    \/ \E i \in Instances :
          FlushTick(i) \/ FlushStep(i) \/ AckStep(i) \/ ProcessStep(i)

Spec == Init /\ [][Next]_vars

\* A polling instance receives what is in the queue, the timer keeps firing,
\* database and queue calls return, a stopping process exits, ECS restarts it
\* and SQS returns messages nobody deletes
Fairness ==
    /\ \A p \in Packets :
          /\ WF_vars(\E i \in Instances : Receive(i, p))
          /\ WF_vars(VisibilityTimeout(p))
    /\ \A i \in Instances :
          /\ WF_vars(FlushTick(i))
          /\ WF_vars(FlushProgress(i))
          /\ WF_vars(FlushReturns(i))
          /\ WF_vars(FlushRefused(i))
          /\ \A a \in Callers \X Receipts : WF_vars(DeleteMessage(i, a))
          /\ WF_vars(Exit(i))
          /\ WF_vars(Restart(i))

FairSpec == Spec /\ Fairness

-----------------------------------------------------------------------------
(* Properties.                                                             *)

(* Zero data loss: a message is deleted from the queue only when its       *)
(* packet has its history document, so no crash or stop can lose it (the   *)
(* promise in the head comment of index.js).                               *)
ZeroLoss == \A p \in Packets : queue[p] = "deleted" => history[p] > 0

(* A packet that was sent is always somewhere: in the queue, in the        *)
(* dead-letter queue, in the memory of a live instance or in MongoDB.      *)
NeverForgotten == \A p \in Packets :
    queue[p] = "deleted" =>
        \/ history[p] > 0
        \/ \E i \in Instances : status[i] # "down" /\ InMemory(i, p) > 0

(* Every receipt about to be deleted belongs to a written packet, and      *)
(* every receipt waiting for a flush has its packet in the very buffer     *)
(* that flush writes: pendingReceipts and the batcher's buffers are        *)
(* swapped, restored and dropped together.                                 *)
ReceiptsFollowPackets == \A i \in Instances :
    /\ \A r \in pendingReceipts[i] : historyBuffer[i][r[1]] > 0
    /\ \A r \in flushReceipts[i] : historyBatch[i][r[1]] > 0
    /\ \A a \in acking[i] : history[a[2][1]] > 0

(* Duplicates in telemetry_history have a cause: a packet has more         *)
(* documents than one per receive only when flushes failed, each of which  *)
(* can insert every copy it carried once more.                             *)
DuplicatesBounded == \A p \in Packets :
    history[p] <= receives[p] * (failures + 1)

(* A vehicle's stored state never regresses: a document is replaced only   *)
(* by one at least as new, whatever instances flush, fail and retry.       *)
CurrentNeverRegresses ==
    [][\A v \in Vehicles : current[v] # NoPacket => AtLeast(current'[v], current[v])]_vars

(* Only a malformed message, or one that was lost MaxReceiveCount times by *)
(* stops, lost receives and failed deletes, ends in the dead-letter queue: *)
(* with fewer losses than that every valid packet that was sent is         *)
(* written ...                                                             *)
EventuallyWritten == \A p \in Valid : queue[p] # "unsent" ~> history[p] > 0

(* ... its message is deleted ...                                          *)
EventuallyDeleted == \A p \in Valid : queue[p] # "unsent" ~> queue[p] = "deleted"

(* ... and a malformed message leaves the queue for the dead-letter queue  *)
(* instead of circulating for ever.                                        *)
MalformedQuarantined == \A p \in Malformed : queue[p] # "unsent" ~> queue[p] = "dead"

\* The abstract store this implements as long as ZeroLoss holds
Store == INSTANCE TelemetryStore WITH
            recorded <- {p \in Packets : history[p] > 0},
            acked <- {p \in Packets : queue[p] = "deleted"}

(* Batches, receipts, retries, restarts and concurrent instances are       *)
(* invisible: all of it implements the three-step store of TelemetryStore. *)
ImplementsStore == Store!Spec
=============================================================================
