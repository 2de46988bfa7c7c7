---------------------------- MODULE TelemetryMqtt ----------------------------
(***************************************************************************)
(* services/telemetry-service/src/index.js without SQS_QUEUE_URL, fed by   *)
(* the router of EventRouter: a reading's way from the vehicle's publish   *)
(* to MongoDB on the "local" deployment, and to the queue on "aws", where  *)
(* TelemetrySqs takes over.  Nothing on this way is acknowledged, so what  *)
(* a fault takes is gone; the batcher then meets documents the collection  *)
(* refuses.                                                                *)
(***************************************************************************)
EXTENDS TelemetryBatcher, EventRouter

\* Packets are the messages packetIsValid accepts.  The schema requires both
\* fields it looks at.
ASSUME MqttAssumption ==
    /\ Conforming \subseteq Packets
    /\ Packets \subseteq Messages
    /\ \A p \in Conforming : PayloadVehicle[p] = VehicleOf[p]

VARIABLES
    serviceStatus,  \* [i]  "running", "stopping" (SIGTERM), "down", or "absent"
    listening,      \* instances whose subscription the broker has
    transit,        \* [i]  validated messages the broker is delivering to i
    finalFlush,     \* [i]  batcher.stop() awaits the flush that is running
    owed            \* [i]  what that flush found in the history buffer

serviceVars == <<serviceStatus, listening, transit, finalFlush, owed>>
vars == <<batcherVars, routerVars, serviceVars>>

TypeOK ==
    /\ BatcherTypeOK
    /\ RouterTypeOK
    /\ serviceStatus \in [Instances -> {"running", "stopping", "down", "absent"}]
    /\ listening \in SUBSET Instances
    /\ transit \in [Instances -> SUBSET Messages]
    /\ finalFlush \in [Instances -> BOOLEAN]
    /\ owed \in [Instances -> SUBSET Packets]

Init ==
    /\ BatcherInit
    /\ RouterInit
    /\ serviceStatus = [i \in Instances |-> IF deployment = "local" THEN "running" ELSE "absent"]
    /\ listening = {}
    /\ transit = [i \in Instances |-> {}]
    /\ finalFlush = [i \in Instances |-> FALSE]
    /\ owed = [i \in Instances |-> {}]

-----------------------------------------------------------------------------
(* Between router and service.                                             *)

\* The broker fans a validated message out to whoever listens
Republish(r, m) ==
    /\ deployment = "local"
    /\ Leaves(r, m)
    /\ transit' = [i \in Instances |->
                      IF i \in listening THEN transit[i] \union {m} ELSE transit[i]]
    /\ lost' = IF listening = {} THEN lost \union {m} ELSE lost
    /\ UNCHANGED <<batcherVars, queued, resent, faults, serviceStatus, listening, finalFlush,
                   owed>>

\* The process is there, before or after SIGTERM
Live(i) == serviceStatus[i] \in {"running", "stopping"}

\* The connect handler
Listen(i) ==
    /\ Live(i)
    /\ i \notin listening
    /\ listening' = listening \union {i}
    /\ UNCHANGED <<batcherVars, routerVars, serviceStatus, transit, finalFlush, owed>>

\* The message handler, which goes on receiving during the final flush
Hear(i, m) ==
    /\ Live(i)
    /\ m \in transit[i]
    /\ transit' = [transit EXCEPT ![i] = @ \ {m}]
    /\ IF m \in Packets THEN Add(i, m) ELSE UNCHANGED batcherVars
    /\ UNCHANGED <<routerVars, serviceStatus, listening, finalFlush, owed>>

\* The connection drops, with what was on it
Unheard(i) ==
    /\ i \in listening
    /\ Fault
    /\ listening' = listening \ {i}
    /\ transit' = [transit EXCEPT ![i] = {}]
    /\ lost' = lost \union transit[i]
    /\ UNCHANGED <<batcherVars, deployment, published, routerStatus, subscribed, arriving,
                   outgoing, queued, resent, serviceStatus, finalFlush, owed>>

-----------------------------------------------------------------------------
(* The batcher's timer and its flushes.                                    *)

\* While a flush is running, or with nothing to flush, a tick does nothing
FlushTick(i) ==
    /\ serviceStatus[i] = "running"
    /\ FlushBegin(i)
    /\ UNCHANGED <<routerVars, serviceVars>>

FlushProgress(i) ==
    /\ \/ \E v \in Vehicles : ApplyUpsert(i, v)
       \/ BulkWriteDone(i)
       \/ \E p \in Packets : InsertDocument(i, p)
    /\ UNCHANGED <<routerVars, serviceVars>>

FlushReturns(i) ==
    /\ InsertManyDone(i)
    /\ finalFlush' = [finalFlush EXCEPT ![i] = FALSE]
    /\ UNCHANGED <<routerVars, serviceStatus, listening, transit, owed>>

\* flush() throws: the timer logs it, stop() passes it on
FlushThrows(i) ==
    /\ FlushFail(i) \/ BulkWriteRejected(i)
    /\ finalFlush' = [finalFlush EXCEPT ![i] = FALSE]
    /\ owed' = [owed EXCEPT ![i] = {}]
    /\ UNCHANGED <<routerVars, serviceStatus, listening, transit>>

-----------------------------------------------------------------------------
(* The process.                                                            *)

\* The signal handler up to the await: batcher.stop() begins a flush, unless
\* one is running or the buffers are empty
ServiceSigTerm(i) ==
    /\ serviceStatus[i] = "running"
    /\ Fault
    /\ serviceStatus' = [serviceStatus EXCEPT ![i] = "stopping"]
    /\ \/ /\ FlushBegin(i)
          /\ finalFlush' = [finalFlush EXCEPT ![i] = TRUE]
          /\ owed' = [owed EXCEPT ![i] = {p \in Packets : historyBuffer[i][p] > 0}]
       \/ ~CanFlush(i) /\ UNCHANGED <<batcherVars, finalFlush, owed>>
    /\ UNCHANGED <<deployment, published, routerStatus, subscribed, arriving, outgoing,
                   queued, resent, lost, listening, transit>>

\* The process is gone, with its connection and what it had in memory only
ServiceGone(i) ==
    /\ ForgetMemory(i)
    /\ serviceStatus' = [serviceStatus EXCEPT ![i] = "down"]
    /\ listening' = listening \ {i}
    /\ transit' = [transit EXCEPT ![i] = {}]
    /\ finalFlush' = [finalFlush EXCEPT ![i] = FALSE]
    /\ owed' = [owed EXCEPT ![i] = {}]
    /\ lost' = lost \union transit[i] \union {p \in Packets : InMemory(i, p) > 0}
    /\ UNCHANGED <<deployment, published, routerStatus, subscribed, arriving, outgoing, queued,
                   resent>>

\* Mutant: stop() does not await the flush
ServiceExitAtOnce(i) ==
    /\ serviceStatus[i] = "stopping"
    /\ ServiceGone(i)
    /\ UNCHANGED faults

\* stop() has returned or thrown, and process.exit(0) follows
ServiceExit(i) ==
    /\ serviceStatus[i] = "stopping"
    /\ ~finalFlush[i]
    /\ ServiceGone(i)
    /\ UNCHANGED faults

\* A crash, or subscribe reports an error
ServiceCrash(i) == Live(i) /\ Fault /\ ServiceGone(i)

ServiceRestart(i) ==
    /\ serviceStatus[i] = "down"
    /\ serviceStatus' = [serviceStatus EXCEPT ![i] = "running"]
    /\ UNCHANGED <<batcherVars, routerVars, listening, transit, finalFlush, owed>>

FlushStep(i) == FlushTick(i) \/ FlushProgress(i) \/ FlushReturns(i) \/ FlushThrows(i)

ProcessStep(i) ==
    Unheard(i) \/ ServiceSigTerm(i) \/ ServiceExit(i) \/ ServiceCrash(i) \/ ServiceRestart(i)

Next ==
    \/ RouterStep /\ UNCHANGED <<batcherVars, serviceVars>>
    \/ \E r \in Routers, m \in Messages : Republish(r, m)
    \/ \E i \in Instances :
          \/ \E m \in Messages : Hear(i, m)
          \/ Listen(i) \/ FlushStep(i) \/ ProcessStep(i)

Spec == Init /\ [][Next]_vars

\* Event loops run their handlers, the timer keeps firing, sends and database
\* calls return and a stopping process exits.  Nobody need publish, reconnect
\* or restart anything.
Fairness ==
    /\ \A r \in Routers, m \in Messages :
          /\ WF_vars(OnMessage(r, m) /\ UNCHANGED <<batcherVars, serviceVars>>)
          /\ WF_vars(SendDone(r, m) /\ UNCHANGED <<batcherVars, serviceVars>>)
          /\ WF_vars(Republish(r, m))
    /\ \A r \in Routers : WF_vars(RouterExit(r) /\ UNCHANGED <<batcherVars, serviceVars>>)
    /\ \A i \in Instances :
          /\ \A m \in Messages : WF_vars(Hear(i, m))
          /\ WF_vars(FlushTick(i))
          /\ WF_vars(FlushProgress(i))
          /\ WF_vars(FlushReturns(i))
          /\ WF_vars(BulkWriteRejected(i) /\ FlushThrows(i))
          /\ WF_vars(ServiceExit(i))

FairSpec == Spec /\ Fairness

-----------------------------------------------------------------------------
(* Properties.                                                             *)

(* End to end, a reading that passed the check is at every moment on its   *)
(* way, in memory, written, in the queue, or among the messages a named    *)
(* fault has taken: no handler, swap of buffers, failed or refused flush   *)
(* drops one silently.                                                     *)
Accounted == \A m \in published \intersect Checked :
    \/ m \in lost
    \/ queued[m] > 0
    \/ \E r \in Routers : m \in arriving[r] \/ m \in outgoing[r]
    \/ \E i \in Instances : m \in transit[i] \/ InMemory(i, m) > 0
    \/ history[m] > 0

(* Only a reading that fits the schema and was published under its own     *)
(* vehicle's topic is ever stored, although telemetry-service itself looks *)
(* at two fields only and the publication it hears is no longer checked.   *)
StoredUnderOwnTopic == \A p \in Packets :
    history[p] > 0 \/ (\E v \in Vehicles : current[v] = p) =>
        p \in Conforming /\ TopicVehicle[p] = VehicleOf[p]

(* A SIGTERM that finds no flush running loses nothing of the window it    *)
(* interrupts: when the process exits, what the final flush took has its   *)
(* history documents, unless that flush failed.                            *)
FinalFlushKeepsWindow ==
    [][\A i \in Instances : ServiceExit(i) => \A p \in owed[i] : history[p] > 0]_vars

\* Vehicles of which no two packets differ in type
Steady == {v \in Vehicles : \A p, q \in Packets :
              VehicleOf[p] = v /\ VehicleOf[q] = v => VehicleTypeOf[p] = VehicleTypeOf[q]}

(* A published reading reaches the queue, or makes its vehicle's document  *)
(* at least as new, unless a fault took it.  This holds also while the     *)
(* collection refuses another vehicle's document in every single flush:    *)
(* the unordered bulkWrite applies the others first, although the history  *)
(* of them all then waits.                                                 *)
Delivered == \A m \in Checked : VehicleOf[m] \in Steady =>
    (m \in published ~>
        m \in lost \/ queued[m] > 0 \/ AtLeast(current[VehicleOf[m]], m))
=============================================================================
