----------------------------- MODULE EventRouter -----------------------------
(***************************************************************************)
(* services/event-router/src: the routers, the broker in front of them and *)
(* what leaves them.  TelemetryMqtt composes this with telemetry-service   *)
(* and has the next-state relation.                                        *)
(*                                                                         *)
(* There are two deployments, told apart by environment variables only.    *)
(* On "aws" several routers share one subscription and send what they      *)
(* accept to SQS; nothing subscribes to validated/# there, so that         *)
(* publication is left out.  On "local" there is one router, without a     *)
(* queue, and telemetry-service listens to what it publishes.              *)
(***************************************************************************)
EXTENDS Integers

CONSTANTS Routers,         \* tasks of event-router
          Messages,        \* messages published under fleet/+/telemetry
          Conforming,      \* those that are JSON and satisfy the schema
          TopicVehicle,    \* message -> vehicle in its topic
          PayloadVehicle,  \* message -> vehicleID in its payload
          MaxFaults        \* bound on lost connections, stops and odd sends

ASSUME RouterAssumption ==
    /\ Conforming \subseteq Messages
    /\ MaxFaults \in Nat

VARIABLES
    deployment,    \* "aws" or "local"
    published,     \* messages the fleet has published
    routerStatus,  \* [r]  "up", "ending" (SIGTERM), "down", or "absent"
    subscribed,    \* routers whose subscription the broker has
    arriving,      \* [r]  messages the broker is delivering to r
    outgoing,      \* [r]  messages r is sending to SQS ("aws") or publishing
    queued,        \* [m]  copies of m that SQS has accepted
    resent,        \* [m]  times the SDK sent m again; no router reads it
    lost,          \* messages of which a copy has been lost
    faults         \* faults so far

routerVars == <<deployment, published, routerStatus, subscribed, arriving, outgoing,
                queued, resent, lost, faults>>

RouterTypeOK ==
    /\ deployment \in {"aws", "local"}
    /\ published \in SUBSET Messages
    /\ routerStatus \in [Routers -> {"up", "ending", "down", "absent"}]
    /\ subscribed \in SUBSET Routers
    /\ arriving \in [Routers -> SUBSET Messages]
    /\ outgoing \in [Routers -> SUBSET Messages]
    /\ queued \in [Messages -> Nat]
    /\ resent \in [Messages -> Nat]
    /\ lost \in SUBSET Messages
    /\ faults \in 0..MaxFaults

RouterInit ==
    /\ \/ deployment = "aws" /\ routerStatus = [r \in Routers |-> "up"]
       \/ /\ deployment = "local"
          /\ \E only \in Routers :
                routerStatus = [r \in Routers |-> IF r = only THEN "up" ELSE "absent"]
    /\ published = {}
    /\ subscribed = {}
    /\ arriving = [r \in Routers |-> {}]
    /\ outgoing = [r \in Routers |-> {}]
    /\ queued = [m \in Messages |-> 0]
    /\ resent = [m \in Messages |-> 0]
    /\ lost = {}
    /\ faults = 0

-----------------------------------------------------------------------------
(* The broker's side.                                                      *)

\* Mutant: the topic need not agree with the payload
CheckedAnyTopic == Conforming

\* The messages checkMessage answers { ok: true } for
Checked == {m \in Conforming : TopicVehicle[m] = PayloadVehicle[m]}

\* Mutant: TOPIC_IN without $share/ on AWS
RecipientsPlain == {subscribed}

\* Who may get the next message: one of the group that shares the
\* subscription, or every subscriber of a plain one
Recipients ==
    IF deployment = "aws" /\ subscribed # {} THEN {{r} : r \in subscribed} ELSE {subscribed}

\* A vehicle publishes at QoS 0; the broker keeps nothing for later
Publish(m) ==
    /\ m \notin published
    /\ published' = published \union {m}
    /\ \E rs \in Recipients :
          /\ arriving' = [r \in Routers |->
                             IF r \in rs THEN arriving[r] \union {m} ELSE arriving[r]]
          /\ lost' = IF rs = {} THEN lost \union {m} ELSE lost
    /\ UNCHANGED <<deployment, routerStatus, subscribed, outgoing, queued, resent, faults>>

-----------------------------------------------------------------------------
(* The router.                                                             *)

\* The connect handler: subscribe, also after every reconnect
Subscribe(r) ==
    /\ routerStatus[r] = "up"
    /\ r \notin subscribed
    /\ subscribed' = subscribed \union {r}
    /\ UNCHANGED <<deployment, published, routerStatus, arriving, outgoing, queued, resent, lost,
                   faults>>

\* The message handler: a message that fails the check is dropped, one that
\* passes is handed to the MQTT client and the SQS client, neither awaited
OnMessage(r, m) ==
    /\ routerStatus[r] = "up"
    /\ m \in arriving[r]
    /\ arriving' = [arriving EXCEPT ![r] = @ \ {m}]
    /\ outgoing' = [outgoing EXCEPT ![r] = IF m \in Checked THEN @ \union {m} ELSE @]
    /\ UNCHANGED <<deployment, published, routerStatus, subscribed, queued, resent, lost, faults>>

\* m leaves the router
Leaves(r, m) ==
    /\ m \in outgoing[r]
    /\ outgoing' = [outgoing EXCEPT ![r] = @ \ {m}]
    /\ UNCHANGED <<deployment, published, routerStatus, subscribed, arriving>>

\* SQS accepts it
SendDone(r, m) ==
    /\ deployment = "aws"
    /\ Leaves(r, m)
    /\ queued' = [queued EXCEPT ![m] = @ + 1]
    /\ UNCHANGED <<resent, lost, faults>>

\* A fault happens
Fault == faults < MaxFaults /\ faults' = faults + 1

\* SQS accepts it, the answer is lost and the SDK sends it again
SendRepeated(r, m) ==
    /\ deployment = "aws"
    /\ Fault
    /\ m \in outgoing[r]
    /\ queued' = [queued EXCEPT ![m] = @ + 1]
    /\ resent' = [resent EXCEPT ![m] = @ + 1]
    /\ UNCHANGED <<deployment, published, routerStatus, subscribed, arriving, outgoing, lost>>

\* send() rejects, which is only logged
SendFails(r, m) ==
    /\ deployment = "aws"
    /\ Fault
    /\ Leaves(r, m)
    /\ lost' = lost \union {m}
    /\ UNCHANGED <<queued, resent>>

\* The connection drops, with what was on it in either direction
ConnectionLost(r) ==
    /\ r \in subscribed
    /\ Fault
    /\ subscribed' = subscribed \ {r}
    /\ arriving' = [arriving EXCEPT ![r] = {}]
    /\ \E gone \in SUBSET (IF deployment = "local" THEN outgoing[r] ELSE {}) :
          /\ outgoing' = [outgoing EXCEPT ![r] = @ \ gone]
          /\ lost' = lost \union arriving[r] \union gone
    /\ UNCHANGED <<deployment, published, routerStatus, queued, resent>>

\* The signal handler: client.end(true), then process.exit
RouterSigTerm(r) ==
    /\ routerStatus[r] = "up"
    /\ Fault
    /\ routerStatus' = [routerStatus EXCEPT ![r] = "ending"]
    /\ subscribed' = subscribed \ {r}
    /\ arriving' = [arriving EXCEPT ![r] = {}]
    /\ lost' = lost \union arriving[r]
    /\ UNCHANGED <<deployment, published, outgoing, queued, resent>>

\* The process is gone, with what it had not sent
RouterGone(r) ==
    /\ routerStatus' = [routerStatus EXCEPT ![r] = "down"]
    /\ subscribed' = subscribed \ {r}
    /\ arriving' = [arriving EXCEPT ![r] = {}]
    /\ outgoing' = [outgoing EXCEPT ![r] = {}]
    /\ lost' = lost \union arriving[r] \union outgoing[r]
    /\ UNCHANGED <<deployment, published, queued, resent>>

RouterExit(r) == routerStatus[r] = "ending" /\ RouterGone(r) /\ UNCHANGED faults

\* A crash, or subscribe reports an error
RouterCrash(r) == routerStatus[r] \in {"up", "ending"} /\ Fault /\ RouterGone(r)

\* ECS, or whoever started it, starts it again
RouterRestart(r) ==
    /\ routerStatus[r] = "down"
    /\ routerStatus' = [routerStatus EXCEPT ![r] = "up"]
    /\ UNCHANGED <<deployment, published, subscribed, arriving, outgoing, queued, resent, lost,
                   faults>>

RouterFault(r) ==
    \/ \E m \in Messages : SendRepeated(r, m) \/ SendFails(r, m)
    \/ ConnectionLost(r) \/ RouterSigTerm(r) \/ RouterCrash(r)

\* What a router does by itself.  Publishing on "local" is Republish in
\* TelemetryMqtt.
RouterStep ==
    \/ \E m \in Messages : Publish(m)
    \/ \E r \in Routers :
          \/ \E m \in Messages : OnMessage(r, m) \/ SendDone(r, m)
          \/ Subscribe(r) \/ RouterExit(r) \/ RouterRestart(r) \/ RouterFault(r)

-----------------------------------------------------------------------------
(* Properties of the routers.                                              *)

(* Neither scaling the router out nor a dropped connection, a stop or a    *)
(* restart multiplies readings: SQS has at most one copy of a message,     *)
(* plus one for each time the SDK sent that message again.  It rests on    *)
(* the shared subscription of ecs.tf, not on router code.                  *)
QueuedOnce == \A m \in Messages : queued[m] <= 1 + resent[m]
=============================================================================
