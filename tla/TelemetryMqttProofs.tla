------------------------- MODULE TelemetryMqttProofs -------------------------
(***************************************************************************)
(* Type correctness of TelemetryMqtt, and the safety of a reading's way    *)
(* from the vehicle to MongoDB or the queue, for any number of routers,    *)
(* instances, vehicles, messages and faults.                               *)
(***************************************************************************)
EXTENDS TelemetryMqtt, TelemetryBatcherProofs

(* Whatever it does to connections and processes, a step is a step of the  *)
(* batcher of one instance or leaves all batchers and both collections     *)
(* alone.                                                                  *)
LEMMA StepsOfTheBatcher ==
    ASSUME [Next]_vars
    PROVE  (\E i \in Instances : BatcherStep(i)) \/ UNCHANGED batcherVars
<1> USE DEF BatcherStep, FlushingStep
<1>1. CASE RouterStep /\ UNCHANGED <<batcherVars, serviceVars>>
  BY <1>1
<1>2. CASE \E r \in Routers, m \in Messages : Republish(r, m)
  BY <1>2 DEF Republish
<1>3. CASE \E i \in Instances, m \in Messages : Hear(i, m)
  BY <1>3 DEF Hear
<1>4. CASE \E i \in Instances : Listen(i)
  BY <1>4 DEF Listen
<1>5. CASE \E i \in Instances : FlushStep(i)
  BY <1>5 DEF FlushStep, FlushTick, FlushProgress, FlushReturns, FlushThrows
<1>6. CASE \E i \in Instances : ProcessStep(i)
  BY <1>6 DEF ProcessStep, Unheard, ServiceSigTerm, ServiceExit, ServiceCrash, ServiceGone,
              ServiceRestart
<1>7. CASE UNCHANGED vars
  BY <1>7 DEF vars
<1> QED
  BY <1>1, <1>2, <1>3, <1>4, <1>5, <1>6, <1>7 DEF Next

-----------------------------------------------------------------------------
(* Type correctness.                                                       *)

\* The part of TypeOK that is about telemetry-service as a process
ServiceTypeOK ==
    /\ serviceStatus \in [Instances -> {"running", "stopping", "down", "absent"}]
    /\ listening \in SUBSET Instances
    /\ transit \in [Instances -> SUBSET Messages]
    /\ finalFlush \in [Instances -> BOOLEAN]
    /\ owed \in [Instances -> SUBSET Packets]

(* A router's own steps keep the types of the routers.                     *)
LEMMA RouterStepType ==
    ASSUME RouterAssumption, RouterTypeOK, RouterStep
    PROVE  RouterTypeOK'
<1> USE DEF RouterAssumption, RouterTypeOK
<1>1. CASE \E m \in Messages : Publish(m)
  <2> PICK m \in Messages : Publish(m)
    BY <1>1
  <2>1. published' \in SUBSET Messages /\ lost' \in SUBSET Messages
    BY DEF Publish
  <2>2. arriving' \in [Routers -> SUBSET Messages]
    BY DEF Publish
  <2> QED
    BY <2>1, <2>2 DEF Publish
<1>2. CASE \E r \in Routers, m \in Messages : OnMessage(r, m)
  <2> PICK r \in Routers, m \in Messages : OnMessage(r, m)
    BY <1>2
  <2> QED
    BY DEF OnMessage
<1>3. CASE \E r \in Routers, m \in Messages :
              SendDone(r, m) \/ SendRepeated(r, m) \/ SendFails(r, m)
  <2> PICK r \in Routers, m \in Messages :
              SendDone(r, m) \/ SendRepeated(r, m) \/ SendFails(r, m)
    BY <1>3
  <2>1. CASE SendDone(r, m)
    BY <2>1 DEF SendDone, Leaves
  <2>2. CASE SendRepeated(r, m)
    BY <2>2 DEF SendRepeated, Fault
  <2>3. CASE SendFails(r, m)
    BY <2>3 DEF SendFails, Leaves, Fault
  <2> QED
    BY <2>1, <2>2, <2>3
<1>4. CASE \E r \in Routers : Subscribe(r) \/ RouterRestart(r)
  BY <1>4 DEF Subscribe, RouterRestart
<1>5. CASE \E r \in Routers : ConnectionLost(r)
  <2> PICK r \in Routers : ConnectionLost(r)
    BY <1>5
  <2> PICK gone \in SUBSET (IF deployment = "local" THEN outgoing[r] ELSE {}) :
          /\ outgoing' = [outgoing EXCEPT ![r] = @ \ gone]
          /\ lost' = lost \union arriving[r] \union gone
    BY DEF ConnectionLost
  <2>1. lost' \in SUBSET Messages /\ outgoing' \in [Routers -> SUBSET Messages]
    OBVIOUS
  <2> QED
    BY <2>1 DEF ConnectionLost, Fault
<1>6. CASE \E r \in Routers : RouterSigTerm(r)
  BY <1>6 DEF RouterSigTerm, Fault
<1>7. CASE \E r \in Routers : RouterExit(r) \/ RouterCrash(r)
  BY <1>7 DEF RouterExit, RouterCrash, RouterGone, Fault
<1> QED
  BY <1>1, <1>2, <1>3, <1>4, <1>5, <1>6, <1>7 DEF RouterStep, RouterFault

(* Every other step keeps them, too, and the types of the service.         *)
LEMMA ServiceStepType ==
    ASSUME RouterAssumption, MqttAssumption, RouterTypeOK, ServiceTypeOK,
           [Next]_vars, ~(RouterStep /\ UNCHANGED serviceVars)
    PROVE  RouterTypeOK' /\ ServiceTypeOK'
<1> USE DEF RouterAssumption, MqttAssumption, RouterTypeOK, ServiceTypeOK, routerVars
<1>1. CASE \E r \in Routers, m \in Messages : Republish(r, m)
  <2> PICK r \in Routers, m \in Messages : Republish(r, m)
    BY <1>1
  <2>1. transit' \in [Instances -> SUBSET Messages]
    BY DEF Republish
  <2> QED
    BY <2>1 DEF Republish, Leaves
<1>2. CASE \E i \in Instances, m \in Messages : Hear(i, m)
  BY <1>2 DEF Hear
<1>3. CASE \E i \in Instances : Listen(i)
  BY <1>3 DEF Listen
<1>4. CASE \E i \in Instances : FlushStep(i)
  BY <1>4 DEF FlushStep, FlushTick, FlushProgress, FlushReturns, FlushThrows, serviceVars
<1>5. CASE \E i \in Instances : Unheard(i) \/ ServiceRestart(i)
  BY <1>5 DEF Unheard, ServiceRestart, Fault
<1>6. CASE \E i \in Instances : ServiceSigTerm(i)
  <2> PICK i \in Instances : ServiceSigTerm(i)
    BY <1>6
  <2>1. {p \in Packets : historyBuffer[i][p] > 0} \in SUBSET Packets
    OBVIOUS
  <2>2. /\ finalFlush' \in [Instances -> BOOLEAN]
        /\ owed' \in [Instances -> SUBSET Packets]
    BY <2>1 DEF ServiceSigTerm
  <2>3. faults' \in 0..MaxFaults /\ serviceStatus' \in [Instances -> {"running", "stopping", "down", "absent"}]
    BY DEF ServiceSigTerm, Fault
  <2> QED
    BY <2>2, <2>3 DEF ServiceSigTerm
<1>7. CASE \E i \in Instances : ServiceExit(i) \/ ServiceCrash(i)
  <2> PICK i \in Instances : ServiceExit(i) \/ ServiceCrash(i)
    BY <1>7
  <2>1. ServiceGone(i) /\ faults' \in 0..MaxFaults
    BY DEF ServiceExit, ServiceCrash, Fault
  <2>2. lost' \in SUBSET Messages
    <3>1. {p \in Packets : InMemory(i, p) > 0} \in SUBSET Messages
      OBVIOUS
    <3> QED
      BY <2>1, <3>1 DEF ServiceGone
  <2> QED
    BY <2>1, <2>2 DEF ServiceGone
<1>8. CASE UNCHANGED vars
  BY <1>8 DEF vars, serviceVars
<1> QED
  BY <1>1, <1>2, <1>3, <1>4, <1>5, <1>6, <1>7, <1>8 DEF Next, ProcessStep

(* TypeOK is an invariant: what routers and instances hold are messages,   *)
(* what they write are packets, and every counter stays in its bounds.     *)
THEOREM TypeCorrect == Spec => []TypeOK
<1> USE BatcherAssumption, RouterAssumption, MqttAssumption
<1>1. Init => TypeOK
  <2> SUFFICES ASSUME Init
               PROVE  TypeOK
    OBVIOUS
  <2>1. RouterTypeOK
    BY DEF Init, RouterInit, RouterTypeOK, RouterAssumption
  <2> QED
    BY <2>1, BatcherInitType DEF Init, TypeOK
<1>2. TypeOK /\ [Next]_vars => TypeOK'
  <2> SUFFICES ASSUME TypeOK, [Next]_vars
               PROVE  TypeOK'
    OBVIOUS
  <2>1. RouterTypeOK' /\ ServiceTypeOK'
    BY RouterStepType, ServiceStepType DEF TypeOK, ServiceTypeOK, serviceVars
  <2>2. BatcherTypeOK'
    <3>1. UNCHANGED batcherVars => BatcherTypeOK'
      BY DEF TypeOK, BatcherTypeOK, batcherVars, memoryVars, mongoVars
    <3> QED
      BY <3>1, StepsOfTheBatcher, BatcherStepType DEF TypeOK
  <2> QED
    BY <2>1, <2>2 DEF TypeOK, ServiceTypeOK
<1> QED
  BY <1>1, <1>2, PTL DEF Spec
-----------------------------------------------------------------------------
(* The buffers and the collections.                                        *)

(* The batcher's invariants hold whatever feeds it.                        *)
LEMMA BatcherCorrect == Spec => [](BatcherInv /\ BatchInv)
<1> USE BatcherAssumption
<1>1. Init => BatcherInv /\ BatchInv
  BY BatcherInitInv, BatcherInitBatch DEF Init
<1>2. TypeOK /\ BatcherInv /\ BatchInv /\ [Next]_vars => BatcherInv' /\ BatchInv'
  <2> SUFFICES ASSUME TypeOK, BatcherInv, BatchInv, [Next]_vars
               PROVE  BatcherInv' /\ BatchInv'
    OBVIOUS
  <2>1. CASE \E i \in Instances : BatcherStep(i)
    BY <2>1, BatcherStepInv, BatcherStepBatch DEF TypeOK
  <2>2. CASE UNCHANGED batcherVars
    <3>1. BatcherInv'
      BY <2>2, BatcherStutterInv DEF batcherVars
    <3>2. BatchInv'
      BY <2>2 DEF BatchInv, InsertsLand, IdleHoldsNoBatch, batcherVars, memoryVars, mongoVars
    <3> QED
      BY <3>1, <3>2
  <2> QED
    BY <2>1, <2>2, StepsOfTheBatcher
<1> QED
  BY <1>1, <1>2, TypeCorrect, PTL DEF Spec

(* HistoryNeverAhead is an invariant of the MQTT mode, too, with instances *)
(* that all receive every message, connections that drop and documents the *)
(* collection refuses.                                                     *)
THEOREM HistoryOrder == Spec => []HistoryNeverAhead
<1>1. BatcherInv => HistoryNeverAhead
  BY DEF BatcherInv
<1> QED
  BY <1>1, BatcherCorrect, PTL

-----------------------------------------------------------------------------
(* Provenance.                                                             *)

\* Behind the router there are only messages that passed its check
OnlyCheckedPass ==
    /\ \A r \in Routers : outgoing[r] \subseteq Checked
    /\ \A i \in Instances : transit[i] \subseteq Checked
    /\ OnlyOf(Checked)

(* No step lets another message in.                                        *)
LEMMA OnlyCheckedStep ==
    ASSUME BatcherAssumption, TypeOK, BatcherInv, OnlyCheckedPass, [Next]_vars
    PROVE  OnlyCheckedPass'
<1> DEFINE OutOK == \A r \in Routers : outgoing[r] \subseteq Checked
           TransitOK == \A i \in Instances : transit[i] \subseteq Checked
<1> USE DEF OnlyCheckedPass, TypeOK, RouterTypeOK
<1>0. UNCHANGED batcherVars => OnlyOf(Checked)'
  BY DEF OnlyOf, batcherVars, memoryVars, mongoVars
<1>1. CASE RouterStep /\ UNCHANGED <<batcherVars, serviceVars>>
  <2>1. OutOK'
    BY <1>1 DEF RouterStep, Publish, OnMessage, SendDone, Leaves, Subscribe, RouterExit,
                RouterGone, RouterRestart, RouterFault, SendRepeated, SendFails, ConnectionLost,
                RouterSigTerm, RouterCrash
  <2> QED
    BY <1>0, <1>1, <2>1 DEF serviceVars
<1>2. CASE \E r \in Routers, m \in Messages : Republish(r, m)
  <2> PICK r \in Routers, m \in Messages : Republish(r, m)
    BY <1>2
  <2>1. m \in Checked
    BY DEF Republish, Leaves
  <2> QED
    BY <1>0, <2>1 DEF Republish, Leaves
<1>3. CASE \E i \in Instances, m \in Messages : Hear(i, m)
  <2> PICK i \in Instances, m \in Messages : Hear(i, m)
    BY <1>3
  <2>1. m \in Checked
    BY DEF Hear
  <2>2. (\E p \in Checked \intersect Packets : Add(i, p)) \/ UNCHANGED batcherVars
    BY <2>1 DEF Hear
  <2>3. OnlyOf(Checked)'
    BY <1>0, <2>2, NothingInvented
  <2> QED
    BY <2>3 DEF Hear, routerVars
<1>4. CASE \E i \in Instances : FlushStep(i)
  <2> PICK i \in Instances : FlushStep(i)
    BY <1>4
  <2>1. FlushingStep(i) /\ UNCHANGED <<outgoing, transit>>
    BY DEF FlushStep, FlushTick, FlushProgress, FlushReturns, FlushThrows, FlushingStep,
           routerVars, serviceVars
  <2> QED
    BY <2>1, NothingInvented
<1>5. CASE \E i \in Instances : Listen(i) \/ Unheard(i) \/ ServiceRestart(i)
  BY <1>0, <1>5 DEF Listen, Unheard, ServiceRestart, routerVars
<1>6. CASE \E i \in Instances : ServiceSigTerm(i)
  <2> PICK i \in Instances : ServiceSigTerm(i)
    BY <1>6
  <2>1. FlushingStep(i) \/ UNCHANGED batcherVars
    BY DEF ServiceSigTerm, FlushingStep
  <2> QED
    BY <1>0, <2>1, NothingInvented DEF ServiceSigTerm
<1>7. CASE \E i \in Instances : ServiceExit(i) \/ ServiceCrash(i)
  <2> PICK i \in Instances : ServiceExit(i) \/ ServiceCrash(i)
    BY <1>7
  <2>1. ServiceGone(i)
    BY DEF ServiceExit, ServiceCrash
  <2>2. OnlyOf(Checked)'
    BY <2>1, NothingInvented DEF ServiceGone
  <2> QED
    BY <2>1, <2>2 DEF ServiceGone
<1>8. CASE UNCHANGED vars
  BY <1>0, <1>8 DEF vars, routerVars, serviceVars
<1> QED
  BY <1>1, <1>2, <1>3, <1>4, <1>5, <1>6, <1>7, <1>8 DEF Next, ProcessStep

(* StoredUnderOwnTopic is an invariant: what the batchers hold and the     *)
(* collections store has passed the router's check, so it fits the schema  *)
(* and was published under its own vehicle's topic.                        *)
THEOREM OwnTopic == Spec => []StoredUnderOwnTopic
<1> USE BatcherAssumption, MqttAssumption
<1>1. Init => OnlyCheckedPass
  BY DEF Init, RouterInit, BatcherInit, NoneHeld, NoCopies, OnlyCheckedPass, OnlyOf
<1>2. TypeOK /\ BatcherInv /\ OnlyCheckedPass /\ [Next]_vars => OnlyCheckedPass'
  BY OnlyCheckedStep
<1>3. OnlyCheckedPass => StoredUnderOwnTopic
  <2> SUFFICES ASSUME OnlyCheckedPass, NEW p \in Packets,
                      history[p] > 0 \/ \E v \in Vehicles : current[v] = p
               PROVE  p \in Conforming /\ TopicVehicle[p] = VehicleOf[p]
    BY DEF StoredUnderOwnTopic
  <2>1. p \in Checked
    BY DEF OnlyCheckedPass, OnlyOf, BatcherAssumption
  <2> QED
    BY <2>1 DEF Checked, MqttAssumption
<1> QED
  BY <1>1, <1>2, <1>3, TypeCorrect, BatcherCorrect, PTL DEF Spec
-----------------------------------------------------------------------------
(* Accounting.                                                             *)

(* Every step keeps every checked message accounted for.  The batcher's    *)
(* own steps do by NoneDropped; the others hand a message on or count it   *)
(* among the lost.                                                         *)
LEMMA AccountedStep ==
    ASSUME BatcherAssumption, RouterAssumption, MqttAssumption,
           TypeOK, BatchInv, Accounted, [Next]_vars
    PROVE  Accounted'
<1> DEFINE Outside(m) == \/ m \in lost
                         \/ queued[m] > 0
                         \/ \E r \in Routers : m \in arriving[r] \/ m \in outgoing[r]
                         \/ \E i \in Instances : m \in transit[i]
           Inside(m) == (\E i \in Instances : InMemory(i, m) > 0) \/ history[m] > 0
<1> USE DEF TypeOK, RouterTypeOK
<1>1. Checked \subseteq Packets /\ Checked' = Checked
  BY DEF Checked, MqttAssumption
<1>2. Accounted' <=> \A m \in published' \intersect Checked : Outside(m)' \/ Inside(m)'
  BY <1>1 DEF Accounted
<1>3. \A m \in published \intersect Checked : Outside(m) \/ Inside(m)
  BY DEF Accounted
<1>4. UNCHANGED batcherVars => \A m \in Messages : Inside(m) => Inside(m)'
  BY DEF batcherVars, memoryVars, mongoVars, InMemory
<1>5. ASSUME NEW i \in Instances, (\E p \in Packets : Add(i, p)) \/ FlushingStep(i)
      PROVE  \A m \in Checked : Inside(m) => Inside(m)'
  BY <1>1, <1>5, NoneDropped
<1>6. UNCHANGED <<routerVars, transit>> => \A m \in Messages : Outside(m) => Outside(m)'
  BY DEF routerVars
<1> HIDE DEF Inside
<1>7. CASE RouterStep /\ UNCHANGED <<batcherVars, serviceVars>>
  <2> UNCHANGED <<batcherVars, transit>>
    BY <1>7 DEF serviceVars
  <2> USE DEF RouterAssumption
  <2>1. CASE \E m \in Messages : Publish(m)
    <3> PICK m \in Messages : Publish(m)
      BY <2>1
    <3>1. PICK rs \in Recipients :
             /\ arriving' = [r \in Routers |->
                               IF r \in rs THEN arriving[r] \union {m} ELSE arriving[r]]
             /\ lost' = IF rs = {} THEN lost \union {m} ELSE lost
      BY DEF Publish
    <3>2. rs \subseteq Routers
      BY DEF Recipients
    <3>3. Outside(m)'
      BY <3>1, <3>2
    <3>4. \A n \in Messages : Outside(n) => Outside(n)'
      BY <3>1 DEF Publish
    <3> QED
      BY <1>2, <1>3, <1>4, <3>3, <3>4 DEF Publish
  <2>2. CASE ~\E m \in Messages : Publish(m)
    <3>1. published' = published
      BY <1>7, <2>2 DEF RouterStep, OnMessage, SendDone, Leaves, Subscribe, RouterExit, RouterGone,
                  RouterRestart, RouterFault, SendRepeated, SendFails, ConnectionLost,
                  RouterSigTerm, RouterCrash
    <3>2. CASE \E r \in Routers, m \in Messages : OnMessage(r, m)
      <4>1. \A n \in Checked : Outside(n) => Outside(n)'
        BY <3>2 DEF OnMessage
      <4> QED
        BY <1>2, <1>3, <1>4, <3>1, <4>1
    <3>3. CASE \E r \in Routers, m \in Messages :
                  SendDone(r, m) \/ SendRepeated(r, m) \/ SendFails(r, m)
      <4> PICK r \in Routers, m \in Messages :
                  SendDone(r, m) \/ SendRepeated(r, m) \/ SendFails(r, m)
        BY <3>3
      <4>1. CASE SendDone(r, m)
        <5>1. \A n \in Messages : Outside(n) => Outside(n)'
          BY <4>1 DEF SendDone, Leaves
        <5> QED
          BY <1>2, <1>3, <1>4, <3>1, <5>1
      <4>2. CASE SendRepeated(r, m)
        <5>1. \A n \in Messages : Outside(n) => Outside(n)'
          BY <4>2 DEF SendRepeated
        <5> QED
          BY <1>2, <1>3, <1>4, <3>1, <5>1
      <4>3. CASE SendFails(r, m)
        <5>1. \A n \in Messages : Outside(n) => Outside(n)'
          BY <4>3 DEF SendFails, Leaves
        <5> QED
          BY <1>2, <1>3, <1>4, <3>1, <5>1
      <4> QED
        BY <4>1, <4>2, <4>3
    <3>4. CASE \E r \in Routers :
                  \/ Subscribe(r) \/ RouterRestart(r) \/ ConnectionLost(r) \/ RouterSigTerm(r)
                  \/ RouterExit(r) \/ RouterCrash(r)
      <4> PICK r \in Routers :
                  \/ Subscribe(r) \/ RouterRestart(r) \/ ConnectionLost(r) \/ RouterSigTerm(r)
                  \/ RouterExit(r) \/ RouterCrash(r)
        BY <3>4
      <4>1. CASE Subscribe(r) \/ RouterRestart(r)
        <5>1. \A n \in Messages : Outside(n) => Outside(n)'
          BY <4>1 DEF Subscribe, RouterRestart
        <5> QED
          BY <1>2, <1>3, <1>4, <3>1, <5>1
      <4>2. CASE ConnectionLost(r) \/ RouterSigTerm(r)
        <5>1. \A n \in Messages : Outside(n) => Outside(n)'
          BY <4>2 DEF ConnectionLost, RouterSigTerm
        <5> QED
          BY <1>2, <1>3, <1>4, <3>1, <5>1
      <4>3. CASE RouterExit(r) \/ RouterCrash(r)
        <5>1. \A n \in Messages : Outside(n) => Outside(n)'
          BY <4>3 DEF RouterExit, RouterCrash, RouterGone
        <5> QED
          BY <1>2, <1>3, <1>4, <3>1, <5>1
      <4> QED
        BY <4>1, <4>2, <4>3
    <3> QED
      BY <1>7, <2>2, <3>2, <3>3, <3>4 DEF RouterStep, RouterFault
  <2> QED
    BY <2>1, <2>2
<1>8. CASE \E r \in Routers, m \in Messages : Republish(r, m)
  <2> PICK r \in Routers, m \in Messages : Republish(r, m)
    BY <1>8
  <2>1. UNCHANGED batcherVars /\ published' = published
    BY DEF Republish, Leaves
  <2>2. \A n \in Messages : Outside(n) => Outside(n)'
    BY DEF Republish, Leaves
  <2> QED
    BY <1>2, <1>3, <1>4, <2>1, <2>2
<1>9. CASE \E i \in Instances, m \in Messages : Hear(i, m)
  <2> PICK i \in Instances, m \in Messages : Hear(i, m)
    BY <1>9
  <2>1. published' = published
    BY DEF Hear, routerVars
  <2>2. \A n \in Messages : n # m /\ Outside(n) => Outside(n)'
    BY DEF Hear, routerVars
  <2>3. \A n \in Checked : Inside(n) => Inside(n)'
    BY <1>1, <1>4, <1>5 DEF Hear, Checked, RouterAssumption
  <2>4. m \in Checked => Inside(m)'
    BY <1>1 DEF Hear, Add, BatcherTypeOK, InMemory, Inside
  <2> QED
    BY <1>2, <1>3, <2>1, <2>2, <2>3, <2>4
<1>10. CASE \E i \in Instances : FlushStep(i)
  <2> PICK i \in Instances : FlushStep(i)
    BY <1>10
  <2>1. FlushingStep(i) /\ UNCHANGED <<routerVars, transit>>
    BY DEF FlushStep, FlushTick, FlushProgress, FlushReturns, FlushThrows, FlushingStep,
           serviceVars
  <2> QED
    BY <1>2, <1>3, <1>5, <1>6, <2>1 DEF routerVars
<1>11. CASE \E i \in Instances : Listen(i) \/ Unheard(i) \/ ServiceRestart(i)
  <2>1. UNCHANGED batcherVars /\ published' = published
    BY <1>11 DEF Listen, Unheard, ServiceRestart, routerVars
  <2>2. \A n \in Messages : Outside(n) => Outside(n)'
    BY <1>11 DEF Listen, Unheard, ServiceRestart, routerVars
  <2> QED
    BY <1>2, <1>3, <1>4, <2>1, <2>2
<1>12. CASE \E i \in Instances : ServiceSigTerm(i)
  <2> PICK i \in Instances : ServiceSigTerm(i)
    BY <1>12
  <2>1. FlushingStep(i) \/ UNCHANGED batcherVars
    BY DEF ServiceSigTerm, FlushingStep
  <2>2. \A n \in Messages : Outside(n) => Outside(n)'
    BY DEF ServiceSigTerm
  <2>3. published' = published
    BY DEF ServiceSigTerm
  <2> QED
    BY <1>2, <1>3, <1>4, <1>5, <2>1, <2>2, <2>3
<1>13. CASE \E i \in Instances : ServiceExit(i) \/ ServiceCrash(i)
  <2> PICK i \in Instances : ServiceExit(i) \/ ServiceCrash(i)
    BY <1>13
  <2>1. ServiceGone(i)
    BY DEF ServiceExit, ServiceCrash
  <2>2. \A n \in Messages : Outside(n) => Outside(n)'
    BY <2>1 DEF ServiceGone
  <2>3. \A n \in Checked : Inside(n) => Inside(n)' \/ Outside(n)'
    <3> SUFFICES ASSUME NEW n \in Checked, Inside(n)
                 PROVE  Inside(n)' \/ Outside(n)'
      OBVIOUS
    <3>1. n \in Packets
      BY <1>1
    <3>2. CASE history[n] > 0
      BY <2>1, <3>2 DEF ServiceGone, ForgetMemory, mongoVars, Inside
    <3>3. CASE InMemory(i, n) > 0
      BY <2>1, <3>1, <3>3 DEF ServiceGone
    <3>4. ASSUME NEW j \in Instances, j # i, InMemory(j, n) > 0
          PROVE  InMemory(j, n)' > 0
      BY <2>1, <3>4 DEF ServiceGone, ForgetMemory, BatcherTypeOK, InMemory
    <3> QED
      BY <3>2, <3>3, <3>4 DEF Inside
  <2> QED
    BY <1>2, <1>3, <2>1, <2>2, <2>3 DEF ServiceGone
<1>14. CASE UNCHANGED vars
  BY <1>2, <1>3, <1>4, <1>6, <1>14 DEF vars, serviceVars, routerVars
<1> QED
  BY <1>7, <1>8, <1>9, <1>10, <1>11, <1>12, <1>13, <1>14 DEF Next, ProcessStep

(* Accounted is an invariant: end to end, no handler, swap of buffers,     *)
(* failed or refused flush drops a checked reading silently.               *)
THEOREM NoSilentLoss == Spec => []Accounted
<1> USE BatcherAssumption, RouterAssumption, MqttAssumption
<1>1. Init => Accounted
  BY DEF Init, RouterInit, Accounted
<1>2. TypeOK /\ BatchInv /\ Accounted /\ [Next]_vars => Accounted'
  BY AccountedStep
<1> QED
  BY <1>1, <1>2, TypeCorrect, BatcherCorrect, PTL DEF Spec
-----------------------------------------------------------------------------
(* The routers' copies.                                                    *)

InRouter(r, m) == m \in arriving[r] \/ m \in outgoing[r]

\* On "aws" a published message is in one place of one router at most, and
\* while it is there the queue has only what repeated sends put there
OneCopy == \A m \in Messages :
    IF deployment = "aws"
    THEN /\ queued[m] <= 1 + resent[m]
         /\ m \notin published => queued[m] = 0
         /\ \A r \in Routers : InRouter(r, m) =>
               /\ m \in published
               /\ queued[m] <= resent[m]
               /\ ~(m \in arriving[r] /\ m \in outgoing[r])
               /\ \A s \in Routers : InRouter(s, m) => s = r
    ELSE queued[m] = 0

(* A router's own steps keep it so: the shared subscription gives a new    *)
(* message to one router, and a router passes it on once.                  *)
LEMMA OneCopyStep ==
    ASSUME RouterAssumption, RouterTypeOK, OneCopy, RouterStep
    PROVE  OneCopy'
<1> USE DEF RouterAssumption, RouterTypeOK, OneCopy, InRouter
<1>1. CASE \E m \in Messages : Publish(m)
  <2> PICK m \in Messages : Publish(m)
    BY <1>1
  <2>1. PICK rs \in Recipients :
           arriving' = [r \in Routers |-> IF r \in rs THEN arriving[r] \union {m} ELSE arriving[r]]
    BY DEF Publish
  <2>2. deployment = "aws" => \A r, s \in rs : r = s
    BY DEF Recipients
  <2> QED
    BY <2>1, <2>2 DEF Publish
<1>2. CASE \E r \in Routers, m \in Messages : OnMessage(r, m)
  BY <1>2 DEF OnMessage
<1>3. CASE \E r \in Routers, m \in Messages : SendDone(r, m)
  BY <1>3 DEF SendDone, Leaves
<1>4. CASE \E r \in Routers, m \in Messages : SendRepeated(r, m)
  BY <1>4 DEF SendRepeated, Fault
<1>5. CASE \E r \in Routers, m \in Messages : SendFails(r, m)
  BY <1>5 DEF SendFails, Leaves, Fault
<1>6. CASE \E r \in Routers : Subscribe(r) \/ RouterRestart(r)
  BY <1>6 DEF Subscribe, RouterRestart
<1>7. CASE \E r \in Routers : ConnectionLost(r)
  BY <1>7 DEF ConnectionLost, Fault
<1>8. CASE \E r \in Routers : RouterSigTerm(r)
  BY <1>8 DEF RouterSigTerm, Fault
<1>9. CASE \E r \in Routers : RouterExit(r) \/ RouterCrash(r)
  BY <1>9 DEF RouterExit, RouterCrash, RouterGone, Fault
<1> QED
  BY <1>1, <1>2, <1>3, <1>4, <1>5, <1>6, <1>7, <1>8, <1>9 DEF RouterStep, RouterFault

(* The steps of the service take nothing from the routers but what a       *)
(* router without a queue publishes.                                       *)
LEMMA OneCopyElsewhere ==
    ASSUME RouterAssumption, RouterTypeOK, OneCopy, [Next]_vars, ~RouterStep
    PROVE  OneCopy'
<1> USE DEF RouterAssumption, RouterTypeOK, OneCopy, InRouter
<1>1. CASE \E r \in Routers, m \in Messages : Republish(r, m)
  BY <1>1 DEF Republish, Leaves
<1>2. CASE ~\E r \in Routers, m \in Messages : Republish(r, m)
  <2>1. UNCHANGED <<deployment, published, arriving, outgoing, queued, resent>>
    BY <1>2 DEF Next, Hear, Listen, FlushStep, FlushTick, FlushProgress, FlushReturns, FlushThrows,
                ProcessStep, Unheard, ServiceSigTerm, ServiceExit, ServiceCrash, ServiceGone,
                ServiceRestart, Fault, routerVars, vars
  <2> QED
    BY <2>1
<1> QED
  BY <1>1, <1>2

(* QueuedOnce is an invariant: however many routers share the              *)
(* subscription, connect, stop and come back, every copy of a message      *)
(* beyond the first is one the SDK made by sending that message again.     *)
THEOREM SharedSubscription == Spec => []QueuedOnce
<1> USE BatcherAssumption, RouterAssumption, MqttAssumption
<1>1. Init => OneCopy
  BY DEF Init, RouterInit, OneCopy, InRouter
<1>2. TypeOK /\ OneCopy /\ [Next]_vars => OneCopy'
  BY OneCopyStep, OneCopyElsewhere DEF TypeOK
<1>3. TypeOK /\ OneCopy => QueuedOnce
  BY DEF OneCopy, QueuedOnce, TypeOK, RouterTypeOK
<1> QED
  BY <1>1, <1>2, <1>3, TypeCorrect, PTL DEF Spec

-----------------------------------------------------------------------------
(* The final flush.                                                        *)

\* What a final flush owes is in its batch as long as it runs, and written
\* once it has returned
OwedInv == \A i \in Instances :
    IF finalFlush[i]
    THEN stage[i] # "idle" /\ \A p \in owed[i] : historyBatch[i][p] > 0
    ELSE \A p \in owed[i] : history[p] > 0

(* Every step keeps it so.                                                 *)
LEMMA OwedStep ==
    ASSUME BatcherAssumption, TypeOK, BatchInv, OwedInv, [Next]_vars
    PROVE  OwedInv'
<1> USE DEF TypeOK, BatcherTypeOK, OwedInv
<1>0. \A p \in Packets : history[p] > 0 => history'[p] > 0
  <2>1. ASSUME NEW i \in Instances, BatcherStep(i)
        PROVE  \A p \in Packets : history[p] > 0 => history'[p] > 0
    BY <2>1, NoneDropped DEF BatcherStep, ForgetMemory, mongoVars
  <2> QED
    BY <2>1, StepsOfTheBatcher DEF batcherVars, mongoVars
<1>1. CASE RouterStep /\ UNCHANGED <<batcherVars, serviceVars>>
  BY <1>1 DEF batcherVars, memoryVars, mongoVars, serviceVars
<1>2. CASE \E r \in Routers, m \in Messages : Republish(r, m)
  BY <1>2 DEF Republish, batcherVars, memoryVars, mongoVars
<1>3. CASE \E i \in Instances, m \in Messages : Hear(i, m)
  BY <1>3 DEF Hear, Add, batcherVars, memoryVars, mongoVars
<1>4. CASE \E i \in Instances : Listen(i) \/ Unheard(i) \/ ServiceRestart(i)
  BY <1>4 DEF Listen, Unheard, ServiceRestart, batcherVars, memoryVars, mongoVars
<1>5. CASE \E i \in Instances : FlushTick(i)
  BY <1>5 DEF FlushTick, FlushBegin, CanFlush, mongoVars, serviceVars
<1>6. CASE \E i \in Instances : FlushProgress(i)
  BY <1>0, <1>6 DEF FlushProgress, ApplyUpsert, BulkWriteDone, InsertDocument, mongoVars, serviceVars
<1>7. CASE \E i \in Instances : FlushReturns(i)
  <2> PICK i \in Instances : FlushReturns(i)
    BY <1>7
  <2>1. \A p \in Packets : historyBatch[i][p] > 0 => history[p] > 0
    BY DEF FlushReturns, InsertManyDone, BatchInv, InsertsLand, NoCopies
  <2>2. \A p \in owed[i] : history'[p] > 0
    BY <1>0, <2>1
  <2> QED
    BY <2>2 DEF FlushReturns, InsertManyDone, mongoVars
<1>8. CASE \E i \in Instances : FlushThrows(i)
  BY <1>8 DEF FlushThrows, FlushFail, BulkWriteRejected, TakeBack, mongoVars
<1>9. CASE \E i \in Instances : ServiceSigTerm(i)
  <2> PICK i \in Instances : ServiceSigTerm(i)
    BY <1>9
  <2>1. CASE UNCHANGED <<batcherVars, finalFlush, owed>>
    BY <2>1 DEF batcherVars, memoryVars, mongoVars
  <2>2. CASE /\ FlushBegin(i)
             /\ finalFlush' = [finalFlush EXCEPT ![i] = TRUE]
             /\ owed' = [owed EXCEPT ![i] = {p \in Packets : historyBuffer[i][p] > 0}]
    BY <2>2 DEF FlushBegin, mongoVars
  <2> QED
    BY <2>1, <2>2 DEF ServiceSigTerm
<1>10. CASE \E i \in Instances : ServiceExit(i) \/ ServiceCrash(i)
  <2> PICK i \in Instances : ServiceExit(i) \/ ServiceCrash(i)
    BY <1>10
  <2>1. ServiceGone(i)
    BY DEF ServiceExit, ServiceCrash
  <2> QED
    BY <2>1 DEF ServiceGone, ForgetMemory, mongoVars
<1>11. CASE UNCHANGED vars
  BY <1>11 DEF vars, batcherVars, memoryVars, mongoVars, serviceVars
<1> QED
  BY <1>1, <1>2, <1>3, <1>4, <1>5, <1>6, <1>7, <1>8, <1>9, <1>10, <1>11
  DEF Next, FlushStep, ProcessStep

(* FinalFlushKeepsWindow holds: a process that stops between flushes exits *)
(* only after the window it had received is in telemetry_history, unless   *)
(* its final flush threw.                                                  *)
THEOREM FinalFlushWrites == Spec => FinalFlushKeepsWindow
<1> USE BatcherAssumption
<1>1. Init => OwedInv
  BY DEF Init, OwedInv
<1>2. TypeOK /\ BatchInv /\ OwedInv /\ [Next]_vars => OwedInv'
  BY OwedStep
<1>3. OwedInv =>
        [\A i \in Instances : ServiceExit(i) => \A p \in owed[i] : history[p] > 0]_vars
  BY DEF OwedInv, ServiceExit
<1> QED
  BY <1>1, <1>2, <1>3, TypeCorrect, BatcherCorrect, PTL DEF Spec, FinalFlushKeepsWindow
=============================================================================
