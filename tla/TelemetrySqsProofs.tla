------------------------- MODULE TelemetrySqsProofs -------------------------
(***************************************************************************)
(* Type correctness of TelemetrySqs, the safety of its two collections,    *)
(* zero data loss and the implementation of TelemetryStore when flushes    *)
(* end within their window and stops come between flushes, and what is     *)
(* left of it when flushes overlap, and the bound on duplicates, for any   *)
(* number of instances, vehicles and packets and any bounds on failures,   *)
(* stops and receives.                                                     *)
(***************************************************************************)
EXTENDS TelemetrySqs, TelemetryBatcherProofs, FiniteSetTheorems

(* Whatever it does to receipts and the queue, a step of the service is a  *)
(* step of the batcher of one instance or leaves all batchers and both     *)
(* collections alone.                                                      *)
LEMMA StepsOfTheBatcher ==
    ASSUME [Next]_vars
    PROVE  \/ \E i \in Instances : BatcherStep(i)
           \/ UNCHANGED batcherVars
<1> USE DEF BatcherStep, FlushingStep
<1>1. CASE \E p \in Packets : QueueStep(p)
  BY <1>1 DEF QueueStep, Send, VisibilityTimeout, PrematureTimeout, Reappear, ReceiveLost
<1>2. CASE \E i \in Instances, p \in Packets : Receive(i, p)
  BY <1>2 DEF Receive
<1>3. CASE \E i \in Instances : FlushTick(i)
  BY <1>3 DEF FlushTick, FlushAndAck
<1>4. CASE \E i \in Instances : FlushStep(i)
  BY <1>4 DEF FlushStep, FlushProgress, FlushReturns, FlushThrows, FlushRefused
<1>5. CASE \E i \in Instances : AckStep(i)
  BY <1>5 DEF AckStep, DeleteMessage, DeleteFail
<1>6. CASE \E i \in Instances : ProcessStep(i)
  BY <1>6 DEF ProcessStep, SigTerm, FlushAndAck, Exit, Crash, Forget, Restart
<1>7. CASE UNCHANGED vars
  BY <1>7 DEF vars
<1> QED
  BY <1>1, <1>2, <1>3, <1>4, <1>5, <1>6, <1>7 DEF Next

-----------------------------------------------------------------------------
(* Type correctness.                                                       *)

\* The part of TypeOK that is about the queue and the processes
SqsTypeOK ==
    /\ status \in [Instances -> {"running", "stopping", "down"}]
    /\ pendingReceipts \in [Instances -> SUBSET Receipts]
    /\ flushReceipts \in [Instances -> SUBSET Receipts]
    /\ flushCaller \in [Instances -> Callers]
    /\ acking \in [Instances -> SUBSET (Callers \X Receipts)]
    /\ queue \in [Packets -> {"unsent", "visible", "inflight", "deleted", "dead"}]
    /\ receives \in [Packets -> 0..MaxReceiveCount]
    /\ queueFailures \in 0..MaxQueueFailures
    /\ stops \in 0..MaxStops

\* A message that can still be received has receives left
ReceivesLeft == \A p \in Packets :
    /\ queue[p] = "unsent" => receives[p] = 0
    /\ queue[p] = "visible" => receives[p] < MaxReceiveCount

TypeInv == TypeOK /\ ReceivesLeft

(* Taking and returning receipts keeps their types.                        *)
LEMMA FlushAndAckType ==
    ASSUME SqsTypeOK, NEW i \in Instances, NEW caller \in Callers, FlushAndAck(i, caller)
    PROVE  /\ pendingReceipts' \in [Instances -> SUBSET Receipts]
           /\ flushReceipts' \in [Instances -> SUBSET Receipts]
           /\ flushCaller' \in [Instances -> Callers]
           /\ acking' \in [Instances -> SUBSET (Callers \X Receipts)]
<1>1. Deleting(caller, pendingReceipts[i]) \subseteq Callers \X Receipts
  BY DEF SqsTypeOK, Deleting
<1> QED
  BY <1>1 DEF SqsTypeOK, FlushAndAck

(* Every step keeps the types of the queue and the processes.              *)
LEMMA SqsStepType ==
    ASSUME SqsAssumption, SqsTypeOK, ReceivesLeft, [Next]_vars
    PROVE  SqsTypeOK' /\ ReceivesLeft'
<1> USE DEF SqsTypeOK, ReceivesLeft, SqsAssumption, instanceVars, queueVars
<1>1. CASE \E p \in Packets : QueueStep(p)
  BY <1>1 DEF QueueStep, Send, VisibilityTimeout, PrematureTimeout, Reappear, ReceiveLost,
               QueueFailure
<1>2. CASE \E i \in Instances, p \in Packets : Receive(i, p)
  <2> PICK i \in Instances, p \in Packets : Receive(i, p)
    BY <1>2
  <2>1. <<p, receives'[p]>> \in Receipts
    BY DEF Receive, Receipts
  <2> QED
    BY <2>1 DEF Receive
<1>3. CASE \E i \in Instances : FlushTick(i)
  BY <1>3, FlushAndAckType DEF FlushTick, Callers
<1>4. CASE \E i \in Instances : FlushStep(i)
  <2> PICK i \in Instances : FlushStep(i)
    BY <1>4
  <2>1. CASE FlushProgress(i)
    BY <2>1 DEF FlushProgress
  <2>2. CASE FlushReturns(i)
    <3>1. Deleting(flushCaller[i], flushReceipts[i]) \subseteq Callers \X Receipts
      BY DEF Deleting
    <3> QED
      BY <2>2, <3>1 DEF FlushReturns
  <2>3. CASE FlushThrows(i) \/ FlushRefused(i)
    BY <2>3 DEF FlushThrows, FlushRefused, RestoreReceipts
  <2> QED
    BY <2>1, <2>2, <2>3 DEF FlushStep
<1>5. CASE \E i \in Instances : AckStep(i)
  <2> PICK i \in Instances : AckStep(i)
    BY <1>5
  <2> PICK a \in acking[i] : DeleteMessage(i, a) \/ DeleteFail(i, a)
    BY DEF AckStep
  <2> QED
    BY DEF DeleteMessage, DeleteFail, QueueFailure, Latest
<1>6. CASE \E i \in Instances : ProcessStep(i)
  BY <1>6, FlushAndAckType DEF ProcessStep, SigTerm, Exit, Crash, Forget, Restart, Callers
<1>7. CASE UNCHANGED vars
  BY <1>7 DEF vars
<1> QED
  BY <1>1, <1>2, <1>3, <1>4, <1>5, <1>6, <1>7 DEF Next

(* TypeOK is an invariant: every variable of the service stays within its  *)
(* type, receive counts within the redrive policy and the counters within  *)
(* their bounds.                                                           *)
THEOREM TypeCorrect == Spec => []TypeOK
<1> USE BatcherAssumption, SqsAssumption
<1>1. Init => TypeInv
  BY BatcherInitType DEF Init, TypeInv, TypeOK, ReceivesLeft, Callers, SqsAssumption
<1>2. TypeInv /\ [Next]_vars => TypeInv'
  <2> SUFFICES ASSUME TypeInv, [Next]_vars
               PROVE  TypeInv'
    OBVIOUS
  <2>1. BatcherTypeOK /\ SqsTypeOK /\ ReceivesLeft
    BY DEF TypeInv, TypeOK, SqsTypeOK
  <2>2. SqsTypeOK' /\ ReceivesLeft'
    BY <2>1, SqsStepType
  <2>3. BatcherTypeOK'
    <3>1. CASE \E i \in Instances : BatcherStep(i)
      BY <2>1, <3>1, BatcherStepType
    <3>2. CASE UNCHANGED batcherVars
      BY <2>1, <3>2 DEF BatcherTypeOK, batcherVars, memoryVars, mongoVars
    <3> QED
      BY <3>1, <3>2, StepsOfTheBatcher
  <2> QED
    BY <2>2, <2>3 DEF TypeInv, TypeOK, SqsTypeOK
<1>3. TypeInv => TypeOK
  BY DEF TypeInv
<1> QED
  BY <1>1, <1>2, <1>3, PTL DEF Spec

-----------------------------------------------------------------------------
(* The collections and the buffers, whenever flushes and stops happen.     *)

(* The batcher's invariant is an invariant of the service.                 *)
LEMMA BatcherCorrect == Spec => []BatcherInv
<1> USE BatcherAssumption
<1>1. Init => BatcherInv
  BY BatcherInitInv DEF Init
<1>2. TypeOK /\ BatcherInv /\ [Next]_vars => BatcherInv'
  BY StepsOfTheBatcher, BatcherStepInv, BatcherStutterInv DEF TypeOK, batcherVars
<1> QED
  BY <1>1, <1>2, TypeCorrect, PTL DEF Spec

(* BufferCovers is an invariant: a packet waiting for its history document *)
(* is covered by the current-state buffer beside it.                       *)
THEOREM BufferCoverage == Spec => []BufferCovers
<1>1. BatcherInv => BufferCovers
  BY DEF BatcherInv
<1> QED
  BY <1>1, BatcherCorrect, PTL

(* HistoryNeverAhead is an invariant: with any number of instances that    *)
(* flush concurrently, fail half-way, stop and retry, telemetry is never   *)
(* behind telemetry_history.                                               *)
THEOREM HistoryOrder == Spec => []HistoryNeverAhead
<1>1. BatcherInv => HistoryNeverAhead
  BY DEF BatcherInv
<1> QED
  BY <1>1, BatcherCorrect, PTL

-----------------------------------------------------------------------------
(* Zero data loss.                                                         *)

\* The timer never fires and SIGTERM never arrives while a flush is running
FlushesUndisturbed == ~FlushOutlastsWindow /\ ~StopDuringFlush

\* Without a flush there are no receipts of one
NoFlushNoReceipts == \A i \in Instances : stage[i] = "idle" => flushReceipts[i] = {}

LossInv == InsertsLand /\ NoFlushNoReceipts /\ ReceiptsFollowPackets /\ ZeroLoss

(* Steps of the queue.                                                     *)
LEMMA QueueStepLoss ==
    ASSUME SqsAssumption, TypeOK, LossInv, NEW p \in Packets, QueueStep(p)
    PROVE  LossInv'
<1>1. UNCHANGED <<batcherVars, instanceVars>> /\ \A q \in Packets : queue'[q] = "deleted" => queue[q] = "deleted"
  BY DEF TypeOK, QueueStep, Send, VisibilityTimeout, PrematureTimeout, Reappear, ReceiveLost
<1> QED
  BY <1>1 DEF LossInv, InsertsLand, NoFlushNoReceipts, ReceiptsFollowPackets, ZeroLoss,
              batcherVars, memoryVars, mongoVars, instanceVars

(* A message comes in: its receipt and its packet wait together.           *)
LEMMA ReceiveLoss ==
    ASSUME BatcherAssumption, TypeOK, LossInv,
           NEW i \in Instances, NEW p \in Packets, Receive(i, p)
    PROVE  LossInv'
<1> USE DEF TypeOK, BatcherTypeOK, LossInv
<1>1. CASE p \in Malformed
  BY <1>1 DEF Receive, InsertsLand, NoFlushNoReceipts, ReceiptsFollowPackets, ZeroLoss,
              batcherVars, memoryVars, mongoVars
<1>2. CASE p \notin Malformed
  <2>1. InsertsLand' /\ NoFlushNoReceipts' /\ ZeroLoss'
    BY <1>2 DEF Receive, Add, InsertsLand, NoFlushNoReceipts, ZeroLoss, mongoVars
  <2>2. \A j \in Instances, q \in Packets :
           historyBuffer'[j][q] = IF j = i /\ q = p THEN historyBuffer[j][q] + 1
                                  ELSE historyBuffer[j][q]
    BY <1>2 DEF Receive, Add
  <2>3. pendingReceipts' = [pendingReceipts EXCEPT ![i] = @ \union {<<p, receives'[p]>>}]
    BY <1>2 DEF Receive
  <2>4. UNCHANGED <<flushReceipts, acking, historyBatch, history>>
    BY <1>2 DEF Receive, Add, mongoVars
  <2>5. ReceiptsFollowPackets'
    <3>1. \A j \in Instances : \A r \in pendingReceipts'[j] : historyBuffer'[j][r[1]] > 0
      BY <2>2, <2>3 DEF ReceiptsFollowPackets, Receipts
    <3> QED
      BY <3>1, <2>4 DEF ReceiptsFollowPackets
  <2> QED
    BY <2>1, <2>5
<1> QED
  BY <1>1, <1>2

(* flushAndAck starts while no flush is running: either its flush takes    *)
(* the receipts together with the packets, or there are no receipts.       *)
LEMMA FlushAndAckLoss ==
    ASSUME BatcherAssumption, TypeOK, LossInv, BatcherInv,
           NEW i \in Instances, NEW caller \in Callers,
           stage[i] = "idle", FlushAndAck(i, caller), UNCHANGED queue
    PROVE  LossInv'
<1> USE DEF TypeOK, BatcherTypeOK, LossInv
<1>1. CASE CanFlush(i)
  <2>1. FlushBegin(i) /\ flushReceipts' = [flushReceipts EXCEPT ![i] = pendingReceipts[i]]
                      /\ acking' = acking
    BY <1>1 DEF FlushAndAck
  <2>2. pendingReceipts' = [pendingReceipts EXCEPT ![i] = {}]
    BY DEF FlushAndAck
  <2>3. InsertsLand' /\ NoFlushNoReceipts' /\ ZeroLoss'
    BY <2>1 DEF FlushBegin, InsertsLand, NoFlushNoReceipts, ZeroLoss, mongoVars
  <2>4. ReceiptsFollowPackets'
    BY <2>1, <2>2 DEF FlushBegin, ReceiptsFollowPackets, mongoVars
  <2> QED
    BY <2>3, <2>4
<1>2. CASE ~CanFlush(i)
  <2>1. historyBuffer[i] = NoCopies
    BY <1>2 DEF CanFlush, HasBuffered
  <2>2. pendingReceipts[i] = {}
    BY <2>1 DEF ReceiptsFollowPackets, NoCopies, Receipts
  <2>3. UNCHANGED <<batcherVars, flushReceipts>> /\ acking' = acking /\ pendingReceipts' = pendingReceipts
    <3>1. Deleting(caller, pendingReceipts[i]) = {}
      BY <2>2 DEF Deleting
    <3>2. /\ UNCHANGED <<batcherVars, flushReceipts>>
          /\ acking' = [acking EXCEPT ![i] = @ \union {}]
      BY <1>2, <3>1 DEF FlushAndAck, FlushBegin
    <3>3. acking' = acking
      BY <3>2
    <3>4. pendingReceipts' = pendingReceipts
      BY <2>2 DEF FlushAndAck
    <3> QED
      BY <3>2, <3>3, <3>4
  <2> QED
    BY <2>3 DEF InsertsLand, NoFlushNoReceipts, ReceiptsFollowPackets, ZeroLoss, batcherVars,
                memoryVars, mongoVars
<1> QED
  BY <1>1, <1>2

(* The flush goes on: a document that leaves docs is in the history.       *)
LEMMA FlushStepLoss ==
    ASSUME BatcherAssumption, TypeOK, LossInv, BatcherInv,
           NEW i \in Instances, FlushStep(i)
    PROVE  LossInv'
<1> USE DEF TypeOK, BatcherTypeOK, LossInv, BatcherInv
<1>1. CASE \E v \in Vehicles : ApplyUpsert(i, v) /\ UNCHANGED <<instanceVars, queueVars>>
  BY <1>1 DEF ApplyUpsert, InsertsLand, NoFlushNoReceipts, ReceiptsFollowPackets, ZeroLoss,
              instanceVars, queueVars
<1>2. CASE BulkWriteDone(i) /\ UNCHANGED <<instanceVars, queueVars>>
  BY <1>2 DEF BulkWriteDone, InsertsLand, NoFlushNoReceipts, ReceiptsFollowPackets, ZeroLoss,
              instanceVars, queueVars, mongoVars
<1>3. CASE \E p \in Packets : InsertDocument(i, p) /\ UNCHANGED <<instanceVars, queueVars>>
  <2> PICK p \in Packets : InsertDocument(i, p) /\ UNCHANGED <<instanceVars, queueVars>>
    BY <1>3
  <2>1. /\ history'[p] > 0
        /\ \A q \in Packets : history[q] > 0 => history'[q] > 0
        /\ \A j \in Instances, q \in Packets : q # p => docs'[j][q] = docs[j][q]
    BY DEF InsertDocument
  <2>2. InsertsLand'
    BY <2>1 DEF InsertDocument, InsertsLand
  <2>3. NoFlushNoReceipts' /\ ZeroLoss'
    BY <2>1 DEF InsertDocument, NoFlushNoReceipts, ZeroLoss, instanceVars, queueVars
  <2>4. ReceiptsFollowPackets'
    BY <2>1 DEF InsertDocument, ReceiptsFollowPackets, instanceVars, Receipts, Callers
  <2> QED
    BY <2>2, <2>3, <2>4
<1>4. CASE FlushReturns(i)
  <2>1. \A r \in flushReceipts[i] : history[r[1]] > 0
    BY <1>4 DEF FlushReturns, InsertManyDone, InsertsLand, ReceiptsFollowPackets, NoCopies, Receipts
  <2>2. InsertsLand' /\ NoFlushNoReceipts' /\ ZeroLoss'
    BY <1>4 DEF FlushReturns, InsertManyDone, InsertsLand, NoFlushNoReceipts, ZeroLoss,
                mongoVars, queueVars
  <2>3. ReceiptsFollowPackets'
    <3>1. \A j \in Instances : \A r \in pendingReceipts'[j] : historyBuffer'[j][r[1]] > 0
      BY <1>4 DEF FlushReturns, InsertManyDone, ReceiptsFollowPackets
    <3>2. \A j \in Instances : \A r \in flushReceipts'[j] : historyBatch'[j][r[1]] > 0
      BY <1>4 DEF FlushReturns, InsertManyDone, ReceiptsFollowPackets
    <3>3. \A j \in Instances : \A a \in acking'[j] : history'[a[2][1]] > 0
      <4> SUFFICES ASSUME NEW j \in Instances, NEW a \in acking'[j]
                   PROVE  history[a[2][1]] > 0
        BY <1>4 DEF FlushReturns, InsertManyDone, mongoVars
      <4>1. a \in acking[j] \/ \E r \in flushReceipts[i] : a = <<flushCaller[i], r>>
        BY <1>4 DEF FlushReturns, Deleting
      <4> QED
        BY <2>1, <4>1 DEF ReceiptsFollowPackets
    <3> QED
      BY <3>1, <3>2, <3>3 DEF ReceiptsFollowPackets
  <2> QED
    BY <2>2, <2>3
<1>5. CASE FlushThrows(i) \/ FlushRefused(i)
  <2>0. TakeBack(i) /\ RestoreReceipts(i)
    BY <1>5 DEF FlushThrows, FlushFail, FlushRefused, BulkWriteRejected
  <2>1. InsertsLand' /\ NoFlushNoReceipts' /\ ZeroLoss'
    BY <2>0 DEF RestoreReceipts, TakeBack, InsertsLand, NoFlushNoReceipts, ZeroLoss,
                mongoVars, queueVars
  <2>2. \A j \in Instances, p \in Packets :
           historyBuffer[j][p] > 0 \/ (j = i /\ historyBatch[i][p] > 0) => historyBuffer'[j][p] > 0
    BY <2>0 DEF RestoreReceipts, TakeBack
  <2>3. ReceiptsFollowPackets'
    <3>1. \A j \in Instances : \A r \in pendingReceipts'[j] : historyBuffer'[j][r[1]] > 0
      BY <2>0, <2>2 DEF RestoreReceipts, ReceiptsFollowPackets, Receipts
    <3>2. \A j \in Instances : \A r \in flushReceipts'[j] : historyBatch'[j][r[1]] > 0
      BY <2>0 DEF RestoreReceipts, TakeBack, ReceiptsFollowPackets
    <3>3. \A j \in Instances : \A a \in acking'[j] : history'[a[2][1]] > 0
      BY <2>0 DEF RestoreReceipts, TakeBack, ReceiptsFollowPackets, mongoVars
    <3> QED
      BY <3>1, <3>2, <3>3 DEF ReceiptsFollowPackets
  <2> QED
    BY <2>1, <2>3
<1> QED
  BY <1>1, <1>2, <1>3, <1>4, <1>5 DEF FlushStep, FlushProgress

(* Deleting messages: every receipt in acking is of a written packet.      *)
LEMMA AckStepLoss ==
    ASSUME BatcherAssumption, TypeOK, LossInv, NEW i \in Instances, AckStep(i)
    PROVE  LossInv'
<1> USE DEF TypeOK, BatcherTypeOK, LossInv
<1> PICK a \in acking[i] : DeleteMessage(i, a) \/ DeleteFail(i, a)
  BY DEF AckStep
<1>1. /\ UNCHANGED <<memoryVars, mongoVars, pendingReceipts, flushReceipts>>
      /\ acking' = [acking EXCEPT ![i] = @ \ {a}]
  BY DEF DeleteMessage, DeleteFail, batcherVars
<1>2. InsertsLand' /\ NoFlushNoReceipts' /\ ReceiptsFollowPackets'
  BY <1>1 DEF InsertsLand, NoFlushNoReceipts, ReceiptsFollowPackets, memoryVars, mongoVars
<1>3. history[a[2][1]] > 0
  BY DEF ReceiptsFollowPackets
<1>4. \A p \in Packets : queue'[p] = "deleted" => queue[p] = "deleted" \/ p = a[2][1]
  BY DEF DeleteMessage, DeleteFail, queueVars
<1>5. ZeroLoss'
  BY <1>1, <1>3, <1>4 DEF ZeroLoss, mongoVars
<1> QED
  BY <1>2, <1>5

(* A process ends: its receipts go with its memory.                        *)
LEMMA ForgetLoss ==
    ASSUME BatcherAssumption, TypeOK, LossInv, NEW i \in Instances, Forget(i)
    PROVE  LossInv'
BY DEF TypeOK, BatcherTypeOK, LossInv, Forget, ForgetMemory, InsertsLand, NoFlushNoReceipts,
       ReceiptsFollowPackets, ZeroLoss, NoCopies, mongoVars, queueVars

(* At first there is nothing to lose.                                      *)
LEMMA LossInit == Init => LossInv
BY DEF Init, BatcherInit, LossInv, InsertsLand, NoFlushNoReceipts, ReceiptsFollowPackets,
       ZeroLoss, NoCopies

(* Every step keeps LossInv, when ticks and stops wait for flushes.        *)
LEMMA LossStep ==
    ASSUME BatcherAssumption, SqsAssumption, FlushesUndisturbed,
           TypeOK, BatcherInv, LossInv, [Next]_vars
    PROVE  LossInv'
<1>1. CASE \E p \in Packets : QueueStep(p)
  BY <1>1, QueueStepLoss
<1>2. CASE \E i \in Instances, p \in Packets : Receive(i, p)
  BY <1>2, ReceiveLoss
<1>3. CASE \E i \in Instances : FlushTick(i)
  BY <1>3, FlushAndAckLoss DEF FlushTick, FlushesUndisturbed, Callers, queueVars
<1>4. CASE \E i \in Instances : FlushStep(i)
  BY <1>4, FlushStepLoss
<1>5. CASE \E i \in Instances : AckStep(i)
  BY <1>5, AckStepLoss
<1>6. CASE \E i \in Instances : ProcessStep(i)
  <2> PICK i \in Instances : ProcessStep(i)
    BY <1>6
  <2>1. CASE SigTerm(i)
    BY <2>1, FlushAndAckLoss DEF SigTerm, FlushesUndisturbed, Callers, queueVars
  <2>2. CASE Exit(i) \/ Crash(i)
    BY <2>2, ForgetLoss DEF Exit, Crash
  <2>3. CASE Restart(i)
    BY <2>3 DEF Restart, LossInv, InsertsLand, NoFlushNoReceipts, ReceiptsFollowPackets,
                ZeroLoss, batcherVars, memoryVars, mongoVars, queueVars
  <2> QED
    BY <2>1, <2>2, <2>3 DEF ProcessStep
<1>7. CASE UNCHANGED vars
  BY <1>7 DEF vars, LossInv, InsertsLand, NoFlushNoReceipts, ReceiptsFollowPackets, ZeroLoss,
              batcherVars, memoryVars, mongoVars, instanceVars, queueVars
<1> QED
  BY <1>1, <1>2, <1>3, <1>4, <1>5, <1>6, <1>7 DEF Next

(* ZeroLoss is an invariant as long as flushes are undisturbed: no failed  *)
(* call, crash, stop between flushes or early redelivery, on any number of *)
(* instances, gets a message deleted before its packet is written.         *)
THEOREM NoLoss ==
    ASSUME FlushesUndisturbed
    PROVE  Spec => []ZeroLoss
<1>1. TypeOK /\ BatcherInv /\ LossInv /\ [Next]_vars => LossInv'
  BY BatcherAssumption, SqsAssumption, LossStep
<1>2. LossInv => ZeroLoss
  BY DEF LossInv
<1> QED
  BY <1>1, <1>2, LossInit, TypeCorrect, BatcherCorrect, PTL DEF Spec

(* ReceiptsFollowPackets is an invariant under the same condition: at no   *)
(* moment does a receipt part from its packet.                             *)
THEOREM ReceiptsStayWithPackets ==
    ASSUME FlushesUndisturbed
    PROVE  Spec => []ReceiptsFollowPackets
<1>1. TypeOK /\ BatcherInv /\ LossInv /\ [Next]_vars => LossInv'
  BY BatcherAssumption, SqsAssumption, LossStep
<1>2. LossInv => ReceiptsFollowPackets
  BY DEF LossInv
<1> QED
  BY <1>1, <1>2, LossInit, TypeCorrect, BatcherCorrect, PTL DEF Spec

-----------------------------------------------------------------------------
(* Overlapping flushes without stops.                                      *)

\* p is in the history or in somebody's memory
Somewhere(p) == history[p] > 0 \/ \E i \in Instances : InMemory(i, p) > 0

\* Wherever the receipt of a packet is, the packet is somewhere
KeptInv ==
    /\ \A i \in Instances : status[i] = "running"
    /\ \A i \in Instances : \A r \in Held(i) : Somewhere(r[1])
    /\ \A p \in Packets : queue[p] = "deleted" => Somewhere(p)

(* Flushes at rest hold no batch here, too.                                *)
LEMMA BatchesCorrect == Spec => []BatchInv
<1>1. Init => BatchInv
  BY BatcherInitBatch DEF Init
<1>2. TypeOK /\ BatchInv /\ [Next]_vars => BatchInv'
  <2> SUFFICES ASSUME TypeOK, BatchInv, [Next]_vars
               PROVE  BatchInv'
    OBVIOUS
  <2>1. CASE \E i \in Instances : BatcherStep(i)
    BY <2>1, BatcherStepBatch DEF TypeOK
  <2>2. CASE UNCHANGED batcherVars
    BY <2>2 DEF BatchInv, InsertsLand, IdleHoldsNoBatch, batcherVars, memoryVars, mongoVars
  <2> QED
    BY <2>1, <2>2, StepsOfTheBatcher
<1> QED
  BY <1>1, <1>2, TypeCorrect, PTL DEF Spec

(* A packet stays somewhere through every step of a batcher that keeps its *)
(* memory.                                                                 *)
LEMMA StaysSomewhere ==
    ASSUME BatcherTypeOK, BatchInv,
           \/ \E i \in Instances : (\E p \in Packets : Add(i, p)) \/ FlushingStep(i)
           \/ UNCHANGED <<memoryVars, mongoVars>>
    PROVE  \A p \in Packets : Somewhere(p) => Somewhere(p)'
<1>1. ASSUME NEW i \in Instances, (\E p \in Packets : Add(i, p)) \/ FlushingStep(i)
      PROVE  \A p \in Packets : Somewhere(p) => Somewhere(p)'
  BY <1>1, NoneDropped DEF Somewhere
<1>2. CASE UNCHANGED <<memoryVars, mongoVars>>
  BY <1>2 DEF Somewhere, InMemory, memoryVars, mongoVars
<1> QED
  BY <1>1, <1>2

(* flushAndAck only passes receipts on.                                    *)
LEMMA FlushAndAckKeeps ==
    ASSUME TypeOK, BatchInv, KeptInv, NEW i \in Instances, NEW caller \in Callers,
           FlushAndAck(i, caller), UNCHANGED <<status, queueVars>>
    PROVE  KeptInv'
<1>1. \A p \in Packets : Somewhere(p) => Somewhere(p)'
  BY StaysSomewhere DEF TypeOK, FlushAndAck, FlushingStep, batcherVars
<1>2. \A j \in Instances : \A r \in Held(j)' : r \in Held(j)
  BY DEF FlushAndAck, Held, Deleting, TypeOK
<1>3. \A j \in Instances : \A r \in Held(j) : r[1] \in Packets
  BY DEF Held, TypeOK, Receipts
<1> QED
  BY <1>1, <1>2, <1>3 DEF KeptInv, queueVars

(* Every step keeps KeptInv, when no process stops.                        *)
LEMMA KeptStep ==
    ASSUME SqsAssumption, MaxStops = 0, TypeOK, BatchInv, KeptInv, [Next]_vars
    PROVE  KeptInv'
<1>0. \A j \in Instances : \A r \in Held(j) : r[1] \in Packets
  BY DEF Held, TypeOK, Receipts
<1>1. CASE \E p \in Packets : QueueStep(p)
  <2>1. \A p \in Packets : Somewhere(p) => Somewhere(p)'
    BY <1>1, StaysSomewhere
    DEF TypeOK, QueueStep, Send, VisibilityTimeout, PrematureTimeout, Reappear, ReceiveLost, batcherVars
  <2>2. /\ UNCHANGED instanceVars
        /\ \A p \in Packets : queue'[p] = "deleted" => queue[p] = "deleted"
    BY <1>1 DEF TypeOK, QueueStep, Send, VisibilityTimeout, PrematureTimeout, Reappear, ReceiveLost
  <2> QED
    BY <1>0, <2>1, <2>2 DEF KeptInv, Held, instanceVars
<1>2. CASE \E i \in Instances, p \in Packets : Receive(i, p)
  <2> PICK i \in Instances : \E p \in Packets : Receive(i, p)
    BY <1>2
  <2> PICK p \in Packets : Receive(i, p)
    OBVIOUS
  <2>1. \A q \in Packets : Somewhere(q) => Somewhere(q)'
    BY StaysSomewhere DEF TypeOK, Receive, batcherVars
  <2>2. p \notin Malformed => Somewhere(p)'
    BY DEF Receive, Add, Somewhere, InMemory, TypeOK, BatcherTypeOK
  <2>3. \A j \in Instances : \A r \in Held(j)' : r \in Held(j) \/ (r[1] = p /\ p \notin Malformed)
    BY DEF Receive, Held, TypeOK
  <2>4. \A q \in Packets : queue'[q] = "deleted" => queue[q] = "deleted"
    BY DEF Receive, TypeOK
  <2> QED
    BY <1>0, <2>1, <2>2, <2>3, <2>4 DEF KeptInv, Receive
<1>3. CASE \E i \in Instances : FlushTick(i)
  BY <1>3, FlushAndAckKeeps DEF FlushTick, Callers, queueVars
<1>4. CASE \E i \in Instances : FlushStep(i)
  <2>1. \A p \in Packets : Somewhere(p) => Somewhere(p)'
    BY <1>4, StaysSomewhere
    DEF TypeOK, FlushStep, FlushProgress, FlushReturns, FlushThrows, FlushRefused, FlushingStep
  <2>2. \A j \in Instances : \A r \in Held(j)' : r \in Held(j)
    BY <1>4 DEF FlushStep, FlushProgress, FlushReturns, FlushThrows, FlushRefused,
                RestoreReceipts, Held, Deleting, TypeOK, instanceVars
  <2>3. queue' = queue /\ status' = status
    BY <1>4 DEF FlushStep, FlushProgress, FlushReturns, FlushThrows, FlushRefused,
                RestoreReceipts, instanceVars, queueVars
  <2> QED
    BY <1>0, <2>1, <2>2, <2>3 DEF KeptInv
<1>5. CASE \E i \in Instances : AckStep(i)
  <2> PICK i \in Instances : AckStep(i)
    BY <1>5
  <2> PICK a \in acking[i] : DeleteMessage(i, a) \/ DeleteFail(i, a)
    BY DEF AckStep
  <2>1. \A p \in Packets : Somewhere(p) => Somewhere(p)'
    BY StaysSomewhere DEF TypeOK, DeleteMessage, DeleteFail, batcherVars
  <2>2. \A j \in Instances : \A r \in Held(j)' : r \in Held(j)
    BY DEF DeleteMessage, DeleteFail, Held, TypeOK
  <2>3. \A p \in Packets : queue'[p] = "deleted" => queue[p] = "deleted" \/ p = a[2][1]
    BY DEF DeleteMessage, DeleteFail, TypeOK, queueVars
  <2>4. a[2] \in Held(i) /\ status' = status
    BY DEF Held, DeleteMessage, DeleteFail
  <2> QED
    BY <1>0, <2>1, <2>2, <2>3, <2>4 DEF KeptInv
<1>6. CASE \E i \in Instances : ProcessStep(i)
  BY <1>6 DEF ProcessStep, SigTerm, Exit, StopDone, Crash, Restart, KeptInv, TypeOK
<1>7. CASE UNCHANGED vars
  BY <1>7 DEF vars, KeptInv, Held, Somewhere, InMemory, batcherVars, memoryVars, mongoVars,
              instanceVars, queueVars
<1> QED
  BY <1>1, <1>2, <1>3, <1>4, <1>5, <1>6, <1>7 DEF Next

(* NeverForgotten is an invariant as long as no process stops: a flush     *)
(* that outlasts its window deletes messages early, but their packets are  *)
(* still in memory, whatever fails and is redelivered.                     *)
THEOREM EarlyDeleteIsHarmless ==
    ASSUME MaxStops = 0
    PROVE  Spec => []NeverForgotten
<1>1. Init => KeptInv
  BY DEF Init, KeptInv, Held
<1>2. TypeOK /\ BatchInv /\ KeptInv /\ [Next]_vars => KeptInv'
  BY SqsAssumption, KeptStep
<1>3. KeptInv => NeverForgotten
  BY DEF KeptInv, NeverForgotten, Somewhere
<1> QED
  BY <1>1, <1>2, <1>3, TypeCorrect, BatchesCorrect, PTL DEF Spec

-----------------------------------------------------------------------------
(* The current documents, and the abstract store.                          *)

(* A step of the collections is a step of a batcher.                       *)
LEMMA NoRegressStep ==
    ASSUME BatcherAssumption, TypeOK, BatcherInv, [Next]_vars
    PROVE  \A v \in Vehicles : current[v] # NoPacket => AtLeast(current'[v], current[v])
<1> USE DEF TypeOK, BatcherTypeOK
<1>1. CASE current' = current
  BY <1>1 DEF AtLeast, BatcherAssumption
<1>2. ASSUME NEW i \in Instances, NEW v \in Vehicles,
             batch[i][v] \in Packets,
             current[v] = NoPacket \/ AtLeast(batch[i][v], current[v]),
             current' = [current EXCEPT ![v] = batch[i][v]]
      PROVE  \A w \in Vehicles : current[w] # NoPacket => AtLeast(current'[w], current[w])
  BY <1>2 DEF AtLeast, BatcherAssumption
<1> QED
  BY <1>1, <1>2, StepsOfTheBatcher, CurrentStep DEF batcherVars, mongoVars

(* CurrentNeverRegresses holds: no interleaving of flushes, failures,      *)
(* retries and stops replaces a document by an older one.                  *)
THEOREM NoRegress == Spec => CurrentNeverRegresses
<1>1. TypeOK /\ BatcherInv /\ [Next]_vars =>
        \A v \in Vehicles : current[v] # NoPacket => AtLeast(current'[v], current[v])
  BY BatcherAssumption, NoRegressStep
<1> QED
  BY <1>1, TypeCorrect, BatcherCorrect, PTL DEF Spec, CurrentNeverRegresses

(* Packets stay under their vehicles in this service.                      *)
LEMMA SlotsCorrect == Spec => []OwnSlots
<1> USE BatcherAssumption
<1>1. Init => OwnSlots
  BY DEF Init, BatcherInit, OwnSlots, NoneHeld
<1>2. TypeOK /\ OwnSlots /\ [Next]_vars => OwnSlots'
  BY StepsOfTheBatcher, OwnSlotsStep DEF TypeOK, OwnSlots, batcherVars, memoryVars
<1> QED
  BY <1>1, <1>2, TypeCorrect, PTL DEF Spec
(* Most steps the store does not see.                                      *)
LEMMA InvisibleSteps ==
    ASSUME TypeOK, UNCHANGED mongoVars,
           \A p \in Packets : queue'[p] = "deleted" <=> queue[p] = "deleted"
    PROVE  UNCHANGED Store!storeVars
BY DEF Store!storeVars, mongoVars

(* An applied upsert, an inserted document and a deleted message are the   *)
(* three steps of the store.                                               *)
LEMMA VisibleSteps ==
    ASSUME BatcherAssumption, TypeOK, BatcherInv, HistoryNeverAhead', OwnSlots,
           NEW i \in Instances, FlushStep(i)
    PROVE  [Store!Next]_Store!storeVars
<1> USE DEF TypeOK
<1>0. queue' = queue
  BY DEF FlushStep, FlushProgress, FlushReturns, FlushThrows, FlushRefused, RestoreReceipts, queueVars
<1>1. CASE \E v \in Vehicles : ApplyUpsert(i, v)
  <2>1. history' = history /\ BatcherStep(i)
    BY <1>1 DEF ApplyUpsert, BatcherStep, FlushingStep
  <2>2. CASE current' = current
    BY <1>0, <2>1, <2>2 DEF Store!storeVars
  <2>3. CASE current' # current
    <3>1. PICK v \in Vehicles :
             /\ batch[i][v] \in Packets
             /\ current[v] = NoPacket \/ AtLeast(batch[i][v], current[v])
             /\ current' = [current EXCEPT ![v] = batch[i][v]]
      BY <2>1, <2>3, CurrentStep
    <3>2. VehicleOf[batch[i][v]] = v
      BY <3>1 DEF OwnSlots, BatcherAssumption
    <3>3. Store!Advance(batch[i][v])
      BY <1>0, <2>1, <3>1, <3>2 DEF Store!Advance, Store!AtLeast, AtLeast
    <3> QED
      BY <3>1, <3>3 DEF Store!Next
  <2> QED
    BY <2>2, <2>3
<1>2. CASE \E p \in Packets : InsertDocument(i, p)
  <2> PICK p \in Packets : InsertDocument(i, p)
    BY <1>2
  <2>1. current' = current /\ history' = [history EXCEPT ![p] = @ + 1]
    BY DEF InsertDocument
  <2>2. history'[p] > 0 /\ \A q \in Packets : history'[q] > 0 <=> history[q] > 0 \/ q = p
    BY <2>1 DEF BatcherTypeOK
  <2>3. AtLeast(current[VehicleOf[p]], p)
    BY <2>1, <2>2 DEF HistoryNeverAhead, AtLeast
  <2>4. {q \in Packets : history'[q] > 0} = {q \in Packets : history[q] > 0} \union {p}
    BY <2>2
  <2>5. Store!Record(p)
    BY <1>0, <2>1, <2>3, <2>4 DEF Store!Record, Store!AtLeast, AtLeast
  <2> QED
    BY <2>5 DEF Store!Next
<1>3. CASE UNCHANGED mongoVars
  BY <1>0, <1>3, InvisibleSteps
<1> QED
  BY <1>1, <1>2, <1>3 DEF FlushStep, FlushProgress, BulkWriteDone, FlushReturns, InsertManyDone,
     FlushThrows, FlushFail, FlushRefused, BulkWriteRejected, TakeBack

(* Every step of the service is a step of the store, or none.              *)
LEMMA StoreStep ==
    ASSUME BatcherAssumption, TypeOK, BatcherInv, HistoryNeverAhead', OwnSlots,
           ReceiptsFollowPackets, [Next]_vars
    PROVE  [Store!Next]_Store!storeVars
<1> USE DEF TypeOK
<1>1. CASE \E p \in Packets : QueueStep(p)
  <2> PICK p \in Packets : QueueStep(p)
    BY <1>1
  <2>1. UNCHANGED mongoVars /\ \A q \in Packets : queue'[q] = "deleted" <=> queue[q] = "deleted"
    BY DEF QueueStep, Send, VisibilityTimeout, PrematureTimeout, Reappear, ReceiveLost, batcherVars
  <2> QED
    BY <2>1, InvisibleSteps
<1>2. CASE \E i \in Instances, p \in Packets : Receive(i, p)
  <2>1. UNCHANGED mongoVars /\ \A q \in Packets : queue'[q] = "deleted" <=> queue[q] = "deleted"
    BY <1>2 DEF Receive, Add, batcherVars
  <2> QED
    BY <2>1, InvisibleSteps
<1>3. CASE \E i \in Instances : FlushTick(i) \/ ProcessStep(i)
  <2>1. UNCHANGED mongoVars /\ queue' = queue
    BY <1>3 DEF FlushTick, FlushAndAck, FlushBegin, ProcessStep, SigTerm, Exit, Crash, Forget,
                ForgetMemory, Restart, queueVars, batcherVars
  <2> QED
    BY <2>1, InvisibleSteps
<1>4. CASE \E i \in Instances : FlushStep(i)
  BY <1>4, VisibleSteps
<1>5. CASE \E i \in Instances : AckStep(i)
  <2> PICK i \in Instances : AckStep(i)
    BY <1>5
  <2> PICK a \in acking[i] : DeleteMessage(i, a) \/ DeleteFail(i, a)
    BY DEF AckStep
  <2> DEFINE p == a[2][1]
  <2>0. p \in Packets /\ history[p] > 0
    BY DEF Receipts, ReceiptsFollowPackets
  <2>1. UNCHANGED mongoVars
    BY DEF DeleteMessage, DeleteFail, batcherVars
  <2>2. CASE \A q \in Packets : queue'[q] = "deleted" <=> queue[q] = "deleted"
    BY <2>1, <2>2, InvisibleSteps
  <2>3. CASE \A q \in Packets : queue'[q] = "deleted" <=> queue[q] = "deleted" \/ q = p
    <3>1. {q \in Packets : queue'[q] = "deleted"} = {q \in Packets : queue[q] = "deleted"} \union {p}
      BY <2>0, <2>3
    <3>2. Store!Acknowledge(p)
      BY <2>0, <2>1, <3>1 DEF Store!Acknowledge, mongoVars
    <3> QED
      BY <2>0, <3>2 DEF Store!Next
  <2> QED
    BY <2>0, <2>2, <2>3 DEF DeleteMessage, DeleteFail, queueVars
<1>6. CASE UNCHANGED vars
  BY <1>6, InvisibleSteps DEF vars, batcherVars, queueVars
<1> QED
  BY <1>1, <1>2, <1>3, <1>4, <1>5, <1>6 DEF Next

(* ImplementsStore holds as long as flushes are undisturbed: batches,      *)
(* receipts, retries, restarts and any number of instances implement the   *)
(* three-step store.                                                       *)
THEOREM Implementation ==
    ASSUME FlushesUndisturbed
    PROVE  Spec => ImplementsStore
<1>1. Init => Store!Init
  BY DEF Init, BatcherInit, Store!Init, NoneHeld, NoCopies
<1>2. TypeOK /\ BatcherInv /\ LossInv /\ [Next]_vars => LossInv'
  BY BatcherAssumption, SqsAssumption, LossStep
<1>3. /\ TypeOK /\ BatcherInv /\ HistoryNeverAhead' /\ OwnSlots /\ LossInv
      /\ [Next]_vars
      => [Store!Next]_Store!storeVars
  BY BatcherAssumption, StoreStep DEF LossInv
<1> QED
  BY <1>1, <1>2, <1>3, LossInit, TypeCorrect, BatcherCorrect, HistoryOrder, SlotsCorrect, PTL
  DEF Spec, ImplementsStore, Store!Spec

-----------------------------------------------------------------------------
(* Duplicates.  A sum over the instances is bounded by handing out tokens  *)
(* of a finite set: nobody shares one.                                     *)

\* The instances and the history can be given tokens out of T: at least
\* need[i] to instance i and at least h to the history
Covered(need, h, T) ==
    \E held \in [Instances -> SUBSET T], H \in SUBSET T :
       /\ \A i, j \in Instances : i # j => held[i] \intersect held[j] = {}
       /\ \A i \in Instances : held[i] \intersect H = {}
       /\ \A i \in Instances : need[i] <= Cardinality(held[i])
       /\ h <= Cardinality(H)

(* With more tokens, or needs that are smaller, they still can.            *)
LEMMA LessIsCovered ==
    ASSUME NEW T, NEW S \in SUBSET T, IsFiniteSet(T), NEW h \in Nat,
           NEW need \in [Instances -> Nat], Covered(need, h, S),
           NEW less \in [Instances -> Nat], \A i \in Instances : less[i] <= need[i]
    PROVE  Covered(less, h, T)
<1>1. PICK held \in [Instances -> SUBSET S], H \in SUBSET S :
         /\ \A i, j \in Instances : i # j => held[i] \intersect held[j] = {}
         /\ \A i \in Instances : held[i] \intersect H = {}
         /\ \A i \in Instances : need[i] <= Cardinality(held[i])
         /\ h <= Cardinality(H)
  BY DEF Covered
<1>2. \A i \in Instances : Cardinality(held[i]) \in Nat
  BY FS_Subset, FS_CardinalityType
<1>3. ASSUME NEW i \in Instances
      PROVE  less[i] <= Cardinality(held[i])
  <2>1. need[i] <= Cardinality(held[i]) /\ less[i] <= need[i]
    BY <1>1
  <2>2. need[i] \in Nat /\ less[i] \in Nat /\ Cardinality(held[i]) \in Nat
    BY <1>2
  <2> QED
    BY <2>1, <2>2
<1>4. held \in [Instances -> SUBSET T] /\ H \in SUBSET T
  OBVIOUS
<1> QED
  BY <1>1, <1>3, <1>4 DEF Covered

(* A new token serves a new need.                                          *)
LEMMA TokenIsAdded ==
    ASSUME NEW T, IsFiniteSet(T), NEW t, t \notin T, NEW h \in Nat,
           NEW need \in [Instances -> Nat], Covered(need, h, T), NEW k \in Instances
    PROVE  Covered([need EXCEPT ![k] = @ + 1], h, T \union {t})
<1>1. PICK held \in [Instances -> SUBSET T], H \in SUBSET T :
         /\ \A i, j \in Instances : i # j => held[i] \intersect held[j] = {}
         /\ \A i \in Instances : held[i] \intersect H = {}
         /\ \A i \in Instances : need[i] <= Cardinality(held[i])
         /\ h <= Cardinality(H)
  BY DEF Covered
<1> DEFINE new == [held EXCEPT ![k] = @ \union {t}]
           more == [need EXCEPT ![k] = @ + 1]
           U == T \union {t}
<1>2. new \in [Instances -> SUBSET U] /\ H \in SUBSET U
  OBVIOUS
<1>3. \A i \in Instances : /\ new[i] = IF i = k THEN held[i] \union {t} ELSE held[i]
                           /\ more[i] = IF i = k THEN need[i] + 1 ELSE need[i]
                           /\ t \notin held[i] /\ t \notin H
                           /\ held[i] \in SUBSET T
  OBVIOUS
<1>4. Cardinality(held[k] \union {t}) = Cardinality(held[k]) + 1 /\ Cardinality(held[k]) \in Nat
  <2>1. IsFiniteSet(held[k])
    BY <1>3, FS_Subset
  <2> QED
    BY <1>3, <2>1, FS_AddElement, FS_CardinalityType
<1> HIDE DEF new, more
<1>5. ASSUME NEW i \in Instances
      PROVE  more[i] <= Cardinality(new[i])
  <2>1. CASE i = k
    <3>1. need[k] \in Nat /\ need[k] <= Cardinality(held[k])
      BY <1>1
    <3>2. more[k] = need[k] + 1 /\ Cardinality(new[k]) = Cardinality(held[k]) + 1
      BY <1>3, <1>4
    <3> QED
      BY <1>4, <2>1, <3>1, <3>2
  <2>2. CASE i # k
    BY <1>1, <1>3, <2>2
  <2> QED
    BY <2>1, <2>2
<1>6. \A i, j \in Instances : i # j => new[i] \intersect new[j] = {}
  BY <1>1, <1>3
<1>7. \A i \in Instances : new[i] \intersect H = {}
  BY <1>1, <1>3
<1>8. Covered(more, h, U)
  <2> HIDE DEF U
  <2> QED
    BY <1>1, <1>2, <1>5, <1>6, <1>7 DEF Covered
<1> QED
  BY <1>8 DEF more

(* A token goes from an instance to the history.                           *)
LEMMA TokenIsMoved ==
    ASSUME NEW T, IsFiniteSet(T), NEW h \in Nat,
           NEW need \in [Instances -> Nat], Covered(need, h, T),
           NEW k \in Instances, need[k] > 0
    PROVE  Covered([need EXCEPT ![k] = @ - 1], h + 1, T)
<1>1. PICK held \in [Instances -> SUBSET T], H \in SUBSET T :
         /\ \A i, j \in Instances : i # j => held[i] \intersect held[j] = {}
         /\ \A i \in Instances : held[i] \intersect H = {}
         /\ \A i \in Instances : need[i] <= Cardinality(held[i])
         /\ h <= Cardinality(H)
  BY DEF Covered
<1>2. held[k] \in SUBSET T /\ IsFiniteSet(held[k]) /\ Cardinality(held[k]) \in Nat
  BY FS_Subset, FS_CardinalityType
<1>3. PICK t : t \in held[k]
  <2>1. Cardinality(held[k]) # 0
    BY <1>1, <1>2
  <2> QED
    BY <1>2, <2>1, FS_EmptySet
<1> DEFINE new == [held EXCEPT ![k] = @ \ {t}]
           fewer == [need EXCEPT ![k] = @ - 1]
           G == H \union {t}
<1>4. new \in [Instances -> SUBSET T] /\ G \in SUBSET T /\ t \notin H
  BY <1>1, <1>2, <1>3
<1>5. \A i \in Instances : /\ new[i] = IF i = k THEN held[i] \ {t} ELSE held[i]
                           /\ fewer[i] = IF i = k THEN need[i] - 1 ELSE need[i]
  OBVIOUS
<1>6. Cardinality(held[k] \ {t}) = Cardinality(held[k]) - 1
  BY <1>2, <1>3, FS_RemoveElement
<1>7. Cardinality(G) = Cardinality(H) + 1 /\ Cardinality(H) \in Nat
  <2>1. IsFiniteSet(H)
    BY FS_Subset
  <2> QED
    BY <1>4, <2>1, FS_AddElement, FS_CardinalityType
<1> HIDE DEF new, fewer
<1>8. ASSUME NEW i \in Instances
      PROVE  fewer[i] <= Cardinality(new[i])
  <2>1. CASE i = k
    <3>1. need[k] \in Nat /\ need[k] <= Cardinality(held[k])
      BY <1>1
    <3>2. fewer[k] = need[k] - 1 /\ Cardinality(new[k]) = Cardinality(held[k]) - 1
      BY <1>5, <1>6
    <3> QED
      BY <1>2, <2>1, <3>1, <3>2
  <2>2. CASE i # k
    BY <1>1, <1>5, <2>2
  <2> QED
    BY <2>1, <2>2
<1>9. \A i, j \in Instances : i # j => new[i] \intersect new[j] = {}
  BY <1>1, <1>5
<1>10. \A i \in Instances : new[i] \intersect G = {}
  BY <1>1, <1>3, <1>5
<1>11. h + 1 <= Cardinality(G)
  BY <1>1, <1>7
<1>12. Covered(fewer, h + 1, T)
  <2> HIDE DEF G
  <2> QED
    BY <1>4, <1>8, <1>9, <1>10, <1>11 DEF Covered
<1> QED
  BY <1>12 DEF fewer

(* One more round of tokens serves an instance that wants as many as the   *)
(* first set gives it.                                                     *)
LEMMA RoundIsAdded ==
    ASSUME NEW S, IsFiniteSet(S), NEW f \in Nat, NEW h \in Nat,
           NEW first \in [Instances -> Nat], Covered(first, 0, S),
           NEW need \in [Instances -> Nat], Covered(need, h, S \X (0..f)),
           NEW k \in Instances
    PROVE  Covered([need EXCEPT ![k] = first[k]], h, S \X (0..f+1))
<1>1. PICK held \in [Instances -> SUBSET (S \X (0..f))], H \in SUBSET (S \X (0..f)) :
         /\ \A i, j \in Instances : i # j => held[i] \intersect held[j] = {}
         /\ \A i \in Instances : held[i] \intersect H = {}
         /\ \A i \in Instances : need[i] <= Cardinality(held[i])
         /\ h <= Cardinality(H)
  BY DEF Covered
<1>2. PICK M \in SUBSET S : first[k] <= Cardinality(M)
  BY DEF Covered
<1> DEFINE T == S \X (0..f)
           U == S \X (0..f+1)
           again == M \X {f+1}
           new == [held EXCEPT ![k] = again]
           changed == [need EXCEPT ![k] = first[k]]
<1>3. Cardinality(again) = Cardinality(M) /\ IsFiniteSet(again)
  <2>1. IsFiniteSet(M) /\ IsFiniteSet({f+1}) /\ Cardinality({f+1}) = 1
    BY FS_Subset, FS_Singleton
  <2>2. Cardinality(M) \in Nat
    BY <2>1, FS_CardinalityType
  <2> QED
    BY <2>1, <2>2, FS_Product
<1>4. T \in SUBSET U /\ again \in SUBSET U /\ again \intersect T = {}
  <2>1. \A x \in T : x[2] # f+1
    OBVIOUS
  <2>2. \A x \in again : x[2] = f+1
    OBVIOUS
  <2>3. f+1 \in 0..f+1 /\ 0..f \subseteq 0..f+1
    OBVIOUS
  <2> QED
    BY <2>1, <2>2, <2>3
<1> HIDE DEF T, U, again
<1>5. held \in [Instances -> SUBSET T] /\ H \in SUBSET T
  BY DEF T
<1>6. new \in [Instances -> SUBSET U] /\ H \in SUBSET U
  BY <1>4, <1>5
<1>7. \A i \in Instances : /\ new[i] = IF i = k THEN again ELSE held[i]
                           /\ changed[i] = IF i = k THEN first[i] ELSE need[i]
                           /\ held[i] \in SUBSET T
  BY <1>5
<1> HIDE DEF new, changed
<1>8. \A i \in Instances : changed[i] <= Cardinality(new[i])
  BY <1>1, <1>2, <1>3, <1>7
<1>9. \A i, j \in Instances : i # j => new[i] \intersect new[j] = {}
  BY <1>1, <1>4, <1>7
<1>10. \A i \in Instances : new[i] \intersect H = {}
  BY <1>1, <1>4, <1>5, <1>7
<1>11. Covered(changed, h, U)
  BY <1>1, <1>6, <1>8, <1>9, <1>10 DEF Covered
<1> QED
  BY <1>11 DEF changed, U

(* The history gets no more than there is.                                 *)
LEMMA CoveredIsBounded ==
    ASSUME NEW T, IsFiniteSet(T), NEW h \in Nat, NEW need, Covered(need, h, T)
    PROVE  h <= Cardinality(T)
<1>1. PICK H \in SUBSET T : h <= Cardinality(H)
  BY DEF Covered
<1> QED
  BY <1>1, FS_Subset, FS_CardinalityType

\* Documents of p that instance i is to insert, as things stand
Pending(i, p) ==
    historyBuffer[i][p] + (IF stage[i] = "insertMany" THEN docs[i][p] ELSE historyBatch[i][p])

Copies(p) == [i \in Instances |-> InMemory(i, p)]
Unwritten(p) == [i \in Instances |-> Pending(i, p)]

\* There is a copy of p in memory for each receive at most; each failed flush
\* may insert them once more
Repeated(p) ==
    /\ Covered(Copies(p), 0, 1..receives[p])
    /\ Covered(Unwritten(p), history[p], (1..receives[p]) \X (0..failures))

\* What these consist of are numbers
Numbers(p) ==
    /\ Copies(p) \in [Instances -> Nat] /\ Unwritten(p) \in [Instances -> Nat]
    /\ history[p] \in Nat /\ receives[p] \in Nat /\ failures \in Nat
    /\ IsFiniteSet(1..receives[p])
    /\ IsFiniteSet((1..receives[p]) \X (0..failures))

(* By type correctness.                                                    *)
LEMMA NumbersOK == TypeOK => \A p \in Packets : Numbers(p)
<1> SUFFICES ASSUME TypeOK, NEW p \in Packets
             PROVE  Numbers(p)
  OBVIOUS
<1>1. history[p] \in Nat /\ receives[p] \in Nat /\ failures \in Nat
  BY DEF TypeOK, BatcherTypeOK
<1>2. \A i \in Instances : /\ historyBuffer[i][p] \in Nat /\ historyBatch[i][p] \in Nat
                           /\ docs[i][p] \in Nat
  BY DEF TypeOK, BatcherTypeOK
<1>3. ASSUME NEW i \in Instances
      PROVE  InMemory(i, p) \in Nat /\ Pending(i, p) \in Nat
  <2>1. historyBuffer[i][p] \in Nat /\ historyBatch[i][p] \in Nat /\ docs[i][p] \in Nat
    BY <1>2
  <2>2. CASE stage[i] = "insertMany"
    BY <2>1, <2>2 DEF InMemory, Pending
  <2>3. CASE stage[i] # "insertMany"
    BY <2>1, <2>3 DEF InMemory, Pending
  <2> QED
    BY <2>2, <2>3
<1>4. IsFiniteSet(1..receives[p]) /\ IsFiniteSet(0..failures)
  <2>1. {0, 1, receives[p], failures} \subseteq Int
    BY <1>1
  <2> QED
    BY <2>1, FS_Interval
<1>5. IsFiniteSet((1..receives[p]) \X (0..failures))
  BY <1>4, FS_Product
<1> QED
  BY <1>1, <1>3, <1>4, <1>5 DEF Numbers, Copies, Unwritten

(* A step that inserts nothing and leaves no more copies than before.      *)
LEMMA QuietStep ==
    ASSUME NEW p \in Packets, Numbers(p), Numbers(p)', Repeated(p),
           \A i \in Instances : InMemory(i, p)' <= InMemory(i, p) /\ Pending(i, p)' <= Pending(i, p),
           history'[p] = history[p], receives'[p] >= receives[p], failures' >= failures
    PROVE  Repeated(p)'
<1> USE DEF Numbers
<1>1. /\ 1..receives[p] \in SUBSET (1..receives'[p])
      /\ (1..receives[p]) \X (0..failures) \in SUBSET ((1..receives'[p]) \X (0..failures'))
  <2>1. 1..receives[p] \subseteq 1..receives'[p] /\ 0..failures \subseteq 0..failures'
    OBVIOUS
  <2> QED
    BY <2>1
<1>2. \A i \in Instances : /\ Copies(p)'[i] <= Copies(p)[i]
                           /\ Unwritten(p)'[i] <= Unwritten(p)[i]
  BY DEF Copies, Unwritten
<1>3. Covered(Copies(p)', 0, 1..receives'[p])
  BY <1>1, <1>2, LessIsCovered DEF Repeated
<1>4. Covered(Unwritten(p)', history[p], (1..receives'[p]) \X (0..failures'))
  BY <1>1, <1>2, LessIsCovered DEF Repeated
<1> QED
  BY <1>3, <1>4 DEF Repeated

(* A received packet is one more copy, with one more receive.              *)
LEMMA ReceiveRepeats ==
    ASSUME TypeOK, NEW i \in Instances, NEW p \in Packets, Numbers(p), Numbers(p)', Repeated(p),
           Receive(i, p), p \notin Malformed
    PROVE  Repeated(p)'
<1> DEFINE R == receives[p]
           S == 1..R
           S1 == 1..(R+1)
           F == 0..failures
<1>1. /\ receives'[p] = R + 1 /\ UNCHANGED <<stage, historyBatch, docs, history, failures>>
      /\ historyBuffer' = [historyBuffer EXCEPT ![i][p] = @ + 1]
      /\ R \in Nat
  BY DEF Receive, Add, TypeOK, mongoVars, Numbers
<1>2. \A j \in Instances : historyBuffer'[j][p] = IF j = i THEN historyBuffer[j][p] + 1
                                                  ELSE historyBuffer[j][p]
  BY <1>1 DEF TypeOK, BatcherTypeOK
<1>3. /\ Copies(p)' = [Copies(p) EXCEPT ![i] = @ + 1]
      /\ Unwritten(p)' = [Unwritten(p) EXCEPT ![i] = @ + 1]
  <2>1. ASSUME NEW j \in Instances
        PROVE  /\ historyBuffer[j][p] \in Nat /\ historyBatch[j][p] \in Nat /\ docs[j][p] \in Nat
    BY DEF TypeOK, BatcherTypeOK
  <2>2. ASSUME NEW j \in Instances
        PROVE  /\ InMemory(j, p)' = IF j = i THEN InMemory(j, p) + 1 ELSE InMemory(j, p)
               /\ Pending(j, p)' = IF j = i THEN Pending(j, p) + 1 ELSE Pending(j, p)
    <3>1. \/ stage[j] = "insertMany" /\ stage'[j] = "insertMany"
          \/ stage[j] # "insertMany" /\ stage'[j] # "insertMany"
      BY <1>1
    <3> QED
      BY <1>1, <1>2, <2>1, <3>1 DEF InMemory, Pending
  <2> QED
    BY <2>2 DEF Copies, Unwritten
<1> USE DEF Numbers
<1>4. S1 = S \union {R+1} /\ R+1 \notin S
  BY <1>1
<1>5. Covered(Copies(p)', 0, S1)
  <2>1. Covered([Copies(p) EXCEPT ![i] = @ + 1], 0, S \union {R+1})
    BY <1>4, TokenIsAdded DEF Repeated
  <2> QED
    BY <1>3, <1>4, <2>1
<1>6. Covered(Unwritten(p)', history[p], S1 \X F)
  <2> DEFINE t == <<R+1, 0>>
             T == S \X F
  <2>1. t \notin T /\ IsFiniteSet(T)
    BY <1>4
  <2>2. Covered(Unwritten(p)', history[p], T \union {t})
    <3>1. Covered(Unwritten(p), history[p], T)
      BY DEF Repeated
    <3> HIDE DEF t, T
    <3>2. Covered([Unwritten(p) EXCEPT ![i] = @ + 1], history[p], T \union {t})
      BY <2>1, <3>1, TokenIsAdded
    <3> QED
      BY <1>3, <3>2
  <2>3. T \union {t} \in SUBSET (S1 \X F)
    <3>1. 0 \in F
      OBVIOUS
    <3>2. t \in S1 \X F
      BY <1>4, <3>1
    <3> QED
      BY <1>4, <3>2
  <2>4. IsFiniteSet(S1 \X F)
    BY <1>1
  <2> DEFINE G == S1 \X F
             need == Unwritten(p)'
  <2>5. need \in [Instances -> Nat] /\ \A j \in Instances : need[j] <= need[j]
    OBVIOUS
  <2> HIDE DEF t, T, G, need
  <2>6. Covered(need, history[p], G)
    <3>1. T \union {t} \in SUBSET G /\ IsFiniteSet(G)
      BY <2>3, <2>4 DEF G
    <3>2. Covered(need, history[p], T \union {t})
      BY <2>2 DEF need
    <3> QED
      BY <2>5, <3>1, <3>2, LessIsCovered
  <2> QED
    BY <2>6 DEF G, need
<1> QED
  BY <1>1, <1>5, <1>6 DEF Repeated

(* An inserted document leaves one less to insert.                         *)
LEMMA InsertRepeats ==
    ASSUME TypeOK, NEW i \in Instances, NEW p \in Packets, Numbers(p), Repeated(p),
           InsertDocument(i, p), UNCHANGED receives
    PROVE  Repeated(p)'
<1>1. /\ stage[i] = "insertMany" /\ docs[i][p] > 0
      /\ UNCHANGED <<stage, historyBuffer, historyBatch, failures>>
      /\ docs' = [docs EXCEPT ![i][p] = @ - 1]
      /\ history'[p] = history[p] + 1
  BY DEF InsertDocument, TypeOK, BatcherTypeOK
<1>2. \A j \in Instances : docs'[j][p] = IF j = i THEN docs[j][p] - 1 ELSE docs[j][p]
  BY <1>1 DEF TypeOK, BatcherTypeOK
<1>3. ASSUME NEW j \in Instances
      PROVE  historyBuffer[j][p] \in Nat /\ historyBatch[j][p] \in Nat /\ docs[j][p] \in Nat
  BY DEF TypeOK, BatcherTypeOK
<1>4. ASSUME NEW j \in Instances
      PROVE  /\ InMemory(j, p)' = InMemory(j, p)
             /\ Pending(j, p)' = IF j = i THEN Pending(j, p) - 1 ELSE Pending(j, p)
  <2>1. CASE j = i
    BY <1>1, <1>2, <1>3, <2>1 DEF InMemory, Pending
  <2>2. CASE j # i
    BY <1>1, <1>2, <2>2 DEF InMemory, Pending
  <2> QED
    BY <2>1, <2>2
<1>5. Copies(p)' = Copies(p) /\ Unwritten(p)' = [Unwritten(p) EXCEPT ![i] = @ - 1]
  BY <1>4 DEF Copies, Unwritten
<1>6. Unwritten(p)[i] > 0
  BY <1>1, <1>3 DEF Unwritten, Pending
<1>7. Covered(Unwritten(p)', history[p] + 1, (1..receives[p]) \X (0..failures))
  <2> DEFINE T == (1..receives[p]) \X (0..failures)
  <2>1. Covered(Unwritten(p), history[p], T) /\ IsFiniteSet(T)
    BY DEF Repeated, Numbers
  <2> HIDE DEF T
  <2>2. Covered([Unwritten(p) EXCEPT ![i] = @ - 1], history[p] + 1, T)
    BY <1>6, <2>1, TokenIsMoved DEF Numbers
  <2> QED
    BY <1>5, <2>2 DEF T
<1> QED
  BY <1>1, <1>5, <1>7 DEF Repeated

(* A failed flush may insert every copy once more that is in memory.       *)
LEMMA FailRepeats ==
    ASSUME TypeOK, NEW i \in Instances, NEW p \in Packets, Numbers(p), Repeated(p),
           FlushFail(i), UNCHANGED receives
    PROVE  Repeated(p)'
<1>1. /\ failures' = failures + 1 /\ UNCHANGED history
      /\ historyBuffer' = [historyBuffer EXCEPT ![i] = [q \in Packets |-> historyBatch[i][q] + @[q]]]
      /\ stage' = [stage EXCEPT ![i] = "idle"]
      /\ historyBatch' = [historyBatch EXCEPT ![i] = NoCopies]
      /\ docs' = [docs EXCEPT ![i] = NoCopies]
  BY DEF FlushFail, TakeBack, mongoVars
<1>2. ASSUME NEW j \in Instances
      PROVE  historyBuffer[j][p] \in Nat /\ historyBatch[j][p] \in Nat /\ docs[j][p] \in Nat
  BY DEF TypeOK, BatcherTypeOK
<1>3. /\ historyBuffer'[i][p] = historyBatch[i][p] + historyBuffer[i][p]
      /\ historyBatch'[i][p] = 0 /\ stage'[i] = "idle"
  BY <1>1 DEF TypeOK, BatcherTypeOK, NoCopies
<1>4. \A j \in Instances : j # i => /\ historyBuffer'[j][p] = historyBuffer[j][p]
                                    /\ historyBatch'[j][p] = historyBatch[j][p]
                                    /\ docs'[j][p] = docs[j][p] /\ stage'[j] = stage[j]
  BY <1>1 DEF TypeOK, BatcherTypeOK
<1>5. ASSUME NEW j \in Instances
      PROVE  /\ InMemory(j, p)' = InMemory(j, p)
             /\ Pending(j, p)' = IF j = i THEN InMemory(j, p) ELSE Pending(j, p)
  <2>1. CASE j = i
    BY <1>2, <1>3, <2>1 DEF InMemory, Pending
  <2>2. CASE j # i
    BY <1>4, <2>2 DEF InMemory, Pending
  <2> QED
    BY <2>1, <2>2
<1>6. Copies(p)' = Copies(p) /\ Unwritten(p)' = [Unwritten(p) EXCEPT ![i] = Copies(p)[i]]
  BY <1>5 DEF Copies, Unwritten
<1>7. Covered(Unwritten(p)', history[p], (1..receives[p]) \X (0..failures + 1))
  <2> DEFINE S == 1..receives[p]
  <2>1. /\ Covered(Copies(p), 0, S) /\ IsFiniteSet(S)
        /\ Covered(Unwritten(p), history[p], S \X (0..failures))
    BY DEF Repeated, Numbers
  <2> HIDE DEF S
  <2>2. Covered([Unwritten(p) EXCEPT ![i] = Copies(p)[i]], history[p], S \X (0..failures + 1))
    BY <2>1, RoundIsAdded DEF Numbers
  <2> QED
    BY <1>6, <2>2 DEF S
<1> QED
  BY <1>1, <1>6, <1>7 DEF Repeated

\* A step inserts nothing and leaves no more copies than before
Quiet(p) ==
    /\ \A i \in Instances : InMemory(i, p)' <= InMemory(i, p) /\ Pending(i, p)' <= Pending(i, p)
    /\ history'[p] = history[p]

(* A step that touches neither buffers nor batches is one.                 *)
LEMMA RestIsQuiet ==
    ASSUME TypeOK, NEW p \in Packets,
           UNCHANGED <<historyBuffer, stage, historyBatch, docs, history>>
    PROVE  Quiet(p)
<1>1. ASSUME NEW j \in Instances
      PROVE  historyBuffer[j][p] \in Nat /\ historyBatch[j][p] \in Nat /\ docs[j][p] \in Nat
  BY DEF TypeOK, BatcherTypeOK
<1>2. \A j \in Instances : InMemory(j, p)' = InMemory(j, p) /\ Pending(j, p)' = Pending(j, p)
  BY DEF InMemory, Pending
<1>3. \A j \in Instances : InMemory(j, p) \in Nat /\ Pending(j, p) \in Nat
  BY <1>1 DEF InMemory, Pending
<1> QED
  BY <1>2, <1>3 DEF Quiet

(* So are most steps of the batcher.                                       *)
LEMMA MostAreQuiet ==
    ASSUME TypeOK, NEW i \in Instances, NEW p \in Packets,
           \/ \E v \in Vehicles : ApplyUpsert(i, v)
           \/ FlushBegin(i) \/ BulkWriteDone(i) \/ InsertManyDone(i) \/ BulkWriteRejected(i)
           \/ ForgetMemory(i)
    PROVE  Quiet(p)
<1>1. ASSUME NEW j \in Instances
      PROVE  historyBuffer[j][p] \in Nat /\ historyBatch[j][p] \in Nat /\ docs[j][p] \in Nat
  BY DEF TypeOK, BatcherTypeOK
<1> DEFINE Others == \A j \in Instances : j # i =>
                        /\ historyBuffer'[j] = historyBuffer[j] /\ historyBatch'[j] = historyBatch[j]
                        /\ docs'[j] = docs[j] /\ stage'[j] = stage[j]
           Fewer == InMemory(i, p)' <= InMemory(i, p) /\ Pending(i, p)' <= Pending(i, p)
<1>2. ASSUME Others, Fewer, history' = history
      PROVE  Quiet(p)
  <2> SUFFICES ASSUME NEW j \in Instances
               PROVE  InMemory(j, p)' <= InMemory(j, p) /\ Pending(j, p)' <= Pending(j, p)
    BY <1>2 DEF Quiet
  <2>1. CASE j = i
    BY <1>2, <2>1
  <2>2. CASE j # i
    <3>1. InMemory(j, p)' = InMemory(j, p) /\ Pending(j, p)' = Pending(j, p)
      BY <1>2, <2>2 DEF InMemory, Pending
    <3>2. InMemory(j, p) \in Nat /\ Pending(j, p) \in Nat
      BY <1>1 DEF InMemory, Pending
    <3> QED
      BY <3>1, <3>2
  <2> QED
    BY <2>1, <2>2
<1>3. CASE \E v \in Vehicles : ApplyUpsert(i, v)
  BY <1>3, RestIsQuiet DEF ApplyUpsert
<1>4. CASE FlushBegin(i)
  <2>1. Others /\ history' = history
    BY <1>4 DEF FlushBegin, TypeOK, BatcherTypeOK, mongoVars
  <2>2. historyBuffer'[i][p] = 0 /\ historyBatch'[i][p] = historyBuffer[i][p] /\ stage'[i] = "bulkWrite"
    BY <1>4 DEF FlushBegin, TypeOK, BatcherTypeOK, NoCopies
  <2>3. Fewer
    BY <1>1, <1>4, <2>2 DEF InMemory, Pending, FlushBegin, CanFlush
  <2> QED
    BY <1>2, <2>1, <2>3
<1>5. CASE BulkWriteDone(i)
  <2>1. Others /\ history' = history
    BY <1>5 DEF BulkWriteDone, TypeOK, BatcherTypeOK, mongoVars
  <2>2. /\ historyBuffer'[i][p] = historyBuffer[i][p] /\ historyBatch'[i][p] = historyBatch[i][p]
        /\ stage'[i] = "insertMany" /\ docs'[i][p] = historyBatch[i][p] /\ stage[i] = "bulkWrite"
    BY <1>5 DEF BulkWriteDone, TypeOK, BatcherTypeOK
  <2>3. Fewer
    BY <1>1, <2>2 DEF InMemory, Pending
  <2> QED
    BY <1>2, <2>1, <2>3
<1>6. CASE InsertManyDone(i)
  <2>1. Others /\ history' = history
    BY <1>6 DEF InsertManyDone, TypeOK, BatcherTypeOK, mongoVars
  <2>2. /\ historyBuffer'[i][p] = historyBuffer[i][p] /\ historyBatch'[i][p] = 0
        /\ stage'[i] = "idle" /\ stage[i] = "insertMany" /\ docs[i][p] = 0
    BY <1>6 DEF InsertManyDone, TypeOK, BatcherTypeOK, NoCopies
  <2>3. Fewer
    BY <1>1, <2>2 DEF InMemory, Pending
  <2> QED
    BY <1>2, <2>1, <2>3
<1>7. CASE BulkWriteRejected(i)
  <2>1. Others /\ history' = history
    BY <1>7 DEF BulkWriteRejected, TakeBack, TypeOK, BatcherTypeOK, mongoVars
  <2>2. /\ historyBuffer'[i][p] = historyBatch[i][p] + historyBuffer[i][p]
        /\ historyBatch'[i][p] = 0 /\ stage'[i] = "idle" /\ stage[i] = "bulkWrite"
    BY <1>7 DEF BulkWriteRejected, TakeBack, TypeOK, BatcherTypeOK, NoCopies
  <2>3. Fewer
    BY <1>1, <2>2 DEF InMemory, Pending
  <2> QED
    BY <1>2, <2>1, <2>3
<1>8. CASE ForgetMemory(i)
  <2>1. Others /\ history' = history
    BY <1>8 DEF ForgetMemory, TypeOK, BatcherTypeOK, mongoVars
  <2>2. historyBuffer'[i][p] = 0 /\ historyBatch'[i][p] = 0 /\ stage'[i] = "idle"
    BY <1>8 DEF ForgetMemory, TypeOK, BatcherTypeOK, NoCopies
  <2>3. InMemory(i, p)' = 0 /\ Pending(i, p)' = 0
    BY <2>2 DEF InMemory, Pending
  <2>4. InMemory(i, p) \in Nat /\ Pending(i, p) \in Nat
    BY <1>1 DEF InMemory, Pending
  <2> QED
    BY <1>2, <2>1, <2>3, <2>4
<1> HIDE DEF Others, Fewer
<1> QED
  BY <1>3, <1>4, <1>5, <1>6, <1>7, <1>8

(* Every step keeps Repeated, whatever instances do about p or about other *)
(* packets.                                                                *)
LEMMA RepeatedStep ==
    ASSUME TypeOK, NEW p \in Packets, Numbers(p), Numbers(p)', Repeated(p), [Next]_vars
    PROVE  Repeated(p)'
<1>1. ASSUME Quiet(p), receives'[p] = receives[p] \/ receives'[p] = receives[p] + 1,
             failures' = failures \/ failures' = failures + 1
      PROVE  Repeated(p)'
  <2>1. receives'[p] >= receives[p] /\ failures' >= failures
    BY <1>1 DEF Numbers
  <2> QED
    BY <1>1, <2>1, QuietStep DEF Quiet
<1>2. ASSUME UNCHANGED <<memoryVars, mongoVars>>
      PROVE  Quiet(p)
  BY <1>2, RestIsQuiet DEF memoryVars, mongoVars
<1>3. ASSUME NEW q \in Packets, QueueStep(q)
      PROVE  Repeated(p)'
  <2>1. /\ UNCHANGED batcherVars
        /\ UNCHANGED receives \/ receives' = [receives EXCEPT ![q] = @ + 1]
    BY <1>3 DEF QueueStep, Send, VisibilityTimeout, PrematureTimeout, Reappear, ReceiveLost
  <2>2. receives'[p] = receives[p] \/ receives'[p] = receives[p] + 1
    BY <2>1 DEF TypeOK
  <2> QED
    BY <1>1, <1>2, <2>1, <2>2 DEF batcherVars
<1>4. ASSUME NEW i \in Instances, NEW q \in Packets, Receive(i, q)
      PROVE  Repeated(p)'
  <2>1. CASE q \in Malformed
    <3>1. UNCHANGED batcherVars /\ receives' = [receives EXCEPT ![q] = @ + 1]
      BY <1>4, <2>1 DEF Receive
    <3>2. receives'[p] = receives[p] \/ receives'[p] = receives[p] + 1
      BY <3>1 DEF TypeOK
    <3> QED
      BY <1>1, <1>2, <3>1, <3>2 DEF batcherVars
  <2>2. CASE q \notin Malformed /\ q = p
    BY <1>4, <2>2, ReceiveRepeats
  <2>3. CASE q \notin Malformed /\ q # p
    <3>1. Add(i, q) /\ receives'[p] = receives[p]
      BY <1>4, <2>3 DEF Receive, TypeOK
    <3>2. /\ \A j \in Instances : historyBuffer'[j][p] = historyBuffer[j][p]
          /\ UNCHANGED <<stage, historyBatch, docs, history, failures>>
      BY <2>3, <3>1 DEF Add, TypeOK, BatcherTypeOK, mongoVars
    <3>3. \A j \in Instances : InMemory(j, p)' = InMemory(j, p) /\ Pending(j, p)' = Pending(j, p)
      BY <3>2 DEF InMemory, Pending
    <3>4. \A j \in Instances : InMemory(j, p) \in Nat /\ Pending(j, p) \in Nat
      BY DEF Numbers, Copies, Unwritten
    <3>5. Quiet(p)
      BY <3>2, <3>3, <3>4 DEF Quiet
    <3> QED
      BY <1>1, <3>1, <3>2, <3>5
  <2> QED
    BY <2>1, <2>2, <2>3
<1>5. ASSUME NEW i \in Instances, NEW caller \in Callers, FlushAndAck(i, caller), UNCHANGED receives
      PROVE  Repeated(p)'
  <2>1. CASE FlushBegin(i)
    BY <1>1, <1>5, <2>1, MostAreQuiet DEF FlushBegin
  <2>2. CASE UNCHANGED batcherVars
    BY <1>1, <1>2, <1>5, <2>2 DEF batcherVars
  <2> QED
    BY <1>5, <2>1, <2>2 DEF FlushAndAck
<1>6. ASSUME NEW i \in Instances, FlushTick(i) \/ SigTerm(i)
      PROVE  Repeated(p)'
  BY <1>5, <1>6 DEF FlushTick, SigTerm, queueVars, Callers
<1>7. ASSUME NEW i \in Instances, FlushStep(i)
      PROVE  Repeated(p)'
  <2>0. UNCHANGED receives
    BY <1>7 DEF FlushStep, FlushProgress, FlushReturns, FlushThrows, FlushRefused,
                RestoreReceipts, queueVars
  <2>1. CASE (\E v \in Vehicles : ApplyUpsert(i, v)) \/ BulkWriteDone(i) \/ InsertManyDone(i)
             \/ BulkWriteRejected(i)
    <3>1. Quiet(p)
      BY <2>1, MostAreQuiet
    <3>2. failures' = failures
      BY <2>1 DEF ApplyUpsert, BulkWriteDone, InsertManyDone, BulkWriteRejected
    <3> QED
      BY <1>1, <2>0, <3>1, <3>2
  <2>2. ASSUME NEW q \in Packets, InsertDocument(i, q)
        PROVE  Repeated(p)'
    <3>1. CASE q = p
      BY <2>0, <2>2, <3>1, InsertRepeats
    <3>2. CASE q # p
      <4>1. /\ \A j \in Instances : docs'[j][p] = docs[j][p]
            /\ history'[p] = history[p]
            /\ UNCHANGED <<stage, historyBuffer, historyBatch, failures>>
        BY <2>2, <3>2 DEF InsertDocument, TypeOK, BatcherTypeOK
      <4>2. \A j \in Instances : InMemory(j, p)' = InMemory(j, p) /\ Pending(j, p)' = Pending(j, p)
        BY <4>1 DEF InMemory, Pending
      <4>3. \A j \in Instances : InMemory(j, p) \in Nat /\ Pending(j, p) \in Nat
        BY DEF Numbers, Copies, Unwritten
      <4>4. Quiet(p)
        BY <4>1, <4>2, <4>3 DEF Quiet
      <4> QED
        BY <1>1, <2>0, <4>1, <4>4
    <3> QED
      BY <3>1, <3>2
  <2>3. CASE FlushFail(i)
    BY <2>0, <2>3, FailRepeats
  <2> QED
    BY <1>7, <2>1, <2>2, <2>3 DEF FlushStep, FlushProgress, FlushReturns, FlushThrows, FlushRefused
<1>8. ASSUME NEW i \in Instances, AckStep(i)
      PROVE  Repeated(p)'
  <2>1. UNCHANGED <<batcherVars, receives>>
    BY <1>8 DEF AckStep, DeleteMessage, DeleteFail, batcherVars, queueVars
  <2> QED
    BY <1>1, <1>2, <2>1 DEF batcherVars
<1>9. ASSUME NEW i \in Instances, Exit(i) \/ Crash(i)
      PROVE  Repeated(p)'
  <2>1. ForgetMemory(i) /\ UNCHANGED <<failures, receives>>
    BY <1>9 DEF Exit, Crash, Forget, ForgetMemory, queueVars
  <2> QED
    BY <1>1, <2>1, MostAreQuiet
<1>10. ASSUME NEW i \in Instances, Restart(i)
       PROVE  Repeated(p)'
  BY <1>1, <1>2, <1>10 DEF Restart, batcherVars, queueVars
<1>11. CASE UNCHANGED vars
  BY <1>1, <1>2, <1>11 DEF vars, batcherVars, queueVars
<1> QED
  BY <1>3, <1>4, <1>6, <1>7, <1>8, <1>9, <1>10, <1>11 DEF Next, ProcessStep

(* At first nobody needs a token.                                          *)
LEMMA RepeatedInit ==
    ASSUME Init, NEW p \in Packets
    PROVE  Repeated(p)
<1> DEFINE none == [i \in Instances |-> {}]
<1>1. /\ Copies(p) = [i \in Instances |-> 0] /\ Unwritten(p) = [i \in Instances |-> 0]
      /\ history[p] = 0
  BY DEF Init, BatcherInit, NoCopies, Copies, Unwritten, InMemory, Pending
<1>2. ASSUME NEW T
      PROVE  Covered([i \in Instances |-> 0], 0, T)
  <2>1. none \in [Instances -> SUBSET T] /\ {} \in SUBSET T /\ \A i \in Instances : none[i] = {}
    OBVIOUS
  <2> HIDE DEF none
  <2> QED
    BY <2>1, FS_EmptySet DEF Covered
<1> QED
  BY <1>1, <1>2 DEF Repeated

(* DuplicatesBounded is an invariant: telemetry_history has no more        *)
(* documents of a packet than its receives account for, each of them once  *)
(* and once more for every failed flush, however many instances hold copies*)
(* of it, and with overlapping flushes, early redelivery, stops and        *)
(* crashes.                                                                *)
THEOREM DuplicatesHaveCauses == Spec => []DuplicatesBounded
<1> DEFINE AllNumbers == \A p \in Packets : Numbers(p)
           AllRepeated == \A p \in Packets : Repeated(p)
<1>1. TypeOK => AllNumbers
  BY NumbersOK
<1>2. Init => AllRepeated
  BY RepeatedInit
<1>3. TypeOK /\ AllNumbers /\ AllNumbers' /\ AllRepeated /\ [Next]_vars => AllRepeated'
  BY RepeatedStep
<1>4. AllNumbers /\ AllRepeated => DuplicatesBounded
  <2> SUFFICES ASSUME AllNumbers, AllRepeated, NEW p \in Packets
               PROVE  history[p] <= receives[p] * (failures + 1)
    BY DEF DuplicatesBounded
  <2> DEFINE S == 1..receives[p]
             F == 0..failures
  <2>1. receives[p] \in Nat /\ failures \in Nat /\ history[p] \in Nat /\ IsFiniteSet(S \X F)
    BY DEF Numbers
  <2>2. history[p] <= Cardinality(S \X F)
    <3>1. Covered(Unwritten(p), history[p], S \X F)
      BY DEF Repeated
    <3> HIDE DEF S, F
    <3> QED
      BY <2>1, <3>1, CoveredIsBounded
  <2>3. IsFiniteSet(S) /\ Cardinality(S) = receives[p]
    <3>1. 1 \in Int /\ receives[p] \in Int
      BY <2>1
    <3>2. Cardinality(S) = IF 1 > receives[p] THEN 0 ELSE receives[p] - 1 + 1
      BY <3>1, FS_Interval
    <3> QED
      BY <2>1, <3>1, <3>2, FS_Interval
  <2>4. IsFiniteSet(F) /\ Cardinality(F) = failures + 1
    <3>1. 0 \in Int /\ failures \in Int
      BY <2>1
    <3>2. Cardinality(F) = IF 0 > failures THEN 0 ELSE failures - 0 + 1
      BY <3>1, FS_Interval
    <3> QED
      BY <2>1, <3>1, <3>2, FS_Interval
  <2>5. Cardinality(S \X F) = receives[p] * (failures + 1)
    BY <2>3, <2>4, FS_Product
  <2> QED
    BY <2>2, <2>5
<1> QED
  BY <1>1, <1>2, <1>3, <1>4, TypeCorrect, PTL DEF Spec

=============================================================================
