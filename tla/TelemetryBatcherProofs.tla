----------------------- MODULE TelemetryBatcherProofs -----------------------
(***************************************************************************)
(* What every step of the batcher preserves, for any number of instances,  *)
(* vehicles and packets.  The specifications that use the batcher cite     *)
(* these lemmas for the steps they share with it.                          *)
(***************************************************************************)
EXTENDS TelemetryBatcher, TLAPS

\* The steps of a flush
FlushingStep(i) ==
    \/ \E v \in Vehicles : ApplyUpsert(i, v)
    \/ \E p \in Packets : InsertDocument(i, p)
    \/ FlushBegin(i) \/ BulkWriteDone(i) \/ InsertManyDone(i)
    \/ FlushFail(i) \/ BulkWriteRejected(i)

\* The steps of one instance, whatever makes it take them
BatcherStep(i) ==
    (\E p \in Packets : Add(i, p)) \/ FlushingStep(i) \/ ForgetMemory(i)

\* A vehicle whose upsert has been applied has a document at least as new as
\* the packet of the batch: applying it cannot be undone by another instance
UpsertsLand == \A i \in Instances, v \in Vehicles :
    stage[i] # "idle" /\ v \notin ops[i] /\ batch[i][v] # NoPacket
        => AtLeast(current[v], batch[i][v])

\* Upserts and inserts are of the running batch, and the inserts come after
\* all the upserts
WorkFromBatch == \A i \in Instances :
    /\ stage[i] = "insertMany" => ops[i] = {}
    /\ \A v \in ops[i] : batch[i][v] # NoPacket
    /\ \A p \in Packets :
          docs[i][p] <= IF stage[i] = "insertMany" THEN historyBatch[i][p] ELSE 0

BatcherInv == BufferCovers /\ UpsertsLand /\ WorkFromBatch /\ HistoryNeverAhead

-----------------------------------------------------------------------------

(* An empty buffer and an empty bag are a buffer and a bag.                *)
LEMMA EmptyTypes ==
    ASSUME BatcherAssumption
    PROVE  /\ NoneHeld \in [Vehicles -> Packets \union {NoPacket}]
           /\ NoCopies \in [Packets -> Nat]
BY DEF BatcherAssumption, NoneHeld, NoCopies

(* The initial state is well typed.                                        *)
LEMMA BatcherInitType ==
    ASSUME BatcherAssumption, BatcherInit
    PROVE  BatcherTypeOK
BY EmptyTypes DEF BatcherAssumption, BatcherInit, BatcherTypeOK

(* Every step of an instance keeps the types.                              *)
LEMMA BatcherStepType ==
    ASSUME BatcherAssumption, BatcherTypeOK, NEW i \in Instances, BatcherStep(i)
    PROVE  BatcherTypeOK'
<1> USE EmptyTypes DEF BatcherTypeOK, BatcherAssumption, mongoVars
<1>1. CASE \E p \in Packets : Add(i, p)
  BY <1>1 DEF Add, Buffered
<1>2. CASE \E p \in Packets : InsertDocument(i, p)
  <2> PICK p \in Packets : InsertDocument(i, p)
    BY <1>2
  <2>1. docs[i][p] - 1 \in Nat
    BY DEF InsertDocument
  <2> QED
    BY <2>1 DEF InsertDocument
<1>3. CASE \E v \in Vehicles : ApplyUpsert(i, v)
  <2> PICK v \in Vehicles : ApplyUpsert(i, v)
    BY <1>3
  <2>1. Upserted(current[v], batch[i][v]) \in Packets \union {NoPacket}
    BY DEF Upserted
  <2> QED
    BY <2>1 DEF ApplyUpsert
<1>4. CASE FlushBegin(i)
  BY <1>4 DEF FlushBegin
<1>5. CASE BulkWriteDone(i)
  BY <1>5 DEF BulkWriteDone
<1>6. CASE InsertManyDone(i)
  BY <1>6 DEF InsertManyDone
<1>7. CASE FlushFail(i) \/ BulkWriteRejected(i)
  <2>1. [v \in Vehicles |-> Restored(buffer[i][v], batch[i][v])]
            \in [Vehicles -> Packets \union {NoPacket}]
    BY DEF Restored
  <2>2. [p \in Packets |-> historyBatch[i][p] + historyBuffer[i][p]] \in [Packets -> Nat]
    OBVIOUS
  <2>3. TakeBack(i) /\ failures' \in 0..MaxFailures
    BY <1>7 DEF FlushFail, BulkWriteRejected
  <2> QED
    BY <2>1, <2>2, <2>3 DEF TakeBack
<1>8. CASE ForgetMemory(i)
  BY <1>8 DEF ForgetMemory
<1> QED
  BY <1>1, <1>2, <1>3, <1>4, <1>5, <1>6, <1>7, <1>8 DEF BatcherStep, FlushingStep

-----------------------------------------------------------------------------

(* Adding a packet.                                                        *)
LEMMA AddInv ==
    ASSUME BatcherAssumption, BatcherTypeOK, BatcherInv,
           NEW i \in Instances, NEW p \in Packets, Add(i, p)
    PROVE  BatcherInv'
<1> USE DEF BatcherTypeOK, BatcherInv
<1>1. BufferCovers'
  <2> SUFFICES ASSUME NEW j \in Instances, NEW q \in Packets
               PROVE  /\ historyBuffer'[j][q] > 0 => AtLeast(buffer[j][VehicleOf[q]], q)'
                      /\ historyBatch'[j][q] > 0 => AtLeast(batch[j][VehicleOf[q]], q)'
    BY DEF BufferCovers
  <2>1. batch' = batch /\ historyBatch' = historyBatch
    BY DEF Add
  <2>2. historyBatch'[j][q] > 0 => AtLeast(batch[j][VehicleOf[q]], q)'
    BY <2>1 DEF BufferCovers, AtLeast
  <2>3. CASE j = i /\ VehicleOf[q] = VehicleOf[p]
    <3>0. buffer[j][VehicleOf[q]] \in Packets \union {NoPacket}
      BY DEF BatcherAssumption
    <3>1. buffer'[j][VehicleOf[q]] = Buffered(buffer[j][VehicleOf[q]], p)
      BY <2>3 DEF Add, BatcherAssumption
    <3>2. AtLeast(Buffered(buffer[j][VehicleOf[q]], p), p)
      BY <3>0 DEF BatcherAssumption, AtLeast, Buffered, Newer
    <3>3. q # p /\ historyBuffer'[j][q] > 0 => AtLeast(buffer[j][VehicleOf[q]], q)
      BY <2>3 DEF Add, BufferCovers
    <3>4. AtLeast(buffer[j][VehicleOf[q]], q) => AtLeast(Buffered(buffer[j][VehicleOf[q]], p), q)
      BY <3>0 DEF BatcherAssumption, AtLeast, Buffered, Newer
    <3> QED
      BY <2>2, <3>1, <3>2, <3>3, <3>4 DEF AtLeast
  <2>4. CASE ~(j = i /\ VehicleOf[q] = VehicleOf[p])
    <3>1. buffer'[j][VehicleOf[q]] = buffer[j][VehicleOf[q]]
      BY <2>4 DEF Add, BatcherAssumption
    <3>2. historyBuffer'[j][q] = historyBuffer[j][q]
      BY <2>4 DEF Add
    <3> QED
      BY <2>2, <3>1, <3>2 DEF BufferCovers, AtLeast
  <2> QED
    BY <2>3, <2>4
<1>2. UpsertsLand' /\ WorkFromBatch' /\ HistoryNeverAhead'
  BY DEF Add, mongoVars, UpsertsLand, WorkFromBatch, HistoryNeverAhead, AtLeast
<1> QED
  BY <1>1, <1>2

(* Taking the buffers.                                                     *)
LEMMA FlushBeginInv ==
    ASSUME BatcherAssumption, BatcherTypeOK, BatcherInv, NEW i \in Instances, FlushBegin(i)
    PROVE  BatcherInv'
<1> USE DEF BatcherTypeOK, BatcherInv, FlushBegin, mongoVars
<1>1. BufferCovers'
  BY DEF BufferCovers, AtLeast, NoneHeld, NoCopies
<1>2. UpsertsLand'
  BY DEF UpsertsLand, AtLeast
<1>3. WorkFromBatch'
  BY DEF WorkFromBatch, CanFlush
<1>4. HistoryNeverAhead'
  BY DEF HistoryNeverAhead, AtLeast
<1> QED
  BY <1>1, <1>2, <1>3, <1>4

(* Applying one upsert.                                                    *)
LEMMA ApplyUpsertInv ==
    ASSUME BatcherAssumption, BatcherTypeOK, BatcherInv,
           NEW i \in Instances, NEW v \in Vehicles, ApplyUpsert(i, v)
    PROVE  BatcherInv'
<1> USE DEF BatcherTypeOK, BatcherInv
<1>1. current' = [current EXCEPT ![v] = Upserted(current[v], batch[i][v])]
  BY DEF ApplyUpsert
<1>2. batch[i][v] \in Packets
  BY DEF ApplyUpsert, WorkFromBatch
<1>3. /\ AtLeast(current'[v], batch[i][v])
      /\ \A p \in Packets, w \in Vehicles : AtLeast(current[w], p) => AtLeast(current'[w], p)
  BY <1>1, <1>2 DEF BatcherAssumption, AtLeast, Upserted, Newer
<1>4. BufferCovers'
  BY DEF ApplyUpsert, BufferCovers, AtLeast
<1>5. UpsertsLand'
  <2> SUFFICES ASSUME NEW j \in Instances, NEW w \in Vehicles,
                      stage'[j] # "idle", w \notin ops'[j], batch'[j][w] # NoPacket
               PROVE  AtLeast(current'[w], batch'[j][w])
    BY DEF UpsertsLand, AtLeast
  <2>1. stage' = stage /\ batch' = batch /\ batch[j][w] \in Packets
    BY DEF ApplyUpsert
  <2>2. CASE j = i /\ w = v
    BY <1>3, <2>1, <2>2
  <2>3. CASE ~(j = i /\ w = v)
    <3>1. w \notin ops[j]
      BY <2>3 DEF ApplyUpsert
    <3> QED
      BY <1>3, <2>1, <3>1 DEF UpsertsLand
  <2> QED
    BY <2>2, <2>3
<1>6. WorkFromBatch'
  BY DEF ApplyUpsert, WorkFromBatch
<1>7. HistoryNeverAhead'
  <2>1. \A p \in Packets : history'[p] > 0 => AtLeast(current'[VehicleOf[p]], p)
    BY <1>3 DEF ApplyUpsert, HistoryNeverAhead, BatcherAssumption
  <2> QED
    BY <2>1 DEF HistoryNeverAhead, AtLeast
<1> QED
  BY <1>4, <1>5, <1>6, <1>7

(* The bulkWrite returns and insertMany is called.                         *)
LEMMA BulkWriteDoneInv ==
    ASSUME BatcherAssumption, BatcherTypeOK, BatcherInv, NEW i \in Instances, BulkWriteDone(i)
    PROVE  BatcherInv'
<1> USE DEF BatcherTypeOK, BatcherInv, BulkWriteDone, mongoVars
<1>1. BufferCovers'
  BY DEF BufferCovers, AtLeast
<1>2. UpsertsLand'
  BY DEF UpsertsLand, AtLeast
<1>3. WorkFromBatch'
  BY DEF WorkFromBatch
<1>4. HistoryNeverAhead'
  BY DEF HistoryNeverAhead, AtLeast
<1> QED
  BY <1>1, <1>2, <1>3, <1>4

(* Inserting one history document: its packet is in the batch, and the     *)
(* batch has landed in the current documents.                              *)
LEMMA InsertDocumentInv ==
    ASSUME BatcherAssumption, BatcherTypeOK, BatcherInv,
           NEW i \in Instances, NEW p \in Packets, InsertDocument(i, p)
    PROVE  BatcherInv'
<1> USE DEF BatcherTypeOK, BatcherInv
<1>1. BufferCovers'
  BY DEF InsertDocument, BufferCovers, AtLeast
<1>2. UpsertsLand'
  BY DEF InsertDocument, UpsertsLand, AtLeast
<1>3. WorkFromBatch'
  <2>1. \A j \in Instances, q \in Packets : docs'[j][q] <= docs[j][q]
    BY DEF InsertDocument
  <2>2. \A j \in Instances, q \in Packets : docs'[j][q] \in Int
    BY DEF InsertDocument
  <2> QED
    BY <2>1, <2>2 DEF InsertDocument, WorkFromBatch
<1>4. HistoryNeverAhead'
  <2>1. historyBatch[i][p] > 0 /\ ops[i] = {} /\ stage[i] = "insertMany"
    BY DEF InsertDocument, WorkFromBatch
  <2>2. VehicleOf[p] \in Vehicles
    BY DEF BatcherAssumption
  <2>3. AtLeast(batch[i][VehicleOf[p]], p)
    BY <2>1 DEF BufferCovers
  <2>4. AtLeast(current[VehicleOf[p]], batch[i][VehicleOf[p]])
    BY <2>1, <2>2, <2>3 DEF UpsertsLand, AtLeast
  <2>5. AtLeast(current[VehicleOf[p]], p)
    BY <2>2, <2>3, <2>4 DEF BatcherAssumption, AtLeast
  <2> QED
    BY <2>5 DEF InsertDocument, HistoryNeverAhead, AtLeast
<1> QED
  BY <1>1, <1>2, <1>3, <1>4

(* The flush returns.                                                      *)
LEMMA InsertManyDoneInv ==
    ASSUME BatcherAssumption, BatcherTypeOK, BatcherInv, NEW i \in Instances, InsertManyDone(i)
    PROVE  BatcherInv'
<1> USE DEF BatcherTypeOK, BatcherInv, InsertManyDone, mongoVars
<1>1. BufferCovers'
  BY DEF BufferCovers, AtLeast, NoneHeld, NoCopies
<1>2. UpsertsLand'
  BY DEF UpsertsLand, AtLeast, NoneHeld
<1>3. WorkFromBatch'
  BY DEF WorkFromBatch, NoCopies
<1>4. HistoryNeverAhead'
  BY DEF HistoryNeverAhead, AtLeast
<1> QED
  BY <1>1, <1>2, <1>3, <1>4

(* The flush throws: what covered the batch and what covered the buffer    *)
(* both cover the restored buffer.                                         *)
LEMMA TakeBackInv ==
    ASSUME BatcherAssumption, BatcherTypeOK, BatcherInv, NEW i \in Instances, TakeBack(i)
    PROVE  BatcherInv'
<1> USE DEF BatcherTypeOK, BatcherInv, TakeBack, mongoVars
<1>1. BufferCovers'
  <2> SUFFICES ASSUME NEW j \in Instances, NEW p \in Packets
               PROVE  /\ historyBuffer'[j][p] > 0 => AtLeast(buffer'[j][VehicleOf[p]], p)
                      /\ historyBatch'[j][p] > 0 => AtLeast(batch'[j][VehicleOf[p]], p)
    BY DEF BufferCovers, AtLeast
  <2>1. VehicleOf[p] \in Vehicles
    BY DEF BatcherAssumption
  <2>2. CASE j # i
    BY <2>2 DEF BufferCovers
  <2>3. CASE j = i
    <3>1. historyBatch'[i][p] = 0
      BY DEF NoCopies
    <3>2. historyBuffer'[i][p] > 0 => historyBuffer[i][p] > 0 \/ historyBatch[i][p] > 0
      OBVIOUS
    <3>3. buffer'[i][VehicleOf[p]] = Restored(buffer[i][VehicleOf[p]], batch[i][VehicleOf[p]])
      BY <2>1
    <3>4. AtLeast(buffer[i][VehicleOf[p]], p) \/ AtLeast(batch[i][VehicleOf[p]], p)
            => AtLeast(buffer'[i][VehicleOf[p]], p)
      BY <2>1, <3>3 DEF BatcherAssumption, AtLeast, Restored
    <3> QED
      BY <2>3, <3>1, <3>2, <3>4 DEF BufferCovers
  <2> QED
    BY <2>2, <2>3
<1>2. UpsertsLand'
  BY DEF UpsertsLand, AtLeast, NoneHeld
<1>3. WorkFromBatch'
  BY DEF WorkFromBatch, NoCopies
<1>4. HistoryNeverAhead'
  BY DEF HistoryNeverAhead, AtLeast
<1> QED
  BY <1>1, <1>2, <1>3, <1>4

(* The process ends.                                                       *)
LEMMA ForgetMemoryInv ==
    ASSUME BatcherAssumption, BatcherTypeOK, BatcherInv, NEW i \in Instances, ForgetMemory(i)
    PROVE  BatcherInv'
<1> USE DEF BatcherTypeOK, BatcherInv, ForgetMemory, mongoVars
<1>1. BufferCovers'
  BY DEF BufferCovers, AtLeast, NoneHeld, NoCopies
<1>2. UpsertsLand'
  BY DEF UpsertsLand, AtLeast, NoneHeld
<1>3. WorkFromBatch'
  BY DEF WorkFromBatch, NoCopies
<1>4. HistoryNeverAhead'
  BY DEF HistoryNeverAhead, AtLeast
<1> QED
  BY <1>1, <1>2, <1>3, <1>4

-----------------------------------------------------------------------------

(* The initial state satisfies the invariant: nothing is held anywhere.    *)
LEMMA BatcherInitInv ==
    ASSUME BatcherAssumption, BatcherInit
    PROVE  BatcherInv
BY DEF BatcherInit, BatcherInv, BufferCovers, UpsertsLand, WorkFromBatch, HistoryNeverAhead,
       NoneHeld, NoCopies

(* Every step of an instance keeps the invariant.                          *)
LEMMA BatcherStepInv ==
    ASSUME BatcherAssumption, BatcherTypeOK, BatcherInv, NEW i \in Instances, BatcherStep(i)
    PROVE  BatcherInv'
BY AddInv, FlushBeginInv, ApplyUpsertInv, BulkWriteDoneInv, InsertDocumentInv, InsertManyDoneInv,
   TakeBackInv, ForgetMemoryInv DEF BatcherStep, FlushingStep, FlushFail, BulkWriteRejected

(* So does a step that touches the collections and the memory of no        *)
(* instance.                                                               *)
LEMMA BatcherStutterInv ==
    ASSUME BatcherInv, UNCHANGED <<memoryVars, mongoVars>>
    PROVE  BatcherInv'
BY DEF BatcherInv, BufferCovers, UpsertsLand, WorkFromBatch, HistoryNeverAhead, AtLeast,
       memoryVars, mongoVars
-----------------------------------------------------------------------------
(* What becomes of a packet between add and its history document.          *)

\* A document of the running batch that is not waiting any more was inserted
InsertsLand == \A i \in Instances, p \in Packets :
    stage[i] = "insertMany" /\ historyBatch[i][p] > docs[i][p] => history[p] > 0

\* Without a flush there is no batch
IdleHoldsNoBatch == \A i \in Instances : stage[i] = "idle" =>
    \A p \in Packets : historyBatch[i][p] = 0

BatchInv == InsertsLand /\ IdleHoldsNoBatch

(* Nothing is being flushed at first.                                      *)
LEMMA BatcherInitBatch ==
    ASSUME BatcherInit
    PROVE  BatchInv
BY DEF BatcherInit, BatchInv, InsertsLand, IdleHoldsNoBatch, NoCopies

(* Every step of an instance keeps what is known of its batch.             *)
LEMMA BatcherStepBatch ==
    ASSUME BatcherTypeOK, BatchInv, NEW i \in Instances, BatcherStep(i)
    PROVE  BatchInv'
<1> USE DEF BatcherTypeOK, BatchInv, InsertsLand, IdleHoldsNoBatch, mongoVars
<1>1. CASE \E p \in Packets : Add(i, p)
  BY <1>1 DEF Add
<1>2. CASE \E v \in Vehicles : ApplyUpsert(i, v)
  BY <1>2 DEF ApplyUpsert
<1>3. CASE \E p \in Packets : InsertDocument(i, p)
  <2> PICK p \in Packets : InsertDocument(i, p)
    BY <1>3
  <2>1. /\ history'[p] > 0
        /\ \A q \in Packets : history[q] > 0 => history'[q] > 0
        /\ \A j \in Instances, q \in Packets : q # p => docs'[j][q] = docs[j][q]
    BY DEF InsertDocument
  <2> QED
    BY <2>1 DEF InsertDocument
<1>4. CASE FlushBegin(i)
  BY <1>4 DEF FlushBegin
<1>5. CASE BulkWriteDone(i)
  BY <1>5 DEF BulkWriteDone
<1>6. CASE InsertManyDone(i)
  BY <1>6 DEF InsertManyDone, NoCopies
<1>7. CASE TakeBack(i)
  BY <1>7 DEF TakeBack, NoCopies
<1>8. CASE ForgetMemory(i)
  BY <1>8 DEF ForgetMemory, NoCopies
<1> QED
  BY <1>1, <1>2, <1>3, <1>4, <1>5, <1>6, <1>7, <1>8
  DEF BatcherStep, FlushingStep, FlushFail, BulkWriteRejected

(* Until the process ends, a packet that is in memory stays there or has   *)
(* its history document: adding, swapping, inserting, returning and taking *)
(* back drop none.                                                         *)
LEMMA NoneDropped ==
    ASSUME BatcherTypeOK, BatchInv, NEW i \in Instances,
           (\E p \in Packets : Add(i, p)) \/ FlushingStep(i)
    PROVE  \A p \in Packets :
              /\ history[p] > 0 => history'[p] > 0
              /\ \A j \in Instances :
                    InMemory(j, p) > 0 => InMemory(j, p)' > 0 \/ history'[p] > 0
<1> USE DEF BatcherTypeOK, BatchInv, InMemory, mongoVars
<1>1. CASE \E p \in Packets : Add(i, p)
  BY <1>1 DEF Add
<1>2. CASE \E v \in Vehicles : ApplyUpsert(i, v)
  BY <1>2 DEF ApplyUpsert
<1>3. CASE \E p \in Packets : InsertDocument(i, p)
  BY <1>3 DEF InsertDocument
<1>4. CASE FlushBegin(i)
  BY <1>4 DEF FlushBegin, CanFlush, IdleHoldsNoBatch, NoCopies
<1>5. CASE BulkWriteDone(i)
  BY <1>5 DEF BulkWriteDone
<1>6. CASE InsertManyDone(i)
  BY <1>6 DEF InsertManyDone, InsertsLand, NoCopies
<1>7. CASE TakeBack(i)
  BY <1>7 DEF TakeBack, NoCopies
<1> QED
  BY <1>1, <1>2, <1>3, <1>4, <1>5, <1>6, <1>7 DEF FlushingStep, FlushFail, BulkWriteRejected

\* Only packets of S are anywhere in memory or in the collections
OnlyOf(S) ==
    /\ \A i \in Instances, p \in Packets : historyBuffer[i][p] > 0 \/ historyBatch[i][p] > 0 => p \in S
    /\ \A i \in Instances, v \in Vehicles : {buffer[i][v], batch[i][v]} \subseteq S \union {NoPacket}
    /\ \A v \in Vehicles : current[v] \in S \union {NoPacket}
    /\ \A p \in Packets : history[p] > 0 => p \in S

(* The batcher makes no packets up: it writes what was added, under the    *)
(* vehicle it was added for.                                               *)
LEMMA NothingInvented ==
    ASSUME BatcherAssumption, BatcherTypeOK, BatcherInv, NEW S, OnlyOf(S), NEW i \in Instances,
           (\E p \in S \intersect Packets : Add(i, p)) \/ FlushingStep(i) \/ ForgetMemory(i)
    PROVE  OnlyOf(S)'
<1> USE DEF BatcherTypeOK, OnlyOf, mongoVars
<1>1. CASE \E p \in S \intersect Packets : Add(i, p)
  BY <1>1 DEF BatcherAssumption, Add, Buffered
<1>2. CASE \E v \in Vehicles : ApplyUpsert(i, v)
  BY <1>2 DEF ApplyUpsert, Upserted
<1>3. CASE \E p \in Packets : InsertDocument(i, p)
  <2> PICK p \in Packets : InsertDocument(i, p)
    BY <1>3
  <2>1. historyBatch[i][p] > 0
    BY DEF InsertDocument, BatcherInv, WorkFromBatch
  <2> QED
    BY <2>1 DEF InsertDocument
<1>4. CASE FlushBegin(i)
  BY <1>4 DEF FlushBegin, NoneHeld, NoCopies
<1>5. CASE BulkWriteDone(i)
  BY <1>5 DEF BulkWriteDone
<1>6. CASE InsertManyDone(i)
  BY <1>6 DEF InsertManyDone, NoneHeld, NoCopies
<1>7. CASE TakeBack(i)
  BY <1>7 DEF TakeBack, Restored, NoneHeld, NoCopies
<1>8. CASE ForgetMemory(i)
  BY <1>8 DEF ForgetMemory, NoneHeld, NoCopies
<1> QED
  BY <1>1, <1>2, <1>3, <1>4, <1>5, <1>6, <1>7, <1>8 DEF FlushingStep, FlushFail, BulkWriteRejected
-----------------------------------------------------------------------------
(* The current documents.                                                  *)

\* Buffers keep a packet under its own vehicle
OwnSlots == \A i \in Instances, v \in Vehicles :
    /\ buffer[i][v] # NoPacket => VehicleOf[buffer[i][v]] = v
    /\ batch[i][v] # NoPacket => VehicleOf[batch[i][v]] = v

(* Every step of an instance keeps packets under their vehicles.           *)
LEMMA OwnSlotsStep ==
    ASSUME BatcherAssumption, BatcherTypeOK, OwnSlots, NEW i \in Instances, BatcherStep(i)
    PROVE  OwnSlots'
<1> USE DEF BatcherTypeOK, OwnSlots, mongoVars
<1>1. CASE \E p \in Packets : Add(i, p)
  BY <1>1 DEF BatcherAssumption, Add, Buffered
<1>2. CASE \E v \in Vehicles : ApplyUpsert(i, v)
  BY <1>2 DEF ApplyUpsert
<1>3. CASE \E p \in Packets : InsertDocument(i, p)
  BY <1>3 DEF InsertDocument
<1>4. CASE FlushBegin(i)
  BY <1>4 DEF FlushBegin, NoneHeld
<1>5. CASE BulkWriteDone(i)
  BY <1>5 DEF BulkWriteDone
<1>6. CASE InsertManyDone(i)
  BY <1>6 DEF InsertManyDone, NoneHeld
<1>7. CASE TakeBack(i)
  BY <1>7 DEF TakeBack, Restored, NoneHeld
<1>8. CASE ForgetMemory(i)
  BY <1>8 DEF ForgetMemory, NoneHeld
<1> QED
  BY <1>1, <1>2, <1>3, <1>4, <1>5, <1>6, <1>7, <1>8
  DEF BatcherStep, FlushingStep, FlushFail, BulkWriteRejected

(* Only an applied upsert changes a current document, and it leaves the    *)
(* document alone or puts one at least as new in its place.                *)
LEMMA CurrentStep ==
    ASSUME BatcherAssumption, BatcherTypeOK, BatcherInv, NEW i \in Instances, BatcherStep(i)
    PROVE  \/ current' = current
           \/ \E v \in Vehicles :
                 /\ batch[i][v] \in Packets
                 /\ current[v] = NoPacket \/ AtLeast(batch[i][v], current[v])
                 /\ current' = [current EXCEPT ![v] = batch[i][v]]
                 /\ history' = history
<1>1. CASE \E v \in Vehicles : ApplyUpsert(i, v)
  <2> PICK v \in Vehicles : ApplyUpsert(i, v)
    BY <1>1
  <2>1. batch[i][v] \in Packets
    BY DEF ApplyUpsert, BatcherInv, WorkFromBatch, BatcherTypeOK
  <2>2. current' = [current EXCEPT ![v] = Upserted(current[v], batch[i][v])] /\ history' = history
    BY DEF ApplyUpsert
  <2>3. current[v] \in Packets \union {NoPacket}
    BY DEF BatcherTypeOK
  <2>4. CASE Newer(current[v], batch[i][v])
    BY <2>2, <2>4 DEF Upserted, BatcherTypeOK
  <2>5. CASE ~Newer(current[v], batch[i][v])
    <3>1. current[v] = NoPacket \/ AtLeast(batch[i][v], current[v])
      BY <2>1, <2>3, <2>5 DEF Newer, AtLeast, BatcherAssumption
    <3>2. current' = [current EXCEPT ![v] = batch[i][v]]
      BY <2>2, <2>5 DEF Upserted
    <3> QED
      BY <2>1, <2>2, <3>1, <3>2
  <2> QED
    BY <2>4, <2>5
<1>2. CASE ~\E v \in Vehicles : ApplyUpsert(i, v)
  BY <1>2 DEF BatcherStep, FlushingStep, Add, InsertDocument, FlushBegin, BulkWriteDone,
              InsertManyDone, FlushFail, BulkWriteRejected, TakeBack, ForgetMemory, mongoVars
<1> QED
  BY <1>1, <1>2
=============================================================================
