---------------------------- MODULE IndexerProofs ----------------------------
(***************************************************************************)
(* The indexer uses its store as any client may: every statement of its    *)
(* goroutines, with the arguments they compute and in whatever order they, *)
(* the relayer, failures and crashes come, is a step of StoreSpec.  What   *)
(* BridgeDBProofs proves of the store is thus proved of the indexer.       *)
(*                                                                         *)
(* The arguments are well-typed because the goroutines' locals are, so the *)
(* invariant says at which label which local holds an id.                  *)
(***************************************************************************)
EXTENDS IndexerProperties, BridgeDBProofs

(* The labels at which a goroutine has a row in hand, has found a transfer,  *)
(* or is about to write a cursor.                                            *)
QueueLocalsOK ==
  /\ queueTask.pc \in {"find", "insert"} => queueTask.id \in Id
  /\ queueTask.pc = "insert" => queueTask.existing = 0
  /\ queueTask.pc = "cursor" => queueTask.lastID \in Id

DoneLocalsOK ==
  /\ doneTask.pc \in {"find", "apply"} =>
       doneTask.id \in Id /\ doneTask.jobs \subseteq Jobs(doneTask.id)
  /\ doneTask.pc = "apply" => doneTask.found \in Id

FailedLocalsOK ==
  /\ failedTask.pc \in {"direct", "trace", "ancestor", "find", "promise"} =>
       failedTask.id \in Id
  /\ failedTask.pc \in {"ancestor", "promise"} => failedTask.found \in Id
  /\ failedTask.pc = "cursor" => failedTask.lastID \in Id

TypeInv ==
  /\ TypeOK
  /\ QueueLocalsOK /\ DoneLocalsOK /\ FailedLocalsOK

-----------------------------------------------------------------------------
(* The relayer *)

(* Whatever the relayer writes, and whatever the indexer listens to, its     *)
(* tables, clock and channels stay well-typed.                               *)
LEMMA InsertIntoTyped ==
  ASSUME RelayerTypeOK, NEW table \in DOMAIN triggers, NEW i \in Id, InsertInto(table, i)
  PROVE  RelayerTypeOK'
<1>1. table \in {"queue", "done", "failed"} /\ table \in Places
  BY DEF triggers, Places
<1>2. place' \in [Id -> Places]
  BY <1>1 DEF InsertInto, RelayerTypeOK
<1>3. at' \in [Id -> [DOMAIN triggers -> 0..MaxTime]]
  BY <1>1 DEF InsertInto, RelayerTypeOK
<1>4. pending' \in [NotifyChannels -> Seq(Id)]
  BY DEF InsertInto, RelayerTypeOK
<1> QED
  BY <1>2, <1>3, <1>4 DEF InsertInto, RelayerTypeOK

LEMMA RelayerStepTyped ==
  ASSUME RelayerTypeOK, RelayerStep
  PROVE  RelayerTypeOK'
<1>1. "queue" \in DOMAIN triggers /\ "done" \in DOMAIN triggers /\ "failed" \in DOMAIN triggers
  BY DEF triggers
<1>2. CASE \E i \in Id : Enqueue(i) \/ Complete(i) \/ Fail(i)
  BY <1>1, <1>2, InsertIntoTyped DEF Enqueue, Complete, Fail
<1>3. CASE Tick
  BY <1>3, RelayerAssumption DEF Tick, RelayerTypeOK
<1> QED
  BY <1>2, <1>3 DEF RelayerStep

LEMMA ListeningTyped ==
  ASSUME RelayerTypeOK, NEW c \in NotifyChannels, Listen(c) \/ Receive(c)
  PROVE  RelayerTypeOK'
<1>1. CASE Listen(c)
  BY <1>1 DEF Listen, RelayerTypeOK
<1>2. CASE Receive(c)
  <2>1. pending[c] \in Seq(Id) /\ pending[c] # <<>>
    BY <1>2 DEF Receive, RelayerTypeOK
  <2>2. Tail(pending[c]) \in Seq(Id)
    BY <2>1
  <2> QED
    BY <1>2, <2>2 DEF Receive, RelayerTypeOK
<1> QED
  BY <1>1, <1>2

LEMMA ReceivedId ==
  ASSUME RelayerTypeOK, NEW c \in NotifyChannels, Receive(c)
  PROVE  Received(c) \in Id
BY DEF RelayerTypeOK, Receive, Received

LEMMA UnlistenTyped ==
  ASSUME RelayerTypeOK, NEW cs \in SUBSET NotifyChannels, Unlisten(cs)
  PROVE  RelayerTypeOK'
BY DEF Unlisten, RelayerTypeOK

(* The budget is only spent. *)
LEMMA FaultsTyped ==
  ASSUME FaultsTypeOK, NoFault \/ \E k \in FaultKinds : Fault(k)
  PROVE  FaultsTypeOK'
BY DEF FaultsTypeOK, NoFault, Fault

(* Finders return ids of rows, or 0. *)
LEMMA FindersType ==
  ASSUME StoreTypeOK
  PROVE  /\ \A h : FindByPacketHash(h) \subseteq Id \cup {0}
         /\ \A t, c : FindByTimeoutAndChannel(t, c) \subseteq Id \cup {0}
         /\ \A S : FindAncestor(S) \subseteq Id \cup {0}
         /\ \A h : ExistingFor(h) \subseteq Id \cup {0}
BY DEF StoreTypeOK, FindByPacketHash, FindByTimeoutAndChannel, FindAncestor, ExistingFor, OrNone

-----------------------------------------------------------------------------
(* The store, called by the indexer *)

(* Each statement, with well-typed arguments, is a step of the store.        *)
LEMMA InsertIsStoreStep ==
  ASSUME StoreTypeOK, NEW id \in Id, NEW b \in Bridge, NEW t \in Time,
         InsertWrite(id, NewRow(b, t), 0), UNCHANGED cursors
  PROVE  StoreNext
<1>1. 0 \in Id \cup {0} /\ Detected \in Status /\ InsertWrites(0, Detected)
  BY DEF InsertWrites, Status
<1> QED
  BY <1>1 DEF WriteTransfers, StoreNext

LEMMA MarksAreStoreSteps ==
  ASSUME NEW id \in Id, NEW t \in Time, NEW m \in Message, NEW tx \in TxHash,
         NEW h \in Hash \cup {NoHash},
         MarkDone(id, t, tx) \/ MarkFailed(id, m, tx) \/ SetTxIn(h, tx),
         UNCHANGED cursors
  PROVE  StoreNext
BY DEF WriteTransfers, StoreNext

LEMMA SetCursorIsStoreStep ==
  ASSUME NEW n \in CursorNames, NEW id \in Id, SetCursor(n, id), UNCHANGED transfers
  PROVE  StoreNext
BY DEF StoreNext

LEMMA StoreIdle ==
  ASSUME UNCHANGED storeVars
  PROVE  [StoreNext]_storeVars
OBVIOUS

-----------------------------------------------------------------------------
(* listenQueue and syncQueue *)

LEMMA QueueAtTyped ==
  ASSUME NEW label \in QueueLabels
  PROVE  QueueAt(label) \in QueueTasks
BY DEF QueueAt, QueueTasks

(* After a row, whatever became of it, the goroutine is at a label without a *)
(* row in hand.                                                              *)
LEMMA QueueRowOver ==
  ASSUME queueTask \in QueueTasks, QueueRowDone \/ QueueRowFailed
  PROVE  queueTask' \in QueueTasks /\ QueueLocalsOK'
<1>1. ASSUME NEW label \in {"wait", "connect"}, queueTask' = QueueAt(label)
      PROVE  queueTask' \in QueueTasks /\ QueueLocalsOK'
  BY <1>1 DEF QueueAt, QueueTasks, QueueLabels, QueueLocalsOK
<1>2. CASE queueTask' = [queueTask EXCEPT !.pc = "rows", !.lastID = queueTask.id,
                                          !.id = 0, !.existing = 0]
  BY <1>2 DEF QueueTasks, QueueLabels, QueueLocalsOK
<1> QED
  BY <1>1, <1>2 DEF QueueRowDone, QueueRowFailed, QueueGoto

LEMMA QueueBridgeType ==
  ASSUME NEW i \in Id
  PROVE  QueueBridge(i) \subseteq Bridge
BY ParseType, RelayerAssumption DEF QueueBridge

(* Every step of the goroutine keeps its locals well-typed ... *)
LEMMA QueueStepTyped ==
  ASSUME TypeInv, QueueStep
  PROVE  queueTask' \in QueueTasks /\ QueueLocalsOK'
<1> USE DEF TypeInv, TypeOK
<1>1. CASE QueueConnect \/ QueueLost
  BY <1>1, QueueAtTyped
  DEF QueueConnect, QueueLost, QueueGoto, QueueAt, QueueLabels, QueueLocalsOK
<1>2. CASE QueueNotify
  <2>1. Received("queue_insert") \in Id
    BY <1>2, ReceivedId DEF QueueNotify, NotifyChannels, triggers
  <2> QED
    BY <1>2, <2>1 DEF QueueNotify, QueueAt, QueueTasks, QueueLabels, QueueLocalsOK
<1>3. CASE QueueFind
  <2>1. QueueRowDone \/ QueueRowFailed
        \/ queueTask' = [queueTask EXCEPT !.pc = "insert", !.existing = 0]
    <3>1. ASSUME NEW b, NEW e \in ExistingFor(b.packet_hash),
                 e = 0 \/ Outranks(Detected, transfers[e].status)
          PROVE  e = 0
      BY <3>1, DetectedOutranksNothing
    <3> QED
      BY <1>3, <3>1 DEF QueueFind
  <2>2. queueTask.id \in Id
    BY <1>3 DEF QueueFind, QueueLocalsOK
  <2> QED
    BY <2>1, <2>2, QueueRowOver DEF QueueTasks, QueueLabels, QueueLocalsOK
<1>4. CASE QueueInsert
  BY <1>4, QueueRowOver DEF QueueInsert
<1>5. CASE QueueSync
  <2>1. ASSUME NEW batch \in SUBSET Id,
               queueTask' = [QueueAt("rows") EXCEPT !.via = "sync", !.rows = batch]
        PROVE  queueTask' \in QueueTasks /\ QueueLocalsOK'
    BY <2>1 DEF QueueAt, QueueTasks, QueueLabels, QueueLocalsOK
  <2>2. BatchAfter("queue", GetCursor("queue")) \subseteq Id
    BY DEF BatchAfter, InTable
  <2>3. CASE QueueGoto("connect")
    BY <2>3 DEF QueueGoto, QueueAt, QueueTasks, QueueLabels, QueueLocalsOK
  <2> QED
    BY <1>5, <2>1, <2>2, <2>3 DEF QueueSync
<1>6. CASE QueueRow
  <2>1. ASSUME NEW i \in Id, queueTask' = [queueTask EXCEPT !.rows = @ \ {i}, !.lastID = i]
        PROVE  queueTask' \in QueueTasks /\ QueueLocalsOK'
    BY <1>6, <2>1 DEF QueueRow, QueueTasks, QueueLabels, QueueLocalsOK
  <2>2. ASSUME NEW i \in Id,
               queueTask' = [queueTask EXCEPT !.rows = @ \ {i}, !.pc = "find", !.id = i]
        PROVE  queueTask' \in QueueTasks /\ QueueLocalsOK'
    BY <2>2 DEF QueueTasks, QueueLabels, QueueLocalsOK
  <2>3. CASE /\ queueTask.lastID > 0
             /\ queueTask' = [QueueAt("cursor") EXCEPT !.lastID = queueTask.lastID]
    <3>1. queueTask.lastID \in Id
      BY <2>3 DEF QueueTasks
    <3> QED
      BY <2>3, <3>1 DEF QueueAt, QueueTasks, QueueLabels, QueueLocalsOK
  <2>4. CASE QueueGoto("connect")
    BY <2>4 DEF QueueGoto, QueueAt, QueueTasks, QueueLabels, QueueLocalsOK
  <2> QED
    BY <1>6, <2>1, <2>2, <2>3, <2>4 DEF QueueRow
<1>7. CASE QueueSetCursor
  BY <1>7, QueueAtTyped
  DEF QueueSetCursor, QueueGoto, QueueAt, QueueLabels, QueueLocalsOK
<1> QED
  BY <1>1, <1>2, <1>3, <1>4, <1>5, <1>6, <1>7 DEF QueueStep

(* ... and calls the store with what they hold. *)
LEMMA QueueStepCalls ==
  ASSUME TypeInv, QueueStep
  PROVE  [StoreNext]_storeVars /\ RelayerTypeOK' /\ FaultsTypeOK'
<1> USE DEF TypeInv, TypeOK
<1>1. [StoreNext]_storeVars
  <2>1. CASE QueueInsert
    <3>1. queueTask.id \in Id /\ queueTask.existing = 0
      BY <2>1 DEF QueueInsert, QueueLocalsOK
    <3>2. at[queueTask.id].queue \in Time
      BY <3>1, RelayerAssumption DEF RelayerTypeOK, triggers
    <3> QED
      BY <2>1, <3>1, <3>2, QueueBridgeType, InsertIsStoreStep DEF QueueInsert, storeVars
  <2>2. CASE QueueSetCursor
    <3>1. queueTask.lastID \in Id
      BY <2>2 DEF QueueSetCursor, QueueLocalsOK
    <3> QED
      BY <2>2, <3>1, SetCursorIsStoreStep DEF QueueSetCursor, CursorNames, storeVars
  <2> QED
    BY <2>1, <2>2 DEF QueueStep, QueueConnect, QueueLost, QueueNotify, QueueFind, QueueSync, QueueRow
<1>2. RelayerTypeOK'
  <2>1. CASE QueueConnect \/ QueueNotify
    BY <2>1, ListeningTyped
    DEF QueueConnect, QueueNotify, NotifyChannels, triggers, relayerVars, RelayerTypeOK
  <2>2. CASE UNCHANGED relayerVars
    BY <2>2 DEF relayerVars, RelayerTypeOK
  <2> QED
    BY <2>1, <2>2 DEF QueueStep, QueueLost, QueueFind, QueueInsert, QueueSync, QueueRow, QueueSetCursor
<1>3. FaultsTypeOK'
  BY FaultsTyped DEF FaultKinds, NoFault, QueueStep, QueueConnect, QueueLost, QueueNotify, QueueFind,
     QueueInsert, QueueSync, QueueRow, QueueSetCursor
<1> QED
  BY <1>1, <1>2, <1>3

-----------------------------------------------------------------------------
(* listenDone and syncDone *)

(* A job's fields are those of an ack or of a timeout, and well-typed. *)
LEMMA JobType ==
  ASSUME NEW i \in Id, NEW k \in Jobs(i), NEW job \in JobFields(i, k)
  PROVE  /\ FieldsOK(job)
         /\ job.event_type \in {"packet_recv", "write_ack", "packet_timeout"}
<1>1. Item[i] \in Items
  BY RelayerAssumption
<1>2. CASE k = 0
  BY <1>1, <1>2, ItemFieldsType DEF JobFields, AckFields
<1>3. CASE k # 0
  <2>1. k \in ParsePacketTimeouts(Item[i]) /\ job = TimeoutFields(Item[i].entries[k])
    BY <1>3 DEF Jobs, JobFields
  <2>2. /\ Item[i].entries[k].timeout \in Timeout
        /\ Item[i].entries[k].channel \in Channel
    BY <1>1, <2>1, TimeoutEntryType
  <2>3. NoTx \in TxHash
    BY DEF TxHash
  <2> QED
    BY <2>1, <2>2, <2>3 DEF TimeoutFields, FieldsOK
<1> QED
  BY <1>2, <1>3

LEMMA JobsAreNumbers ==
  ASSUME NEW i \in Id
  PROVE  Jobs(i) \subseteq Nat
BY RelayerAssumption, TimeoutEntryType DEF Jobs

LEMMA DoneJobType ==
  ASSUME doneTask.id \in Id, doneTask.jobs \subseteq Jobs(doneTask.id), NEW job \in DoneJob
  PROVE  /\ FieldsOK(job)
         /\ job.event_type \in {"packet_recv", "write_ack", "packet_timeout"}
BY JobType DEF DoneJob, IsNext

LEMMA DoneGotoTyped ==
  ASSUME NEW label \in {"sync", "connect", "wait"}, DoneGoto(label)
  PROVE  doneTask' \in DoneTasks /\ DoneLocalsOK'
BY DEF DoneGoto, DoneAt, DoneTasks, DoneLabels, DoneLocalsOK

(* The goroutine goes on with jobs of the row in hand only. *)
LEMMA DoneProceedTyped ==
  ASSUME doneTask \in DoneTasks, NEW i \in Id, NEW jobs \in SUBSET Jobs(i),
         DoneProceed(i, jobs)
  PROVE  doneTask' \in DoneTasks /\ DoneLocalsOK'
<1>1. CASE doneTask' = [doneTask EXCEPT !.pc = "find", !.id = i, !.jobs = jobs,
                                        !.found = 0, !.rows = @ \ {i}]
  BY <1>1, JobsAreNumbers DEF DoneTasks, DoneLabels, DoneLocalsOK
<1>2. CASE doneTask' = [doneTask EXCEPT !.pc = "rows", !.id = 0, !.jobs = {}, !.found = 0,
                                        !.rows = @ \ {i}]
  BY <1>2 DEF DoneTasks, DoneLabels, DoneLocalsOK
<1>3. CASE doneTask' = DoneAt("wait")
  BY <1>3, DoneGotoTyped DEF DoneGoto
<1> QED
  BY <1>1, <1>2, <1>3 DEF DoneProceed

LEMMA DoneNextJobTyped ==
  ASSUME doneTask \in DoneTasks, doneTask.id \in Id,
         doneTask.jobs \subseteq Jobs(doneTask.id), DoneNextJob
  PROVE  doneTask' \in DoneTasks /\ DoneLocalsOK'
BY DoneProceedTyped DEF DoneNextJob

LEMMA DoneStepTyped ==
  ASSUME TypeInv, DoneStep
  PROVE  doneTask' \in DoneTasks /\ DoneLocalsOK'
<1> USE DEF TypeInv, TypeOK
<1>1. CASE DoneConnect \/ DoneLost
  BY <1>1, DoneGotoTyped DEF DoneConnect, DoneLost
<1>2. CASE DoneNotify
  <2>1. Received("done_insert") \in Id
    BY <1>2, ReceivedId DEF DoneNotify, NotifyChannels, triggers
  <2>2. CASE UNCHANGED doneTask
    BY <2>2 DEF DoneLocalsOK
  <2> QED
    BY <1>2, <2>1, <2>2, DoneProceedTyped DEF DoneNotify
<1>3. CASE DoneFind
  <2>1. doneTask.id \in Id /\ doneTask.jobs \subseteq Jobs(doneTask.id)
    BY <1>3 DEF DoneFind, DoneLocalsOK
  <2>2. CASE DoneNextJob
    BY <2>1, <2>2, DoneNextJobTyped
  <2>3. ASSUME NEW job \in DoneJob, NEW i \in FindFor(job), i # 0,
               doneTask' = [doneTask EXCEPT !.pc = "apply", !.found = i]
        PROVE  doneTask' \in DoneTasks /\ DoneLocalsOK'
    <3>1. i \in Id
      BY <2>3, FindersType DEF FindFor
    <3> QED
      BY <2>1, <2>3, <3>1 DEF DoneTasks, DoneLabels, DoneLocalsOK
  <2> QED
    BY <1>3, <2>2, <2>3 DEF DoneFind
<1>4. CASE DoneApply
  BY <1>4, DoneNextJobTyped DEF DoneApply, DoneLocalsOK
<1>5. CASE DoneSync
  <2>1. CASE /\ GetInFlightCreatedAt # {}
             /\ doneTask' = [DoneAt("scan") EXCEPT
                  !.via = "sync", !.since = Min(GetInFlightCreatedAt) - Grace]
    <3>1. GetInFlightCreatedAt \subseteq Nat
      BY RelayerAssumption DEF GetInFlightCreatedAt, StoreTypeOK, Row
    <3>2. Min(GetInFlightCreatedAt) \in Nat
      BY <2>1, <3>1, MinOfNaturals
    <3> DEFINE since == Min(GetInFlightCreatedAt) - Grace
    <3>3. since \in Int
      BY <3>2, DoneAssumption
    <3> HIDE DEF since
    <3>4. doneTask' = [DoneAt("scan") EXCEPT !.via = "sync", !.since = since]
      BY <2>1 DEF since
    <3> QED
      BY <3>3, <3>4 DEF DoneAt, DoneTasks, DoneLabels, DoneLocalsOK
  <2> QED
    BY <1>5, <2>1, DoneGotoTyped DEF DoneSync
<1>6. CASE DoneScan
  <2>1. ASSUME NEW rows \in SUBSET Id,
               doneTask' = [doneTask EXCEPT !.pc = "rows", !.since = 0, !.rows = rows]
        PROVE  doneTask' \in DoneTasks /\ DoneLocalsOK'
    <3>1. doneTask' = [pc |-> "rows", via |-> doneTask.via, id |-> doneTask.id,
                       jobs |-> doneTask.jobs, found |-> doneTask.found,
                       rows |-> rows, since |-> 0]
      BY <2>1 DEF DoneTasks
    <3> QED
      BY <3>1 DEF DoneTasks, DoneLabels, DoneLocalsOK
  <2>2. InTable("done") \subseteq Id
    BY DEF InTable
  <2> QED
    <3> DEFINE rows == {i \in InTable("done") : /\ PassesScan(Item[i])
                                                /\ at[i].done >= doneTask.since}
    <3>1. rows \in SUBSET Id
      BY <2>2
    <3>2. CASE doneTask' = [doneTask EXCEPT !.pc = "rows", !.since = 0, !.rows = rows]
      <4> HIDE DEF rows
      <4> QED
        BY <2>1, <3>1, <3>2
    <3>3. CASE DoneGoto("connect")
      BY <3>3, DoneGotoTyped
    <3> QED
      BY <1>6, <3>2, <3>3 DEF DoneScan
<1>7. CASE DoneRow
  <2>1. doneTask.rows \subseteq Id
    BY DEF DoneTasks
  <2> QED
    BY <1>7, <2>1, DoneProceedTyped, DoneGotoTyped DEF DoneRow
<1> QED
  BY <1>1, <1>2, <1>3, <1>4, <1>5, <1>6, <1>7 DEF DoneStep

LEMMA DoneStepCalls ==
  ASSUME TypeInv, DoneStep
  PROVE  [StoreNext]_storeVars /\ RelayerTypeOK' /\ FaultsTypeOK'
<1> USE DEF TypeInv, TypeOK
<1>1. [StoreNext]_storeVars
  <2>1. CASE DoneApply
    <3>1. /\ doneTask.id \in Id /\ doneTask.jobs \subseteq Jobs(doneTask.id)
          /\ doneTask.found \in Id
      BY <2>1 DEF DoneApply, DoneLocalsOK
    <3>2. at[doneTask.id].done \in Time
      BY <3>1, RelayerAssumption DEF RelayerTypeOK, triggers
    <3>3. TimedOut \in Message /\ AckError \in Message /\ NoTx \in TxHash
      BY DoneAssumption DEF TxHash
    <3>4. ASSUME NEW job \in DoneJob,
                 ApplyJob(job, doneTask.found, at[doneTask.id].done), UNCHANGED cursors
          PROVE  StoreNext
      <4>1. /\ job.hash \in Hash \cup {NoHash} /\ job.tx \in TxHash
            /\ job.ack_success \in BOOLEAN
            /\ job.event_type \in {"packet_recv", "write_ack", "packet_timeout"}
        BY <3>1, DoneJobType DEF FieldsOK
      <4>2. CASE job.event_type = "packet_recv"
        BY <3>1, <3>2, <3>3, <3>4, <4>1, <4>2, MarksAreStoreSteps DEF ApplyJob
      <4>3. CASE job.event_type = "write_ack" /\ job.ack_success
        BY <3>1, <3>2, <3>3, <3>4, <4>1, <4>3, MarksAreStoreSteps DEF ApplyJob
      <4>4. CASE job.event_type = "write_ack" /\ ~job.ack_success
        BY <3>1, <3>2, <3>3, <3>4, <4>1, <4>4, MarksAreStoreSteps DEF ApplyJob
      <4>5. CASE job.event_type = "packet_timeout"
        BY <3>1, <3>2, <3>3, <3>4, <4>1, <4>5, MarksAreStoreSteps DEF ApplyJob
      <4> QED
        BY <4>1, <4>2, <4>3, <4>4, <4>5
    <3> QED
      BY <2>1, <3>4 DEF DoneApply, storeVars
  <2>2. CASE UNCHANGED storeVars
    BY <2>2
  <2> QED
    BY <2>1, <2>2
    DEF DoneStep, DoneConnect, DoneLost, DoneNotify, DoneFind, DoneSync, DoneScan, DoneRow
<1>2. RelayerTypeOK'
  <2>1. CASE DoneConnect \/ DoneNotify
    BY <2>1, ListeningTyped
    DEF DoneConnect, DoneNotify, NotifyChannels, triggers, relayerVars, RelayerTypeOK
  <2>2. CASE UNCHANGED relayerVars
    BY <2>2 DEF relayerVars, RelayerTypeOK
  <2> QED
    BY <2>1, <2>2 DEF DoneStep, DoneLost, DoneFind, DoneApply, DoneSync, DoneScan, DoneRow
<1>3. FaultsTypeOK'
  BY FaultsTyped
  DEF FaultKinds, NoFault, DoneStep, DoneConnect, DoneLost, DoneNotify, DoneFind, DoneApply,
      DoneSync, DoneScan, DoneRow
<1> QED
  BY <1>1, <1>2, <1>3

-----------------------------------------------------------------------------
(* listenFailed and syncFailed *)

LEMMA FailedGotoTyped ==
  ASSUME NEW label \in {"sync", "connect", "wait"}, FailedGoto(label)
  PROVE  failedTask' \in FailedTasks /\ FailedLocalsOK'
BY DEF FailedGoto, FailedAt, FailedTasks, FailedLabels, FailedLocalsOK

LEMMA FailedNextRowTyped ==
  ASSUME failedTask \in FailedTasks, NEW lastID \in Id \cup {0}, FailedNextRow(lastID)
  PROVE  failedTask' \in FailedTasks /\ FailedLocalsOK'
<1>1. failedTask.rows \in SUBSET Id
  BY DEF FailedTasks
<1>2. failedTask' = [pc |-> "rows", via |-> "sync", id |-> 0, found |-> 0, level |-> {},
                     visited |-> {}, depth |-> 0, rows |-> failedTask.rows, lastID |-> lastID]
  BY DEF FailedNextRow, FailedAt
<1> QED
  BY <1>1, <1>2 DEF FailedTasks, FailedLabels, FailedLocalsOK

LEMMA FailedEndBatchTyped ==
  ASSUME failedTask \in FailedTasks, FailedEndBatch
  PROVE  failedTask' \in FailedTasks /\ FailedLocalsOK'
<1>1. CASE /\ failedTask.lastID > 0
           /\ failedTask' = [FailedAt("cursor") EXCEPT !.lastID = failedTask.lastID]
  <2>1. failedTask.lastID \in Id
    BY <1>1 DEF FailedTasks
  <2>2. failedTask' = [pc |-> "cursor", via |-> "notify", id |-> 0, found |-> 0,
                       level |-> {}, visited |-> {}, depth |-> 0, rows |-> {},
                       lastID |-> failedTask.lastID]
    BY <1>1 DEF FailedAt
  <2> QED
    BY <2>1, <2>2 DEF FailedTasks, FailedLabels, FailedLocalsOK
<1>2. CASE failedTask' = FailedAt("connect")
  BY <1>2, FailedGotoTyped DEF FailedGoto
<1> QED
  BY <1>1, <1>2 DEF FailedEndBatch

(* A step that moves on to another label with the row in hand. *)
LEMMA FailedWithRow ==
  ASSUME failedTask \in FailedTasks, failedTask.id \in Id,
         NEW label \in FailedLabels \ {"cursor"}, NEW found \in Id \cup {0},
         NEW level \in SUBSET Id, NEW visited \in SUBSET Id, NEW depth \in Nat,
         NEW lastID \in Id \cup {0},
         label \in {"ancestor", "promise"} => found \in Id,
         failedTask' = [pc |-> label, via |-> failedTask.via, id |-> failedTask.id,
                        found |-> found, level |-> level, visited |-> visited,
                        depth |-> depth, rows |-> failedTask.rows, lastID |-> lastID]
  PROVE  failedTask' \in FailedTasks /\ FailedLocalsOK'
<1>1. failedTask.via \in {"notify", "sync"} /\ failedTask.rows \in SUBSET Id
  BY DEF FailedTasks
<1> QED
  BY <1>1 DEF FailedTasks, FailedLocalsOK

LEMMA AfterDirectTyped ==
  ASSUME failedTask \in FailedTasks, failedTask.id \in Id, NEW matched, AfterDirect(matched)
  PROVE  failedTask' \in FailedTasks /\ FailedLocalsOK'
<1>1. CASE FailedNextRow(failedTask.id)
  BY <1>1, FailedNextRowTyped
<1>2. CASE failedTask' = [failedTask EXCEPT !.pc = "trace", !.lastID = failedTask.id,
                                            !.level = Parents[failedTask.id]]
  <2>1. failedTask' = [pc |-> "trace", via |-> failedTask.via, id |-> failedTask.id,
                       found |-> failedTask.found, level |-> Parents[failedTask.id],
                       visited |-> failedTask.visited, depth |-> failedTask.depth,
                       rows |-> failedTask.rows, lastID |-> failedTask.id]
    BY <1>2 DEF FailedTasks
  <2>2. /\ failedTask.found \in Id \cup {0} /\ failedTask.visited \in SUBSET Id
        /\ failedTask.depth \in Nat
    BY DEF FailedTasks
  <2>3. Parents[failedTask.id] \in SUBSET Id
    BY RelayerAssumption
  <2> QED
    BY <2>1, <2>2, <2>3, FailedWithRow DEF FailedLabels
<1>3. CASE failedTask' = [failedTask EXCEPT !.pc = "find"]
  <2>1. failedTask' = [pc |-> "find", via |-> failedTask.via, id |-> failedTask.id,
                       found |-> failedTask.found, level |-> failedTask.level,
                       visited |-> failedTask.visited, depth |-> failedTask.depth,
                       rows |-> failedTask.rows, lastID |-> failedTask.lastID]
    BY <1>3 DEF FailedTasks
  <2>2. /\ failedTask.found \in Id \cup {0} /\ failedTask.visited \in SUBSET Id
        /\ failedTask.depth \in Nat /\ failedTask.level \in SUBSET Id
        /\ failedTask.lastID \in Id \cup {0}
    BY DEF FailedTasks
  <2> QED
    BY <2>1, <2>2, FailedWithRow DEF FailedLabels
<1>4. CASE FailedGoto("wait")
  BY <1>4, FailedGotoTyped
<1> QED
  BY <1>1, <1>2, <1>3, <1>4 DEF AfterDirect

LEMMA ClimbTyped ==
  ASSUME failedTask \in FailedTasks, failedTask.id \in Id, failedTask.pc = "trace",
         NEW skipped, Climb(skipped)
  PROVE  failedTask' \in FailedTasks /\ FailedLocalsOK'
<1> DEFINE up == UNION {Parents[p] : p \in
                   {q \in failedTask.level \ (failedTask.visited \cup skipped) :
                      place[q] = "done"}}
<1>1. /\ failedTask.level \in SUBSET Id /\ failedTask.visited \in SUBSET Id
      /\ failedTask.depth \in Nat /\ failedTask.found \in Id \cup {0}
      /\ failedTask.lastID \in Id \cup {0}
  BY DEF FailedTasks
<1>2. up \in SUBSET Id
  BY <1>1, RelayerAssumption
<1>3. failedTask' = [failedTask EXCEPT !.depth = @ + 1, !.visited = @ \cup failedTask.level,
                                       !.level = up]
  BY DEF Climb
<1> HIDE DEF up
<1>4. failedTask' = [pc |-> "trace", via |-> failedTask.via, id |-> failedTask.id,
                     found |-> failedTask.found, level |-> up,
                     visited |-> failedTask.visited \cup failedTask.level,
                     depth |-> failedTask.depth + 1,
                     rows |-> failedTask.rows, lastID |-> failedTask.lastID]
  BY <1>3 DEF FailedTasks
<1>5. /\ failedTask.visited \cup failedTask.level \in SUBSET Id
      /\ failedTask.depth + 1 \in Nat
  BY <1>1
<1>6. "trace" \in FailedLabels \ {"cursor"} /\ "trace" \notin {"ancestor", "promise"}
  BY DEF FailedLabels
<1> QED
  BY ONLY <1>1, <1>2, <1>4, <1>5, <1>6, FailedWithRow, failedTask \in FailedTasks,
          failedTask.id \in Id, ZenonT(30)

LEMMA FailedTraceTyped ==
  ASSUME TypeInv, FailedTrace
  PROVE  failedTask' \in FailedTasks /\ FailedLocalsOK'
<1> USE DEF TypeInv, TypeOK
<1>1. failedTask.id \in Id /\ failedTask.pc = "trace"
  BY DEF FailedTrace, FailedLocalsOK
<1>2. failedTask.lastID \in Id \cup {0} /\ failedTask.rows \in SUBSET Id
  BY DEF FailedTasks
<1>3. CASE FailedNextRow(failedTask.lastID)
  BY <1>2, <1>3, FailedNextRowTyped
<1>4. CASE \E skipped : Climb(skipped)
  BY <1>1, <1>4, ClimbTyped
<1>5. ASSUME NEW i \in FindAncestor(failedTask.level), i # 0,
             failedTask' = [failedTask EXCEPT !.pc = "ancestor", !.found = i, !.level = {},
                                              !.visited = {}, !.depth = 0]
      PROVE  failedTask' \in FailedTasks /\ FailedLocalsOK'
  <2>1. i \in Id
    BY <1>5, FindersType
  <2>2. failedTask' = [pc |-> "ancestor", via |-> failedTask.via, id |-> failedTask.id,
                       found |-> i, level |-> {}, visited |-> {}, depth |-> 0,
                       rows |-> failedTask.rows, lastID |-> failedTask.lastID]
    BY <1>5 DEF FailedTasks
  <2> QED
    BY <1>1, <1>2, <2>1, <2>2, FailedWithRow DEF FailedLabels
<1> QED
  BY <1>3, <1>4, <1>5 DEF FailedTrace

LEMMA FailedStepTyped ==
  ASSUME TypeInv, FailedStep
  PROVE  failedTask' \in FailedTasks /\ FailedLocalsOK'
<1> USE DEF TypeInv, TypeOK
<1>1. CASE FailedConnect \/ FailedLost \/ FailedPromise \/ FailedSetCursor
  BY <1>1, FailedGotoTyped DEF FailedConnect, FailedLost, FailedPromise, FailedSetCursor
<1>2. CASE FailedNotify
  <2>1. Received("failed_insert") \in Id
    BY <1>2, ReceivedId DEF FailedNotify, NotifyChannels, triggers
  <2>2. ASSUME NEW i \in Id, failedTask' = [FailedAt("direct") EXCEPT !.id = i]
        PROVE  failedTask' \in FailedTasks /\ FailedLocalsOK'
    BY <2>2 DEF FailedAt, FailedTasks, FailedLabels, FailedLocalsOK
  <2>3. CASE UNCHANGED failedTask
    BY <2>3 DEF FailedLocalsOK
  <2> QED
    BY <1>2, <2>1, <2>2, <2>3 DEF FailedNotify
<1>3. CASE FailedDirect
  <2>1. failedTask.id \in Id
    BY <1>3 DEF FailedDirect, FailedLocalsOK
  <2> QED
    BY <1>3, <2>1, AfterDirectTyped, FailedEndBatchTyped, FailedGotoTyped DEF FailedDirect
<1>4. CASE FailedFind
  <2>1. failedTask.id \in Id
    BY <1>4 DEF FailedFind, FailedLocalsOK
  <2>2. ASSUME NEW t, NEW c, NEW i \in FindByTimeoutAndChannel(t, c), i # 0,
               failedTask' = [failedTask EXCEPT !.pc = "promise", !.found = i]
        PROVE  failedTask' \in FailedTasks /\ FailedLocalsOK'
    <3>1. i \in Id
      BY <2>2, FindersType
    <3>2. failedTask' = [pc |-> "promise", via |-> failedTask.via, id |-> failedTask.id,
                         found |-> i, level |-> failedTask.level,
                         visited |-> failedTask.visited, depth |-> failedTask.depth,
                         rows |-> failedTask.rows, lastID |-> failedTask.lastID]
      BY <2>2 DEF FailedTasks
    <3>3. /\ failedTask.level \in SUBSET Id /\ failedTask.visited \in SUBSET Id
          /\ failedTask.depth \in Nat /\ failedTask.lastID \in Id \cup {0}
      BY DEF FailedTasks
    <3> QED
      BY <2>1, <3>1, <3>2, <3>3, FailedWithRow DEF FailedLabels
  <2> QED
    BY <1>4, <2>2, FailedGotoTyped DEF FailedFind
<1>5. CASE FailedTrace
  BY <1>5, FailedTraceTyped
<1>6. CASE FailedAncestor
  <2>1. failedTask.lastID \in Id \cup {0}
    BY DEF FailedTasks
  <2> QED
    BY <1>6, <2>1, FailedNextRowTyped DEF FailedAncestor
<1>7. CASE FailedSync
  <2>1. ASSUME NEW batch \in SUBSET Id,
               failedTask' = [FailedAt("rows") EXCEPT !.via = "sync", !.rows = batch]
        PROVE  failedTask' \in FailedTasks /\ FailedLocalsOK'
    BY <2>1 DEF FailedAt, FailedTasks, FailedLabels, FailedLocalsOK
  <2>2. BatchAfter("failed", GetCursor("failed")) \subseteq Id
    BY DEF BatchAfter, InTable
  <2> QED
    BY <1>7, <2>1, <2>2, FailedGotoTyped DEF FailedSync
<1>8. CASE FailedRow
  <2>1. ASSUME NEW i \in Id,
               failedTask' = [failedTask EXCEPT !.pc = "direct", !.id = i, !.rows = @ \ {i}]
        PROVE  failedTask' \in FailedTasks /\ FailedLocalsOK'
    <3>1. failedTask' = [pc |-> "direct", via |-> failedTask.via, id |-> i,
                         found |-> failedTask.found, level |-> failedTask.level,
                         visited |-> failedTask.visited, depth |-> failedTask.depth,
                         rows |-> failedTask.rows \ {i}, lastID |-> failedTask.lastID]
      BY <2>1 DEF FailedTasks
    <3>2. failedTask.rows \ {i} \in SUBSET Id
      BY DEF FailedTasks
    <3> QED
      BY <3>1, <3>2 DEF FailedTasks, FailedLabels, FailedLocalsOK
  <2> QED
    BY <1>8, <2>1, FailedEndBatchTyped, FailedGotoTyped DEF FailedRow
<1> QED
  BY <1>1, <1>2, <1>3, <1>4, <1>5, <1>6, <1>7, <1>8 DEF FailedStep

LEMMA FailedStepCalls ==
  ASSUME TypeInv, FailedStep
  PROVE  [StoreNext]_storeVars /\ RelayerTypeOK' /\ FaultsTypeOK'
<1> USE DEF TypeInv, TypeOK
<1>1. NoTx \in TxHash /\ \A i \in Id : MessageOf(i) \in Message
  BY FailedAssumption DEF TxHash
<1>2. ASSUME NEW id \in Id, NEW row \in Id, NEW tx \in TxHash,
             MarkFailed(id, MessageOf(row), tx) \/ UNCHANGED transfers, UNCHANGED cursors
      PROVE  [StoreNext]_storeVars
  BY <1>1, <1>2 DEF StoreNext, WriteTransfers, storeVars
<1>3. [StoreNext]_storeVars
  <2>1. CASE FailedDirect
    BY <1>1, <1>2, <2>1 DEF FailedDirect, FailedLocalsOK
  <2>2. CASE FailedAncestor
    BY <1>1, <1>2, <2>2 DEF FailedAncestor, FailedLocalsOK
  <2>3. CASE FailedPromise
    <3>1. failedTask.id \in Id /\ failedTask.found \in Id
      BY <2>3 DEF FailedPromise, FailedLocalsOK
    <3>2. \A f \in ParseItemFields(Item[failedTask.id]) : f.tx \in TxHash
      BY <3>1, RelayerAssumption, ItemFieldsType DEF FieldsOK
    <3> QED
      BY <1>2, <2>3, <3>1, <3>2 DEF FailedPromise
  <2>4. CASE FailedSetCursor
    BY <2>4, SetCursorIsStoreStep DEF FailedSetCursor, FailedLocalsOK, CursorNames, storeVars
  <2>5. CASE UNCHANGED storeVars
    BY <2>5
  <2> QED
    BY <2>1, <2>2, <2>3, <2>4, <2>5
    DEF FailedStep, FailedConnect, FailedLost, FailedNotify, FailedFind, FailedTrace,
        FailedSync, FailedRow
<1>4. RelayerTypeOK'
  <2>1. CASE FailedConnect \/ FailedNotify
    BY <2>1, ListeningTyped
    DEF FailedConnect, FailedNotify, NotifyChannels, triggers, relayerVars, RelayerTypeOK
  <2>2. CASE UNCHANGED relayerVars
    BY <2>2 DEF relayerVars, RelayerTypeOK
  <2> QED
    BY <2>1, <2>2
    DEF FailedStep, FailedLost, FailedDirect, FailedFind, FailedPromise, FailedTrace,
        FailedAncestor, FailedSync, FailedRow, FailedSetCursor
<1>5. FaultsTypeOK'
  BY FaultsTyped
  DEF FaultKinds, NoFault, FailedStep, FailedConnect, FailedLost, FailedNotify, FailedDirect,
      FailedFind, FailedPromise, FailedTrace, FailedAncestor, FailedSync, FailedRow,
      FailedSetCursor
<1> QED
  BY <1>3, <1>4, <1>5

-----------------------------------------------------------------------------
(* Run and poll *)

(* The ids poll marks are rows'. *)
LEMMA MainStepTyped ==
  ASSUME TypeInv, MainStep
  PROVE  /\ mainTask' \in MainTasks
         /\ queueTask' \in QueueTasks /\ QueueLocalsOK'
         /\ doneTask' \in DoneTasks /\ DoneLocalsOK'
         /\ failedTask' \in FailedTasks /\ FailedLocalsOK'
<1> USE DEF TypeInv, TypeOK
<1>1. mainTask' \in MainTasks
  <2>1. GetDetectedIDs \subseteq Id /\ mainTask.ids \subseteq Id
    BY DEF GetDetectedIDs, StoreTypeOK, MainTasks
  <2>2. ASSUME NEW label \in BootLabels \cup PollLabels, NEW ids \in SUBSET Id,
               mainTask' = [pc |-> label, ids |-> ids]
        PROVE  mainTask' \in MainTasks
    BY <2>2 DEF MainTasks
  <2>3. ASSUME NEW label \in BootLabels \cup PollLabels, MainGoto(label)
        PROVE  mainTask' \in MainTasks
    BY <2>2, <2>3 DEF MainGoto
  <2>4. CASE PollDetected
    BY <2>1, <2>2, <2>3, <2>4 DEF PollDetected, PollLabels
  <2>5. CASE PollQueue
    BY <2>1, <2>2, <2>3, <2>5 DEF PollQueue, PollLabels
  <2>6. CASE Dedupe \/ BootDone \/ BootFailed \/ StartListeners \/ PollMark
    BY <2>3, <2>6
    DEF Dedupe, BootDone, BootFailed, StartListeners, PollMark, BootLabels, PollLabels
  <2> QED
    BY <2>4, <2>5, <2>6 DEF MainStep
<1>2. queueTask' \in QueueTasks /\ QueueLocalsOK'
  <2>1. CASE QueueGoto("sync")
    BY <2>1 DEF QueueGoto, QueueAt, QueueTasks, QueueLabels, QueueLocalsOK
  <2>2. CASE UNCHANGED queueTask
    BY <2>2 DEF QueueLocalsOK
  <2> QED
    BY <2>1, <2>2
    DEF MainStep, Dedupe, BootDone, BootFailed, StartListeners, PollDetected, PollQueue, PollMark
<1>3. doneTask' \in DoneTasks /\ DoneLocalsOK'
  <2>1. CASE UNCHANGED doneTask
    BY <2>1 DEF DoneLocalsOK
  <2> QED
    BY <2>1, DoneGotoTyped
    DEF MainStep, Dedupe, BootDone, BootFailed, StartListeners, PollDetected, PollQueue, PollMark
<1>4. failedTask' \in FailedTasks /\ FailedLocalsOK'
  <2>1. CASE UNCHANGED failedTask
    BY <2>1 DEF FailedLocalsOK
  <2> QED
    BY <2>1, FailedGotoTyped
    DEF MainStep, Dedupe, BootDone, BootFailed, StartListeners, PollDetected, PollQueue, PollMark
<1> QED
  BY <1>1, <1>2, <1>3, <1>4

LEMMA MainStepCalls ==
  ASSUME TypeInv, MainStep
  PROVE  [StoreNext]_storeVars /\ RelayerTypeOK' /\ FaultsTypeOK'
<1> USE DEF TypeInv, TypeOK
<1>1. [StoreNext]_storeVars
  <2>1. CASE Dedupe
    BY <2>1 DEF Dedupe, StoreNext, WriteTransfers, storeVars
  <2>2. CASE PollMark
    <3>1. mainTask.ids \in SUBSET Id
      BY DEF MainTasks
    <3> QED
      BY <2>2, <3>1 DEF PollMark, StoreNext, WriteTransfers, storeVars
  <2>3. CASE UNCHANGED storeVars
    BY <2>3
  <2> QED
    BY <2>1, <2>2, <2>3
    DEF MainStep, BootDone, BootFailed, StartListeners, PollDetected, PollQueue
<1>2. UNCHANGED relayerVars
  BY DEF MainStep, Dedupe, BootDone, BootFailed, StartListeners, PollDetected, PollQueue, PollMark
<1>3. FaultsTypeOK'
  BY FaultsTyped
  DEF FaultKinds, NoFault, MainStep, Dedupe, BootDone, BootFailed, StartListeners,
      PollDetected, PollQueue, PollMark
<1> QED
  BY <1>1, <1>2, <1>3 DEF relayerVars, RelayerTypeOK

-----------------------------------------------------------------------------
(* The system *)

(* Every step of the system is a step of the store or leaves it alone, and   *)
(* keeps the rest of the state well-typed.                                   *)
LEMMA SystemStep ==
  ASSUME TypeInv, [Next]_vars
  PROVE  TypeInv' /\ [StoreNext]_storeVars
<1>1. StoreTypeOK /\ RelayerTypeOK /\ FaultsTypeOK /\ TypeOK
  BY DEF TypeInv, TypeOK
<1>2. SUFFICES /\ [StoreNext]_storeVars
               /\ RelayerTypeOK' /\ FaultsTypeOK'
               /\ mainTask' \in MainTasks
               /\ queueTask' \in QueueTasks /\ QueueLocalsOK'
               /\ doneTask' \in DoneTasks /\ DoneLocalsOK'
               /\ failedTask' \in FailedTasks /\ FailedLocalsOK'
  BY <1>1, StoreStepTyped DEF TypeInv, TypeOK
<1> USE DEF TypeInv, TypeOK
<1>3. CASE MainStep
  BY <1>3, MainStepTyped, MainStepCalls
<1>4. CASE QueueTurn
  BY <1>4, QueueStepTyped, QueueStepCalls DEF QueueTurn, DoneLocalsOK, FailedLocalsOK
<1>5. CASE DoneTurn
  BY <1>5, DoneStepTyped, DoneStepCalls DEF DoneTurn, QueueLocalsOK, FailedLocalsOK
<1>6. CASE FailedTurn
  BY <1>6, FailedStepTyped, FailedStepCalls DEF FailedTurn, QueueLocalsOK, DoneLocalsOK
<1>7. CASE RelayerTurn
  BY <1>7, RelayerStepTyped
  DEF RelayerTurn, storeVars, tasks, FaultsTypeOK, QueueLocalsOK, DoneLocalsOK, FailedLocalsOK
<1>8. CASE ConnectionLost
  <2>1. RelayerTypeOK'
    BY <1>8, UnlistenTyped DEF ConnectionLost, RelayerTypeOK
  <2> QED
    BY <1>8, <2>1, FaultsTyped
    DEF ConnectionLost, storeVars, tasks, FaultKinds, QueueLocalsOK, DoneLocalsOK, FailedLocalsOK
<1>9. CASE Crash
  <2>1. RelayerTypeOK' /\ FaultsTypeOK'
    BY <1>9, UnlistenTyped, FaultsTyped DEF Crash, FaultKinds
  <2>2. mainTask' \in MainTasks
    BY <1>9 DEF Crash, MainGoto, MainTasks, BootLabels
  <2>3. queueTask' \in QueueTasks /\ QueueLocalsOK'
    BY <1>9 DEF Crash, QueueGoto, QueueAt, QueueTasks, QueueLabels, QueueLocalsOK
  <2>4. doneTask' \in DoneTasks /\ DoneLocalsOK'
    BY <1>9 DEF Crash, DoneGoto, DoneAt, DoneTasks, DoneLabels, DoneLocalsOK
  <2>5. failedTask' \in FailedTasks /\ FailedLocalsOK'
    BY <1>9 DEF Crash, FailedGoto, FailedAt, FailedTasks, FailedLabels, FailedLocalsOK
  <2> QED
    BY <1>9, <2>1, <2>2, <2>3, <2>4, <2>5 DEF Crash
<1>10. CASE UNCHANGED vars
  BY <1>10
  DEF vars, storeVars, relayerVars, tasks, RelayerTypeOK, FaultsTypeOK,
      QueueLocalsOK, DoneLocalsOK, FailedLocalsOK
<1> QED
  BY <1>3, <1>4, <1>5, <1>6, <1>7, <1>8, <1>9, <1>10 DEF Next

LEMMA SystemInit ==
  ASSUME Init
  PROVE  TypeInv
<1>1. StoreTypeOK
  BY StoreAssumption DEF Init, StoreInit, StoreTypeOK
<1>2. RelayerTypeOK
  <2>1. 0 \in 0..MaxTime /\ Place0 \in [Id -> Places] /\ <<>> \in Seq(Id)
    BY RelayerAssumption
  <2> QED
    BY <2>1 DEF Init, RelayerInit, RelayerTypeOK
<1>3. FaultsTypeOK /\ mainTask \in MainTasks
  BY BudgetAssumption DEF Init, FaultsInit, FaultsTypeOK, MainTasks, BootLabels
<1>4. queueTask \in QueueTasks /\ QueueLocalsOK
  BY DEF Init, QueueAt, QueueTasks, QueueLabels, QueueLocalsOK
<1>5. doneTask \in DoneTasks /\ DoneLocalsOK
  BY DEF Init, DoneAt, DoneTasks, DoneLabels, DoneLocalsOK
<1>6. failedTask \in FailedTasks /\ FailedLocalsOK
  BY DEF Init, FailedAt, FailedTasks, FailedLabels, FailedLocalsOK
<1> QED
  BY <1>1, <1>2, <1>3, <1>4, <1>5, <1>6 DEF TypeInv, TypeOK

(* The locals of every goroutine, the tables, cursors, channels and clock    *)
(* keep their types; in particular no statement is given the id 0.           *)
THEOREM TypeCorrect == Spec => []TypeOK
<1>1. Init => TypeInv
  BY SystemInit
<1>2. TypeInv /\ [Next]_vars => TypeInv'
  BY SystemStep
<1>3. TypeInv => TypeOK
  BY DEF TypeInv
<1> QED
  BY <1>1, <1>2, <1>3, PTL DEF Spec

(* The indexer is a client of the store: whatever its goroutines do, to its  *)
(* tables only the statements of BridgeDB happen, with the arguments they    *)
(* are typed for.                                                            *)
THEOREM IndexerUsesStore == Spec => StoreSpec
<1>1. Init => TypeInv /\ StoreInit
  BY SystemInit DEF Init
<1>2. TypeInv /\ [Next]_vars => TypeInv' /\ [StoreNext]_storeVars
  BY SystemStep
<1> QED
  BY <1>1, <1>2, PTL DEF Spec, StoreSpec

(* The four goroutines, errors and crashes together keep what the store      *)
(* promises: columns agree with statuses (bridge.go:163-202), ...            *)
THEOREM IndexerColumnsAgree == Spec => []ColumnsAgree
BY IndexerUsesStore, ColumnsAlwaysAgree, PTL

(* ... a settled transfer is never touched again, although find and update   *)
(* are two statements (bridge.go:161-162, 191-192), ...                      *)
THEOREM IndexerTerminalIsFinal == Spec => TerminalIsFinal
BY IndexerUsesStore, TerminalRowsAreFinal, PTL

(* ... the first receive transaction on record stays (bridge.go:178-181), ...*)
THEOREM IndexerTxInWriteOnce == Spec => TxInWriteOnce
BY IndexerUsesStore, TxInIsWrittenOnce, PTL

(* ... and no packet disappears or gets a worse status, through any number   *)
(* of restarts and their deduplication (bridge.go:124-149).                  *)
THEOREM IndexerOutcomeSurvives == Spec => OutcomeSurvives
BY IndexerUsesStore, OutcomesSurvive, PTL

=============================================================================
