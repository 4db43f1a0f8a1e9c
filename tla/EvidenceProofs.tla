--------------------------- MODULE EvidenceProofs ---------------------------
(***************************************************************************)
(* A status is the answer of the relayer's tables.  Every goroutine reads  *)
(* them in one statement and writes the transfer in a later one, so the    *)
(* invariants need what it still knows in between: that an id it carries   *)
(* has been in queue, has left it, or is done, and that the transfer it    *)
(* found is the packet's.  It still does because the relayer's rows only   *)
(* move forward and a transfer keeps its packet.                           *)
(***************************************************************************)
EXTENDS IndexerProofs

(* Rows come from queue rows, read or about to be inserted. *)
RowsBorn == \A i \in DOMAIN transfers : place[i] # "unborn"

QueueKnows ==
  /\ queueTask.pc = "insert" => place[queueTask.id] # "unborn"
  /\ queueTask.pc = "find" => place[queueTask.id] # "unborn"
  /\ \A i \in queueTask.rows : place[i] # "unborn"

(* The ids poll carries have been in queue; before the update, have left it. *)
PollKnows ==
  /\ mainTask.pc = "pollQueue" => \A i \in mainTask.ids : place[i] # "unborn"
  /\ mainTask.pc = "pollMark" => \A i \in mainTask.ids : place[i] \in {"done", "failed"}

(* The done row in hand, those of the scan, and those announced, are done. *)
DoneKnows ==
  /\ doneTask.pc \in {"find", "apply"} => place[doneTask.id] = "done"
  /\ \A i \in doneTask.rows : place[i] = "done"
  /\ \A k \in DOMAIN pending["done_insert"] : place[pending["done_insert"][k]] = "done"

(* The transfer found for an acknowledgement is its packet's, the one found  *)
(* for a timeout has its key.                                                *)
DoneHasFound ==
  doneTask.pc = "apply" =>
    /\ doneTask.found \in DOMAIN transfers
    /\ \A job \in DoneJob :
         /\ job.event_type = "write_ack" => HashOf(doneTask.found) = job.hash
         /\ job.event_type = "packet_timeout" =>
              KeyMatches(doneTask.found, job.timeout, job.channel)

(* Deduplication runs before any goroutine has found a row. *)
DedupeAlone ==
  mainTask.pc = "dedupe" =>
    queueTask.pc = "off" /\ doneTask.pc = "off" /\ failedTask.pc = "off"

-----------------------------------------------------------------------------
(* The relayer's rows only move forward *)

MovesForward ==
  \A i \in Id :
    /\ place[i] # "unborn" => place'[i] # "unborn"
    /\ place[i] \in {"done", "failed"} => place'[i] = place[i]
    /\ place[i] = "done" => at'[i].done = at[i].done

LEMMA RelayerMoves ==
  ASSUME RelayerTypeOK, RelayerStep
  PROVE  MovesForward
<1>1. ASSUME NEW i \in Id, Enqueue(i) \/ Complete(i) \/ Fail(i)
      PROVE  MovesForward
  <2>1. PICK table \in {"queue", "done", "failed"} :
          /\ place' = [place EXCEPT ![i] = table]
          /\ at' = [at EXCEPT ![i][table] = now]
    BY <1>1 DEF Enqueue, Complete, Fail, InsertInto
  <2>2. place[i] \in {"unborn", "queue"}
    BY <1>1 DEF Enqueue, Complete, Fail
  <2> QED
    BY <2>1, <2>2 DEF RelayerTypeOK, MovesForward
<1>2. CASE Tick
  BY <1>2 DEF Tick, MovesForward
<1> QED
  BY <1>1, <1>2 DEF RelayerStep

(* Nothing the indexer does moves them. *)
LEMMA IndexerReadsOnly ==
  ASSUME TypeInv,
         MainStep \/ QueueTurn \/ DoneTurn \/ FailedTurn \/ ConnectionLost \/ Crash
           \/ UNCHANGED vars
  PROVE  UNCHANGED <<place, at>>
<1>1. CASE MainStep
  BY <1>1 DEF MainStep, Dedupe, BootDone, BootFailed, StartListeners, PollDetected, PollQueue,
              PollMark, relayerVars
<1>2. CASE QueueTurn
  BY <1>2 DEF QueueTurn, QueueStep, QueueConnect, QueueLost, QueueNotify, QueueFind, QueueInsert,
              QueueSync, QueueRow, QueueSetCursor, Listen, Receive, relayerVars
<1>3. CASE DoneTurn
  BY <1>3 DEF DoneTurn, DoneStep, DoneConnect, DoneLost, DoneNotify, DoneFind, DoneApply,
              DoneSync, DoneScan, DoneRow, Listen, Receive, relayerVars
<1>4. CASE FailedTurn
  BY <1>4 DEF FailedTurn, FailedStep, FailedConnect, FailedLost, FailedNotify, FailedDirect,
              FailedFind, FailedPromise, FailedTrace, FailedAncestor, FailedSync, FailedRow,
              FailedSetCursor, Listen, Receive, relayerVars
<1>5. CASE ConnectionLost \/ Crash
  BY <1>5 DEF ConnectionLost, Crash, Unlisten
<1>6. CASE UNCHANGED vars
  BY <1>6 DEF vars, relayerVars
<1> QED
  BY <1>1, <1>2, <1>3, <1>4, <1>5, <1>6

LEMMA TablesMoveForward ==
  ASSUME TypeInv, [Next]_vars
  PROVE  MovesForward
<1>1. RelayerTypeOK
  BY DEF TypeInv, TypeOK
<1>2. CASE RelayerTurn
  BY <1>1, <1>2, RelayerMoves DEF RelayerTurn
<1>3. CASE UNCHANGED <<place, at>>
  BY <1>3 DEF MovesForward
<1> QED
  BY <1>2, <1>3, IndexerReadsOnly DEF Next

-----------------------------------------------------------------------------
(* What may happen to a row *)

Kept(i) ==
  /\ transfers'[i].status = transfers[i].status
  /\ transfers'[i].done_at = transfers[i].done_at

MarkedByPoll(i) ==
  /\ mainTask.pc = "pollMark" /\ i \in mainTask.ids
  /\ transfers'[i].status = Processing

DoneByAck(i) ==
  /\ doneTask.pc = "apply" /\ i = doneTask.found
  /\ \E job \in DoneJob : job.event_type = "write_ack" /\ job.ack_success
  /\ transfers'[i].status = Done
  /\ transfers'[i].done_at = at[doneTask.id].done

FailedSomehow(i) == transfers'[i].status = Failed

RowChange(i) ==
  /\ i \in DOMAIN transfers
  /\ transfers'[i].bridge = transfers[i].bridge
  /\ Kept(i) \/ MarkedByPoll(i) \/ DoneByAck(i) \/ FailedSomehow(i)

(* The only row that may appear is the queue worker's. *)
Inserted(i) ==
  /\ i \notin DOMAIN transfers
  /\ queueTask.pc = "insert" /\ queueTask'.pc # "insert" /\ i = queueTask.id
  /\ transfers'[i].status = Detected
  /\ \E b \in QueueBridge(i) : transfers'[i].bridge = b

RowChanges ==
  /\ \A i \in DOMAIN transfers' : RowChange(i) \/ Inserted(i)
  /\ mainTask.pc # "dedupe" => DOMAIN transfers \subseteq DOMAIN transfers'

LEMMA NoRowChange ==
  ASSUME UNCHANGED transfers
  PROVE  RowChanges
BY DEF RowChanges, RowChange, Kept, HashOf

LEMMA MainRowChanges ==
  ASSUME TypeInv, MainStep
  PROVE  RowChanges
<1>1. StoreTypeOK
  BY DEF TypeInv, TypeOK
<1>2. CASE Dedupe /\ DedupeByPacketHash
  BY <1>2 DEF Dedupe, DedupeByPacketHash, RowChanges, RowChange, Kept, HashOf
<1>3. CASE PollMark /\ MarkProcessing(mainTask.ids)
  <2> SUFFICES ASSUME NEW i \in DOMAIN transfers PROVE RowChange(i)
    BY <1>3 DEF MarkProcessing, RowChanges
  <2>1. transfers[i] \in Row
    BY <1>1 DEF StoreTypeOK
  <2>2. CASE i \in mainTask.ids /\ transfers[i].status = Detected
    <3>1. transfers'[i] = [transfers[i] EXCEPT !.status = Processing]
      BY <1>3, <2>2 DEF MarkProcessing
    <3> QED
      BY <1>3, <2>1, <2>2, <3>1 DEF PollMark, RowChange, MarkedByPoll, HashOf, Row
  <2>3. CASE ~(i \in mainTask.ids /\ transfers[i].status = Detected)
    BY <1>3, <2>3 DEF MarkProcessing, RowChange, Kept, HashOf
  <2> QED
    BY <2>2, <2>3
<1>4. CASE UNCHANGED transfers
  BY <1>4, NoRowChange
<1> QED
  BY <1>2, <1>3, <1>4
  DEF MainStep, Dedupe, BootDone, BootFailed, StartListeners, PollDetected, PollQueue, PollMark,
      storeVars

LEMMA QueueRowChanges ==
  ASSUME TypeInv, QueueStep
  PROVE  RowChanges
<1>1. CASE UNCHANGED transfers
  BY <1>1, NoRowChange
<1>2. CASE QueueInsert /\ ~UNCHANGED transfers
  <2>1. queueTask.pc = "insert" /\ queueTask.existing = 0
    BY <1>2 DEF QueueInsert, TypeInv, QueueLocalsOK
  <2>2. PICK b \in QueueBridge(queueTask.id) :
          InsertRow(queueTask.id, NewRow(b, at[queueTask.id].queue))
    BY <1>2, <2>1 DEF QueueInsert, InsertWrite
  <2>3. queueTask'.pc # "insert"
    <3>1. queueTask \in QueueTasks
      BY DEF TypeInv, TypeOK
    <3>2. CASE QueueRowDone
      BY <3>1, <3>2 DEF QueueRowDone, QueueAt, QueueTasks
    <3>3. CASE QueueRowFailed
      BY <3>3 DEF QueueRowFailed, QueueGoto, QueueAt
    <3> QED
      BY <1>2, <3>2, <3>3 DEF QueueInsert
  <2>4. ASSUME NEW i \in DOMAIN transfers'
        PROVE  RowChange(i) \/ Inserted(i)
    BY <2>1, <2>2, <2>3 DEF InsertRow, NewRow, RowChange, Kept, Inserted, HashOf
  <2> QED
    BY <2>2, <2>4 DEF InsertRow, RowChanges
<1> QED
  BY <1>1, <1>2
  DEF QueueStep, QueueConnect, QueueLost, QueueNotify, QueueFind, QueueSync, QueueRow,
      QueueSetCursor, storeVars

(* MarkFailed only fails rows, whoever calls it. *)
LEMMA FailingRowChanges ==
  ASSUME StoreTypeOK, NEW id, NEW m, NEW tx, MarkFailed(id, m, tx)
  PROVE  RowChanges
<1> SUFFICES ASSUME NEW i \in DOMAIN transfers PROVE RowChange(i)
  BY DEF MarkFailed, RowChanges
<1>1. transfers[i] \in Row
  BY DEF StoreTypeOK
<1>2. CASE i = id /\ InFlight(i)
  <2> DEFINE in == TxInOr(transfers[i].tx_in, tx)
  <2>1. transfers'[i] = [transfers[i] EXCEPT !.status = Failed, !.err_msg = m, !.tx_in = in]
    BY <1>2 DEF MarkFailed
  <2> HIDE DEF in
  <2> QED
    BY <1>1, <2>1 DEF RowChange, FailedSomehow, HashOf, Row
<1>3. CASE ~(i = id /\ InFlight(i))
  BY <1>3 DEF MarkFailed, RowChange, Kept, HashOf
<1> QED
  BY <1>2, <1>3

LEMMA DoneRowChanges ==
  ASSUME TypeInv, DoneStep
  PROVE  RowChanges
<1>1. StoreTypeOK
  BY DEF TypeInv, TypeOK
<1>2. CASE UNCHANGED transfers
  BY <1>2, NoRowChange
<1>3. ASSUME DoneApply, NEW job \in DoneJob,
             ApplyJob(job, doneTask.found, at[doneTask.id].done)
      PROVE  RowChanges
  <2>1. doneTask.pc = "apply"
    BY <1>3 DEF DoneApply
  <2>2. /\ job.ack_success \in BOOLEAN
        /\ job.event_type \in {"packet_recv", "write_ack", "packet_timeout"}
    BY <2>1, <1>3, DoneJobType DEF TypeInv, DoneLocalsOK, FieldsOK
  <2>3. CASE job.event_type = "packet_recv"
    <3>1. SetTxIn(job.hash, job.tx)
      BY <1>3, <2>3 DEF ApplyJob
    <3> SUFFICES ASSUME NEW i \in DOMAIN transfers PROVE RowChange(i)
      BY <3>1 DEF SetTxIn, RowChanges
    <3>2. transfers[i] \in Row
      BY <1>1 DEF StoreTypeOK
    <3>3. \/ transfers'[i] = [transfers[i] EXCEPT !.tx_in = job.tx]
          \/ transfers'[i] = transfers[i]
      BY <3>1 DEF SetTxIn
    <3> QED
      BY <3>2, <3>3 DEF RowChange, Kept, HashOf, Row
  <2>4. CASE job.event_type = "write_ack" /\ job.ack_success
    <3>1. MarkDone(doneTask.found, at[doneTask.id].done, job.tx)
      BY <1>3, <2>4 DEF ApplyJob
    <3> SUFFICES ASSUME NEW i \in DOMAIN transfers PROVE RowChange(i)
      BY <3>1 DEF MarkDone, RowChanges
    <3>2. transfers[i] \in Row
      BY <1>1 DEF StoreTypeOK
    <3>3. CASE i = doneTask.found /\ InFlight(i)
      <4> DEFINE in == TxInOr(transfers[i].tx_in, job.tx)
      <4>1. transfers'[i] = [transfers[i] EXCEPT !.status = Done,
                               !.done_at = at[doneTask.id].done, !.tx_in = in]
        BY <3>1, <3>3 DEF MarkDone
      <4> HIDE DEF in
      <4> QED
        BY <1>3, <2>1, <2>4, <3>2, <3>3, <4>1 DEF RowChange, DoneByAck, HashOf, Row
    <3>4. CASE ~(i = doneTask.found /\ InFlight(i))
      BY <3>1, <3>4 DEF MarkDone, RowChange, Kept, HashOf
    <3> QED
      BY <3>3, <3>4
  <2>5. CASE job.event_type = "write_ack" /\ ~job.ack_success
    BY <1>1, <1>3, <2>5, FailingRowChanges DEF ApplyJob
  <2>6. CASE job.event_type = "packet_timeout"
    BY <1>1, <1>3, <2>6, FailingRowChanges DEF ApplyJob
  <2> QED
    BY <2>2, <2>3, <2>4, <2>5, <2>6
<1>4. CASE DoneApply
  BY <1>2, <1>3, <1>4 DEF DoneApply
<1> QED
  BY <1>2, <1>4
  DEF DoneStep, DoneConnect, DoneLost, DoneNotify, DoneFind, DoneSync, DoneScan, DoneRow, storeVars

LEMMA FailedRowChanges ==
  ASSUME TypeInv, FailedStep
  PROVE  RowChanges
<1>1. StoreTypeOK
  BY DEF TypeInv, TypeOK
<1>2. CASE UNCHANGED transfers
  BY <1>2, NoRowChange
<1>3. CASE \E id, m, tx : MarkFailed(id, m, tx)
  BY <1>1, <1>3, FailingRowChanges
<1> QED
  BY <1>2, <1>3
  DEF FailedStep, FailedConnect, FailedLost, FailedNotify, FailedDirect, FailedFind,
      FailedPromise, FailedTrace, FailedAncestor, FailedSync, FailedRow, FailedSetCursor, storeVars

(* Every step of the system changes rows in one of these ways. *)
LEMMA SystemRowChanges ==
  ASSUME TypeInv, [Next]_vars
  PROVE  RowChanges
<1>1. CASE UNCHANGED transfers
  BY <1>1, NoRowChange
<1> QED
  BY <1>1, MainRowChanges, QueueRowChanges, DoneRowChanges, FailedRowChanges
  DEF Next, QueueTurn, DoneTurn, FailedTurn, RelayerTurn, ConnectionLost, Crash, storeVars, vars

-----------------------------------------------------------------------------
(* What the goroutines know stays true *)

LEMMA RowsBornKept ==
  ASSUME TypeInv, [Next]_vars, RowsBorn, QueueKnows
  PROVE  RowsBorn'
<1>1. DOMAIN transfers \subseteq Id /\ (queueTask.pc = "insert" => queueTask.id \in Id)
  BY DEF TypeInv, TypeOK, StoreTypeOK, QueueLocalsOK
<1>2. MovesForward /\ RowChanges
  BY TablesMoveForward, SystemRowChanges
<1> QED
  BY <1>1, <1>2 DEF RowsBorn, QueueKnows, MovesForward, RowChanges, RowChange, Inserted

LEMMA QueueStepKnows ==
  ASSUME TypeInv, QueueStep, QueueKnows, UNCHANGED place
  PROVE  QueueKnows'
<1> USE DEF TypeInv, TypeOK
<1>1. CASE queueTask' = QueueAt("sync") \/ queueTask' = QueueAt("wait")
           \/ queueTask' = QueueAt("connect")
  BY <1>1 DEF QueueAt, QueueKnows
<1>2. CASE UNCHANGED queueTask
  BY <1>2 DEF QueueKnows
<1>3. CASE QueueRowDone \/ QueueRowFailed
  <2>1. CASE queueTask' = [queueTask EXCEPT !.pc = "rows", !.lastID = queueTask.id,
                                            !.id = 0, !.existing = 0]
    BY <2>1 DEF QueueTasks, QueueKnows
  <2> QED
    BY <1>1, <1>3, <2>1 DEF QueueRowDone, QueueRowFailed, QueueGoto
<1>4. CASE QueueConnect \/ QueueLost \/ QueueSetCursor
  BY <1>1, <1>4 DEF QueueConnect, QueueLost, QueueSetCursor, QueueGoto
<1>5. CASE QueueNotify
  <2>1. ASSUME NEW i, place[i] = "queue",
               queueTask' = [QueueAt("find") EXCEPT !.id = i]
        PROVE  QueueKnows'
    BY <2>1 DEF QueueAt, QueueKnows
  <2> QED
    BY <1>2, <1>5, <2>1 DEF QueueNotify
<1>6. CASE QueueFind
  <2>1. ASSUME NEW e, queueTask.pc = "find",
               queueTask' = [queueTask EXCEPT !.pc = "insert", !.existing = e]
        PROVE  QueueKnows'
    BY <2>1 DEF QueueTasks, QueueKnows
  <2> QED
    BY <1>3, <1>6, <2>1 DEF QueueFind
<1>7. CASE QueueInsert
  BY <1>3, <1>7 DEF QueueInsert
<1>8. CASE QueueSync
  <2>1. ASSUME NEW batch, \A i \in batch : place[i] = "queue",
               queueTask' = [QueueAt("rows") EXCEPT !.via = "sync", !.rows = batch]
        PROVE  QueueKnows'
    BY <2>1 DEF QueueAt, QueueKnows
  <2>2. \A i \in BatchAfter("queue", GetCursor("queue")) : place[i] = "queue"
    BY DEF BatchAfter, InTable
  <2> QED
    BY <1>1, <1>8, <2>1, <2>2 DEF QueueSync, QueueGoto
<1>9. CASE QueueRow
  <2>1. ASSUME NEW i, queueTask.pc = "rows",
               queueTask' = [queueTask EXCEPT !.rows = @ \ {i}, !.lastID = i]
        PROVE  QueueKnows'
    BY <2>1 DEF QueueTasks, QueueKnows
  <2>2. ASSUME NEW i, i \in queueTask.rows,
               queueTask' = [queueTask EXCEPT !.rows = @ \ {i}, !.pc = "find", !.id = i]
        PROVE  QueueKnows'
    BY <2>2 DEF QueueTasks, QueueKnows
  <2>3. CASE queueTask' = [QueueAt("cursor") EXCEPT !.lastID = queueTask.lastID]
    BY <2>3 DEF QueueAt, QueueKnows
  <2> QED
    BY <1>1, <1>9, <2>1, <2>2, <2>3 DEF QueueRow, QueueGoto, IsNext
<1> QED
  BY <1>4, <1>5, <1>6, <1>7, <1>8, <1>9 DEF QueueStep

LEMMA QueueKnowsKept ==
  ASSUME TypeInv, [Next]_vars, QueueKnows
  PROVE  QueueKnows'
<1>1. CASE QueueTurn
  BY <1>1, QueueStepKnows, IndexerReadsOnly DEF QueueTurn
<1>2. CASE QueueGoto("sync") \/ QueueGoto("off")
  BY <1>2 DEF QueueGoto, QueueAt, QueueKnows
<1>3. CASE UNCHANGED queueTask
  <2>1. queueTask.rows \subseteq Id /\ (queueTask.pc \in {"find", "insert"} => queueTask.id \in Id)
    BY DEF TypeInv, TypeOK, QueueTasks, QueueLocalsOK
  <2>2. MovesForward
    BY TablesMoveForward
  <2> QED
    BY <1>3, <2>1, <2>2 DEF MovesForward, QueueKnows
<1> QED
  BY <1>1, <1>2, <1>3
  DEF Next, MainStep, Dedupe, BootDone, BootFailed, StartListeners, PollDetected, PollQueue,
      PollMark, DoneTurn, FailedTurn, RelayerTurn, ConnectionLost, Crash, vars, tasks

LEMMA PollKnowsKept ==
  ASSUME TypeInv, [Next]_vars, RowsBorn, PollKnows
  PROVE  PollKnows'
<1>1. mainTask.ids \subseteq Id /\ DOMAIN transfers \subseteq Id /\ place \in [Id -> Places]
  BY DEF TypeInv, TypeOK, MainTasks, StoreTypeOK, RelayerTypeOK
<1>2. MovesForward
  BY TablesMoveForward
<1>3. CASE UNCHANGED mainTask
  BY <1>1, <1>2, <1>3 DEF MovesForward, PollKnows
<1>4. CASE \E label \in BootLabels \cup {"tick"} : MainGoto(label)
  BY <1>4 DEF MainGoto, BootLabels, PollKnows
<1>5. CASE PollDetected
  <2>1. CASE mainTask' = [pc |-> "pollQueue", ids |-> GetDetectedIDs]
    BY <1>1, <1>2, <2>1 DEF GetDetectedIDs, RowsBorn, MovesForward, PollKnows
  <2> QED
    BY <1>3, <1>4, <1>5, <2>1 DEF PollDetected
<1>6. CASE PollQueue
  <2> DEFINE gone == mainTask.ids \ InTable("queue")
  <2>1. \A i \in gone : place[i] \in {"done", "failed"}
    BY <1>1, <1>6 DEF PollQueue, PollKnows, InTable, Places
  <2>2. \A i \in gone : place'[i] \in {"done", "failed"}
    BY <1>1, <1>2, <2>1 DEF MovesForward
  <2>3. CASE mainTask' = [pc |-> "pollMark", ids |-> gone]
    <3> HIDE DEF gone
    <3> QED
      BY <2>2, <2>3 DEF PollKnows
  <2> QED
    BY <1>4, <1>6, <2>3 DEF PollQueue
<1> QED
  BY <1>3, <1>4, <1>5, <1>6
  DEF Next, MainStep, Dedupe, BootDone, BootFailed, StartListeners, PollMark, BootLabels,
      QueueTurn, DoneTurn, FailedTurn, RelayerTurn, ConnectionLost, Crash, vars, tasks

(* Deduplication is the first thing a process does, and the last time that   *)
(* rows go.                                                                  *)
LEMMA DedupeStaysAlone ==
  ASSUME TypeInv, [Next]_vars, DedupeAlone
  PROVE  DedupeAlone'
<1> USE DEF DedupeAlone
<1>1. CASE Crash
  BY <1>1 DEF Crash, QueueGoto, QueueAt, DoneGoto, DoneAt, FailedGoto, FailedAt
<1>2. CASE QueueTurn
  BY <1>2 DEF QueueTurn, QueueStep, QueueConnect, QueueLost, QueueNotify, QueueFind,
              QueueInsert, QueueSync, QueueRow, QueueSetCursor
<1>3. CASE DoneTurn
  BY <1>3 DEF DoneTurn, DoneStep, DoneConnect, DoneLost, DoneNotify, DoneFind, DoneApply,
              DoneSync, DoneScan, DoneRow
<1>4. CASE MainStep
  <2>1. mainTask'.pc # "dedupe"
    <3>1. CASE UNCHANGED mainTask /\ mainTask.pc = "tick"
      BY <3>1
    <3>2. CASE \E label \in (BootLabels \cup PollLabels) \ {"dedupe"} : \E ids :
                 mainTask' = [pc |-> label, ids |-> ids]
      BY <3>2
    <3> QED
      BY <1>4, <3>1, <3>2
      DEF MainStep, Dedupe, BootDone, BootFailed, StartListeners, PollDetected, PollQueue,
          PollMark, MainGoto, BootLabels, PollLabels
  <2> QED
    BY <2>1
<1>5. CASE FailedTurn
  BY <1>5 DEF FailedTurn, FailedStep, FailedConnect, FailedLost, FailedNotify, FailedDirect,
              FailedFind, FailedPromise, FailedTrace, FailedAncestor, FailedSync, FailedRow,
              FailedSetCursor
<1>6. CASE UNCHANGED <<mainTask, queueTask, doneTask, failedTask>>
  BY <1>6
<1> QED
  BY <1>1, <1>2, <1>3, <1>4, <1>5, <1>6
  DEF Next, RelayerTurn, ConnectionLost, vars, tasks

-----------------------------------------------------------------------------
(* The done worker *)

(* An item has one acknowledgement at most (parser.go:88-227). *)
LEMMA OneAck ==
  ASSUME NEW item \in Items, NEW f \in AckFields(item), NEW g \in AckFields(item)
  PROVE  f = g
<1>1. \A h \in PromiseFields(item) : h.event_type \notin {"packet_recv", "write_ack"}
  <2> SUFFICES ASSUME NEW k \in DOMAIN item.entries
               PROVE  item.entries[k].type \notin {"packet_recv", "write_ack"}
    BY DEF PromiseFields
  <2>1. item.entries \in Seq(Entry)
    BY DEF Items
  <2>2. item.entries[k] \in Entry
    BY <2>1
  <2> QED
    BY <2>2 DEF Entry
<1> QED
  BY <1>1 DEF AckFields, ParseItemFields

(* So the job in hand is one job, and an acknowledgement comes from the row. *)
LEMMA OneJob ==
  ASSUME doneTask.id \in Id, doneTask.jobs \subseteq Jobs(doneTask.id),
         NEW f \in DoneJob, NEW g \in DoneJob
  PROVE  f = g
<1>1. PICK k \in doneTask.jobs : f \in JobFields(doneTask.id, k) /\ IsNext(k, doneTask.jobs)
  BY DEF DoneJob
<1>2. PICK m \in doneTask.jobs : g \in JobFields(doneTask.id, m) /\ IsNext(m, doneTask.jobs)
  BY DEF DoneJob
<1>3. k = m
  <2>1. k <= m /\ m <= k /\ k \in Nat /\ m \in Nat
    BY <1>1, <1>2, JobsAreNumbers DEF IsNext
  <2> QED
    BY <2>1
<1>4. Item[doneTask.id] \in Items
  BY RelayerAssumption
<1> QED
  BY <1>1, <1>2, <1>3, <1>4, OneAck DEF JobFields

LEMMA AckOfJob ==
  ASSUME NEW job \in DoneJob, job.event_type \in {"packet_recv", "write_ack"}
  PROVE  job \in AckFields(Item[doneTask.id])
BY DEF DoneJob, JobFields, TimeoutFields

LEMMA DoneProceedKnows ==
  ASSUME doneTask \in DoneTasks, NEW i, NEW jobs, DoneProceed(i, jobs),
         place'[i] = "done", \A j \in doneTask.rows : place'[j] = "done"
  PROVE  /\ doneTask'.pc \in {"find", "apply"} => place'[doneTask'.id] = "done"
         /\ \A j \in doneTask'.rows : place'[j] = "done"
<1>1. CASE doneTask' = [doneTask EXCEPT !.pc = "find", !.id = i, !.jobs = jobs,
                                        !.found = 0, !.rows = @ \ {i}]
  BY <1>1 DEF DoneTasks
<1>2. CASE doneTask' = [doneTask EXCEPT !.pc = "rows", !.id = 0, !.jobs = {}, !.found = 0,
                                        !.rows = @ \ {i}]
  BY <1>2 DEF DoneTasks
<1>3. CASE doneTask' = DoneAt("wait")
  BY <1>3 DEF DoneAt
<1> QED
  BY <1>1, <1>2, <1>3 DEF DoneProceed

(* What the worker holds, without what was announced to it. *)
HoldsDone ==
  /\ doneTask.pc \in {"find", "apply"} => place[doneTask.id] = "done"
  /\ \A i \in doneTask.rows : place[i] = "done"

LEMMA DoneStepKnows ==
  ASSUME TypeInv, DoneStep, DoneKnows, UNCHANGED place
  PROVE  HoldsDone'
<1> USE DEF TypeInv, TypeOK
<1>1. ASSUME NEW label, label \notin {"find", "apply"}, DoneGoto(label)
      PROVE  HoldsDone'
  BY <1>1 DEF DoneGoto, DoneAt, HoldsDone
<1>2. CASE UNCHANGED doneTask
  BY <1>2 DEF HoldsDone, DoneKnows
<1>3. CASE DoneNextJob /\ doneTask.pc \in {"find", "apply"}
  BY <1>3, DoneProceedKnows DEF DoneNextJob, HoldsDone, DoneKnows
<1>4. CASE DoneConnect \/ DoneLost
  BY <1>1, <1>4 DEF DoneConnect, DoneLost
<1>5. CASE DoneNotify
  <2>1. pending["done_insert"] \in Seq(Id)
    BY DEF RelayerTypeOK, NotifyChannels, triggers
  <2>2. place[Received("done_insert")] = "done"
    <3>1. pending["done_insert"] # <<>>
      BY <1>5 DEF DoneNotify, Receive
    <3>2. 1 \in DOMAIN pending["done_insert"]
      BY <2>1, <3>1
    <3> QED
      BY <2>1, <3>1, <3>2 DEF Received, DoneKnows
  <2> QED
    BY <1>2, <1>5, <2>2, DoneProceedKnows DEF DoneNotify, HoldsDone, DoneKnows
<1>6. CASE DoneFind
  <2>1. ASSUME NEW i, doneTask.pc = "find",
               doneTask' = [doneTask EXCEPT !.pc = "apply", !.found = i]
        PROVE  HoldsDone'
    BY <2>1 DEF DoneTasks, DoneKnows, HoldsDone
  <2> QED
    BY <1>3, <1>6, <2>1 DEF DoneFind
<1>7. CASE DoneApply
  BY <1>3, <1>7 DEF DoneApply
<1>8. CASE DoneSync
  <2>1. ASSUME NEW since,
               doneTask' = [DoneAt("scan") EXCEPT !.via = "sync", !.since = since]
        PROVE  HoldsDone'
    BY <2>1 DEF DoneAt, HoldsDone
  <2> QED
    BY <1>1, <1>8, <2>1 DEF DoneSync
<1>9. CASE DoneScan
  <2>1. ASSUME NEW rows, \A i \in rows : place[i] = "done",
               doneTask' = [doneTask EXCEPT !.pc = "rows", !.since = 0, !.rows = rows]
        PROVE  HoldsDone'
    BY <2>1 DEF DoneTasks, HoldsDone
  <2> DEFINE rows == {i \in InTable("done") : /\ PassesScan(Item[i])
                                              /\ at[i].done >= doneTask.since}
  <2>2. \A i \in rows : place[i] = "done"
    BY DEF InTable
  <2>3. CASE doneTask' = [doneTask EXCEPT !.pc = "rows", !.since = 0, !.rows = rows]
    <3> HIDE DEF rows
    <3> QED
      BY <2>1, <2>2, <2>3
  <2> QED
    BY <1>1, <1>9, <2>3 DEF DoneScan
<1>10. CASE DoneRow
  BY <1>1, <1>10, DoneProceedKnows DEF DoneRow, HoldsDone, DoneKnows
<1> QED
  BY <1>4, <1>5, <1>6, <1>7, <1>8, <1>9, <1>10 DEF DoneStep

(* What is announced for done or failed is there: the trigger fires on the   *)
(* insert.                                                                   *)
Announces(table) ==
  \A k \in DOMAIN pending[triggers[table]] : place[pending[triggers[table]][k]] = table

LEMMA InsertAnnounces ==
  ASSUME RelayerTypeOK, NEW t \in {"done", "failed"}, Announces(t), MovesForward,
         NEW table \in DOMAIN triggers, NEW i \in Id, InsertInto(table, i)
  PROVE  Announces(t)'
<1> DEFINE old == pending[triggers[t]]
<1>1. old \in Seq(Id) /\ triggers[t] \in NotifyChannels
  BY DEF RelayerTypeOK, NotifyChannels, triggers
<1>2. ASSUME NEW k \in DOMAIN old
      PROVE  place'[old[k]] = t
  <2>1. old[k] \in Id /\ place[old[k]] = t
    BY <1>1, <1>2 DEF Announces
  <2> QED
    BY <2>1 DEF MovesForward
<1>3. CASE pending'[triggers[t]] = old
  BY <1>2, <1>3 DEF Announces
<1>4. CASE table = t /\ pending'[triggers[t]] = Append(old, i)
  <2>1. place'[i] = t
    BY <1>4 DEF InsertInto, RelayerTypeOK
  <2>2. ASSUME NEW k \in DOMAIN Append(old, i)
        PROVE  place'[Append(old, i)[k]] = t
    <3>1. CASE k = Len(old) + 1
      BY <1>1, <2>1, <3>1
    <3>2. CASE k # Len(old) + 1
      <4>1. k \in DOMAIN old /\ Append(old, i)[k] = old[k]
        BY <1>1, <2>2, <3>2
      <4> QED
        BY <1>2, <4>1
    <3> QED
      BY <3>1, <3>2
  <2> QED
    BY <1>4, <2>2 DEF Announces
<1> QED
  BY <1>1, <1>3, <1>4 DEF InsertInto, triggers

LEMMA AnnouncedStaysThere ==
  ASSUME TypeInv, [Next]_vars, NEW t \in {"done", "failed"}, Announces(t)
  PROVE  Announces(t)'
<1>1. MovesForward /\ RelayerTypeOK
  BY TablesMoveForward DEF TypeInv, TypeOK
<1> DEFINE old == pending[triggers[t]]
<1>2. old \in Seq(Id) /\ triggers[t] \in NotifyChannels
  BY <1>1 DEF RelayerTypeOK, NotifyChannels, triggers
<1>3. CASE pending'[triggers[t]] = old
  <2>1. ASSUME NEW k \in DOMAIN old
        PROVE  place'[old[k]] = t
    <3>1. old[k] \in Id /\ place[old[k]] = t
      BY <1>2, <2>1 DEF Announces
    <3> QED
      BY <1>1, <3>1 DEF MovesForward
  <2> QED
    BY <1>3, <2>1 DEF Announces
<1>4. CASE pending'[triggers[t]] = <<>>
  BY <1>4 DEF Announces
<1>5. CASE old # <<>> /\ pending'[triggers[t]] = Tail(old)
  <2>1. ASSUME NEW k \in DOMAIN Tail(old)
        PROVE  place'[Tail(old)[k]] = t
    <3>1. k + 1 \in DOMAIN old /\ Tail(old)[k] = old[k + 1]
      BY <1>2, <1>5, <2>1
    <3>2. old[k + 1] \in Id /\ place[old[k + 1]] = t
      BY <1>2, <3>1 DEF Announces
    <3> QED
      BY <1>1, <3>1, <3>2 DEF MovesForward
  <2> QED
    BY <1>5, <2>1 DEF Announces
<1>6. CASE RelayerTurn
  <2>1. CASE \E i \in Id : Enqueue(i) \/ Complete(i) \/ Fail(i)
    <3>1. {"queue", "done", "failed"} \subseteq DOMAIN triggers
      BY DEF triggers
    <3> QED
      BY <1>1, <2>1, <3>1, InsertAnnounces DEF Enqueue, Complete, Fail
  <2>2. CASE Tick
    BY <1>3, <2>2 DEF Tick
  <2> QED
    BY <1>6, <2>1, <2>2 DEF RelayerTurn, RelayerStep
<1>7. ASSUME NEW c \in NotifyChannels, Listen(c) \/ Receive(c)
      PROVE  Announces(t)'
  <2>1. CASE Listen(c)
    BY <1>3, <2>1 DEF Listen
  <2>2. CASE Receive(c)
    BY <1>1, <1>2, <1>3, <1>5, <2>2 DEF Receive, RelayerTypeOK
  <2> QED
    BY <1>7, <2>1, <2>2
<1>8. ASSUME NEW cs, Unlisten(cs)
      PROVE  Announces(t)'
  BY <1>2, <1>3, <1>4, <1>8 DEF Unlisten
<1>9. CASE UNCHANGED relayerVars
  BY <1>3, <1>9 DEF relayerVars
<1>10. {"queue_insert", "done_insert", "failed_insert"} \subseteq NotifyChannels
  BY DEF NotifyChannels, triggers
<1>11. CASE QueueTurn
  BY <1>7, <1>9, <1>10, <1>11
  DEF QueueTurn, QueueStep, QueueConnect, QueueLost, QueueNotify, QueueFind, QueueInsert,
      QueueSync, QueueRow, QueueSetCursor
<1>12. CASE DoneTurn
  BY <1>7, <1>9, <1>10, <1>12
  DEF DoneTurn, DoneStep, DoneConnect, DoneLost, DoneNotify, DoneFind, DoneApply,
      DoneSync, DoneScan, DoneRow
<1>13. CASE FailedTurn
  BY <1>7, <1>9, <1>10, <1>13
  DEF FailedTurn, FailedStep, FailedConnect, FailedLost, FailedNotify, FailedDirect, FailedFind,
      FailedPromise, FailedTrace, FailedAncestor, FailedSync, FailedRow, FailedSetCursor
<1>14. CASE MainStep
  BY <1>9, <1>14
  DEF MainStep, Dedupe, BootDone, BootFailed, StartListeners, PollDetected, PollQueue, PollMark
<1>15. CASE ConnectionLost \/ Crash
  BY <1>8, <1>15 DEF ConnectionLost, Crash
<1>16. CASE UNCHANGED vars
  BY <1>9, <1>16 DEF vars
<1> QED
  BY <1>6, <1>11, <1>12, <1>13, <1>14, <1>15, <1>16 DEF Next

LEMMA DoneKnowsKept ==
  ASSUME TypeInv, [Next]_vars, DoneKnows
  PROVE  DoneKnows'
<1>1. Announces("done") /\ HoldsDone
  BY DEF Announces, triggers, HoldsDone, DoneKnows
<1>2. Announces("done")'
  BY <1>1, AnnouncedStaysThere
<1>3. HoldsDone'
  <2>1. CASE DoneTurn
    BY <2>1, DoneStepKnows, IndexerReadsOnly DEF DoneTurn
  <2>2. CASE DoneGoto("sync") \/ DoneGoto("off")
    BY <2>2 DEF DoneGoto, DoneAt, HoldsDone
  <2>3. CASE UNCHANGED doneTask
    <3>1. /\ doneTask.rows \subseteq Id
          /\ doneTask.pc \in {"find", "apply"} => doneTask.id \in Id
      BY DEF TypeInv, TypeOK, DoneTasks, DoneLocalsOK
    <3>2. MovesForward
      BY TablesMoveForward
    <3> QED
      BY <1>1, <2>3, <3>1, <3>2 DEF MovesForward, HoldsDone
  <2> QED
    BY <2>1, <2>2, <2>3
    DEF Next, MainStep, Dedupe, BootDone, BootFailed, StartListeners, PollDetected, PollQueue,
        PollMark, QueueTurn, FailedTurn, RelayerTurn, ConnectionLost, Crash, vars, tasks
<1> QED
  BY <1>2, <1>3 DEF DoneKnows, HoldsDone, Announces, triggers

(* The row found keeps its packet until it is marked: nothing deletes rows   *)
(* meanwhile, and no statement writes what an insert wrote of the packet.    *)
LEMMA RowsKeepPackets ==
  ASSUME TypeInv, [Next]_vars, NEW i \in DOMAIN transfers, mainTask.pc # "dedupe"
  PROVE  i \in DOMAIN transfers' /\ transfers'[i].bridge = transfers[i].bridge
BY SystemRowChanges DEF RowChanges, RowChange, Inserted

LEMMA DoneFoundKept ==
  ASSUME TypeInv, [Next]_vars, DoneHasFound, DedupeAlone
  PROVE  DoneHasFound'
<1>2. CASE UNCHANGED doneTask
  <2>1. CASE doneTask.pc = "apply"
    <3>1. mainTask.pc # "dedupe" /\ doneTask.found \in DOMAIN transfers
      BY <2>1 DEF DedupeAlone, DoneHasFound
    <3>2. /\ doneTask.found \in DOMAIN transfers'
          /\ transfers'[doneTask.found].bridge = transfers[doneTask.found].bridge
      BY <3>1, RowsKeepPackets
    <3> QED
      BY <1>2, <3>2 DEF DoneHasFound, DoneJob, HashOf, KeyMatches
  <2> QED
    BY <1>2, <2>1 DEF DoneHasFound
<1>3. CASE doneTask'.pc # "apply"
  BY <1>3 DEF DoneHasFound
<1>4. ASSUME NEW job \in DoneJob, NEW i \in FindFor(job), i # 0,
             doneTask' = [doneTask EXCEPT !.pc = "apply", !.found = i],
             doneTask.pc = "find", UNCHANGED transfers
      PROVE  DoneHasFound'
  <2>1. doneTask \in DoneTasks
    BY DEF TypeInv, TypeOK
  <2>2. doneTask'.found = i /\ doneTask'.id = doneTask.id /\ doneTask'.jobs = doneTask.jobs
    BY <1>4, <2>1 DEF DoneTasks
  <2>3. DoneJob' = DoneJob
    BY <2>2 DEF DoneJob
  <2>4. i \in DOMAIN transfers
    BY <1>4 DEF FindFor, FindByTimeoutAndChannel, FindByPacketHash, OrNone
  <2>5. \A other \in DoneJob : other = job
    BY <1>4, OneJob DEF TypeInv, DoneLocalsOK
  <2>6. /\ job.event_type = "write_ack" => HashOf(i) = job.hash
        /\ job.event_type = "packet_timeout" => KeyMatches(i, job.timeout, job.channel)
    BY <1>4 DEF FindFor, FindByPacketHash, FindByTimeoutAndChannel, OrNone, KeyMatches
  <2> QED
    BY <1>4, <2>2, <2>3, <2>4, <2>5, <2>6 DEF DoneHasFound, HashOf, KeyMatches
<1>5. ASSUME NEW i, NEW jobs, DoneProceed(i, jobs)
      PROVE  doneTask'.pc # "apply"
  <2>1. doneTask \in DoneTasks
    BY DEF TypeInv, TypeOK
  <2>2. CASE doneTask' = [doneTask EXCEPT !.pc = "find", !.id = i, !.jobs = jobs,
                                          !.found = 0, !.rows = @ \ {i}]
    BY <2>1, <2>2 DEF DoneTasks
  <2>3. CASE doneTask' = [doneTask EXCEPT !.pc = "rows", !.id = 0, !.jobs = {}, !.found = 0,
                                          !.rows = @ \ {i}]
    BY <2>1, <2>3 DEF DoneTasks
  <2>4. CASE doneTask' = DoneAt("wait")
    BY <2>4 DEF DoneAt
  <2> QED
    BY <1>5, <2>2, <2>3, <2>4 DEF DoneProceed
<1>6. ASSUME NEW label, label # "apply", DoneGoto(label)
      PROVE  doneTask'.pc # "apply"
  BY <1>6 DEF DoneGoto, DoneAt
<1>7. CASE DoneFind
  BY <1>3, <1>4, <1>5, <1>7 DEF DoneFind, DoneNextJob, storeVars
<1>8. CASE DoneSync
  BY <1>3, <1>6, <1>8 DEF DoneSync, DoneAt
<1>9. CASE DoneScan
  <2>1. ASSUME NEW rows, doneTask' = [doneTask EXCEPT !.pc = "rows", !.since = 0, !.rows = rows]
        PROVE  doneTask'.pc # "apply"
    BY <2>1 DEF TypeInv, TypeOK, DoneTasks
  <2> QED
    BY <1>3, <1>6, <1>9, <2>1 DEF DoneScan
<1>10. CASE DoneConnect \/ DoneLost \/ DoneNotify \/ DoneApply \/ DoneRow
  BY <1>2, <1>3, <1>5, <1>6, <1>10
  DEF DoneConnect, DoneLost, DoneNotify, DoneApply, DoneRow, DoneNextJob
<1>11. CASE DoneTurn
  BY <1>7, <1>8, <1>9, <1>10, <1>11 DEF DoneTurn, DoneStep
<1> QED
  BY <1>2, <1>3, <1>6, <1>11
  DEF Next, MainStep, Dedupe, BootDone, BootFailed, StartListeners, PollDetected, PollQueue,
      PollMark, QueueTurn, FailedTurn, RelayerTurn, ConnectionLost, Crash, vars, tasks

-----------------------------------------------------------------------------
(* The failed worker *)

(* The failed row in hand and those of the batch are failed. *)
HoldsFailed ==
  /\ failedTask.pc \in {"direct", "trace", "ancestor", "find", "promise"} =>
       place[failedTask.id] = "failed"
  /\ \A i \in failedTask.rows : place[i] = "failed"

(* The climb is at ancestors of the row in hand. *)
ClimbsAncestors ==
  /\ failedTask.pc = "trace" => \A a \in failedTask.level : IsAncestor(a, failedTask.id)
  /\ failedTask.pc = "ancestor" => IsAncestor(failedTask.found, failedTask.id)

(* The transfer found for a promise has its key. *)
PromiseHasFound ==
  failedTask.pc = "promise" =>
    /\ failedTask.found \in DOMAIN transfers
    /\ \E f \in ParseItemFields(Item[failedTask.id]) :
         KeyMatches(failedTask.found, f.timeout, f.channel)

FailedKnows == Announces("failed") /\ HoldsFailed /\ ClimbsAncestors /\ PromiseHasFound

LEMMA ParentsAreAncestors ==
  ASSUME NEW i \in Id, NEW a \in Id, IsAncestor(a, i), NEW b \in Parents[a]
  PROVE  IsAncestor(b, i)
BY DEF IsAncestor

LEMMA FailedStepKnows ==
  ASSUME TypeInv, FailedStep, FailedKnows, UNCHANGED place
  PROVE  HoldsFailed' /\ ClimbsAncestors'
<1> USE DEF TypeInv, TypeOK, FailedKnows
<1> DEFINE Holds == HoldsFailed' /\ ClimbsAncestors'
<1>1. ASSUME NEW label \in {"sync", "connect", "wait"}, FailedGoto(label)
      PROVE  Holds
  BY <1>1 DEF FailedGoto, FailedAt, HoldsFailed, ClimbsAncestors
<1>2. CASE UNCHANGED failedTask
  BY <1>2 DEF HoldsFailed, ClimbsAncestors
<1>3. ASSUME NEW n, FailedNextRow(n)
      PROVE  Holds
  <2>1. failedTask'.pc = "rows" /\ failedTask'.rows = failedTask.rows
    BY <1>3 DEF FailedNextRow, FailedAt
  <2> QED
    BY <2>1 DEF HoldsFailed, ClimbsAncestors
<1>4. CASE FailedEndBatch
  <2>1. failedTask'.pc \in {"cursor", "connect"} /\ failedTask'.rows = {}
    BY <1>4 DEF FailedEndBatch, FailedAt
  <2> QED
    BY <2>1 DEF HoldsFailed, ClimbsAncestors
<1>5. CASE FailedConnect \/ FailedLost \/ FailedPromise \/ FailedSetCursor
  BY <1>1, <1>2, <1>5 DEF FailedConnect, FailedLost, FailedPromise, FailedSetCursor
<1>6. CASE FailedAncestor
  BY <1>3, <1>6 DEF FailedAncestor
<1>7. CASE FailedNotify
  <2> DEFINE i == Received("failed_insert")
  <2>1. place[i] = "failed"
    <3>1. pending["failed_insert"] \in Seq(Id) /\ pending["failed_insert"] # <<>>
      BY <1>7 DEF FailedNotify, Receive, RelayerTypeOK, NotifyChannels, triggers
    <3>2. 1 \in DOMAIN pending["failed_insert"]
      BY <3>1
    <3> QED
      BY <3>1, <3>2 DEF Received, Announces, triggers
  <2>2. CASE failedTask' = [FailedAt("direct") EXCEPT !.id = i]
    <3>1. failedTask'.pc = "direct" /\ failedTask'.id = i /\ failedTask'.rows = {}
      BY <2>2 DEF FailedAt
    <3> QED
      BY <2>1, <3>1 DEF HoldsFailed, ClimbsAncestors
  <2> QED
    BY <1>2, <1>7, <2>2 DEF FailedNotify
<1>8. CASE FailedDirect
  <2>1. failedTask.pc = "direct" /\ failedTask.id \in Id /\ place[failedTask.id] = "failed"
    BY <1>8 DEF FailedDirect, FailedLocalsOK, HoldsFailed
  <2>2. CASE failedTask' = [failedTask EXCEPT !.pc = "trace", !.lastID = failedTask.id,
                                              !.level = Parents[failedTask.id]]
    <3>1. /\ failedTask'.pc = "trace" /\ failedTask'.id = failedTask.id
          /\ failedTask'.rows = failedTask.rows /\ failedTask'.level = Parents[failedTask.id]
      BY <2>2 DEF FailedTasks
    <3>2. \A a \in Parents[failedTask.id] : IsAncestor(a, failedTask.id)
      BY DEF IsAncestor
    <3> QED
      BY <2>1, <3>1, <3>2 DEF HoldsFailed, ClimbsAncestors
  <2>3. CASE failedTask' = [failedTask EXCEPT !.pc = "find"]
    <3>1. failedTask'.pc = "find" /\ failedTask'.id = failedTask.id
          /\ failedTask'.rows = failedTask.rows
      BY <2>3 DEF FailedTasks
    <3> QED
      BY <2>1, <3>1 DEF HoldsFailed, ClimbsAncestors
  <2> QED
    BY <1>1, <1>3, <1>4, <1>8, <2>2, <2>3 DEF FailedDirect, AfterDirect
<1>9. CASE FailedFind
  <2>1. ASSUME NEW i, failedTask' = [failedTask EXCEPT !.pc = "promise", !.found = i]
        PROVE  Holds
    <3>1. failedTask'.pc = "promise" /\ failedTask'.id = failedTask.id
          /\ failedTask'.rows = failedTask.rows
      BY <2>1 DEF FailedTasks
    <3> QED
      BY <1>9, <3>1 DEF FailedFind, HoldsFailed, ClimbsAncestors
  <2> QED
    BY <1>1, <1>9, <2>1 DEF FailedFind
<1>10. CASE FailedTrace
  <2>1. /\ failedTask.pc = "trace" /\ failedTask.id \in Id /\ failedTask.level \subseteq Id
        /\ place[failedTask.id] = "failed"
        /\ \A a \in failedTask.level : IsAncestor(a, failedTask.id)
    BY <1>10 DEF FailedTrace, FailedLocalsOK, FailedTasks, HoldsFailed, ClimbsAncestors
  <2>2. ASSUME NEW skipped, Climb(skipped)
        PROVE  Holds
    <3> DEFINE up == UNION {Parents[p] : p \in
                       {q \in failedTask.level \ (failedTask.visited \cup skipped) :
                          place[q] = "done"}}
    <3>1. \A a \in up : IsAncestor(a, failedTask.id)
      BY <2>1, ParentsAreAncestors
    <3>2. failedTask' = [failedTask EXCEPT !.depth = @ + 1,
                           !.visited = @ \cup failedTask.level, !.level = up]
      BY <2>2 DEF Climb
    <3> HIDE DEF up
    <3>3. /\ failedTask'.pc = "trace" /\ failedTask'.id = failedTask.id
          /\ failedTask'.rows = failedTask.rows /\ failedTask'.level = up
      BY <2>1, <3>2 DEF FailedTasks
    <3> QED
      BY <2>1, <3>1, <3>3 DEF HoldsFailed, ClimbsAncestors
  <2>3. ASSUME NEW i \in FindAncestor(failedTask.level), i # 0,
               failedTask' = [failedTask EXCEPT !.pc = "ancestor", !.found = i, !.level = {},
                                                !.visited = {}, !.depth = 0]
        PROVE  Holds
    <3>1. /\ failedTask'.pc = "ancestor" /\ failedTask'.id = failedTask.id
          /\ failedTask'.rows = failedTask.rows /\ failedTask'.found = i
      BY <2>3 DEF FailedTasks
    <3>2. i \in failedTask.level
      BY <2>3 DEF FindAncestor, OrNone
    <3> QED
      BY <2>1, <3>1, <3>2 DEF HoldsFailed, ClimbsAncestors
  <2> QED
    BY <1>3, <1>10, <2>2, <2>3 DEF FailedTrace
<1>11. CASE FailedSync
  <2> DEFINE batch == BatchAfter("failed", GetCursor("failed"))
  <2>1. \A i \in batch : place[i] = "failed"
    BY DEF BatchAfter, InTable
  <2>2. CASE failedTask' = [FailedAt("rows") EXCEPT !.via = "sync", !.rows = batch]
    <3> HIDE DEF batch
    <3>1. failedTask'.pc = "rows" /\ failedTask'.rows = batch
      BY <2>2 DEF FailedAt
    <3> QED
      BY <2>1, <3>1 DEF HoldsFailed, ClimbsAncestors
  <2> QED
    BY <1>1, <1>11, <2>2 DEF FailedSync
<1>12. CASE FailedRow
  <2>1. ASSUME NEW i \in failedTask.rows,
               failedTask' = [failedTask EXCEPT !.pc = "direct", !.id = i, !.rows = @ \ {i}]
        PROVE  Holds
    <3>1. /\ failedTask'.pc = "direct" /\ failedTask'.id = i
          /\ failedTask'.rows = failedTask.rows \ {i}
      BY <2>1 DEF FailedTasks
    <3> QED
      BY <2>1, <3>1 DEF HoldsFailed, ClimbsAncestors
  <2> QED
    BY <1>1, <1>4, <1>12, <2>1 DEF FailedRow, IsNext
<1> QED
  BY <1>5, <1>6, <1>7, <1>8, <1>9, <1>10, <1>11, <1>12 DEF FailedStep

LEMMA PromiseFoundKept ==
  ASSUME TypeInv, [Next]_vars, PromiseHasFound, DedupeAlone
  PROVE  PromiseHasFound'
<1>1. CASE UNCHANGED failedTask
  <2>1. CASE failedTask.pc = "promise"
    <3>1. mainTask.pc # "dedupe" /\ failedTask.found \in DOMAIN transfers
      BY <2>1 DEF DedupeAlone, PromiseHasFound
    <3>2. /\ failedTask.found \in DOMAIN transfers'
          /\ transfers'[failedTask.found].bridge = transfers[failedTask.found].bridge
      BY <3>1, RowsKeepPackets
    <3> QED
      BY <1>1, <3>2 DEF PromiseHasFound, KeyMatches
  <2> QED
    BY <1>1, <2>1 DEF PromiseHasFound
<1>2. CASE failedTask'.pc # "promise"
  BY <1>2 DEF PromiseHasFound
<1>3. CASE FailedFind
  <2>1. failedTask \in FailedTasks
    BY DEF TypeInv, TypeOK
  <2>2. ASSUME NEW f \in ParseItemFields(Item[failedTask.id]),
               NEW i \in FindByTimeoutAndChannel(f.timeout, f.channel), i # 0,
               failedTask' = [failedTask EXCEPT !.pc = "promise", !.found = i],
               UNCHANGED transfers
        PROVE  PromiseHasFound'
    <3>1. failedTask'.found = i /\ failedTask'.id = failedTask.id
      BY <2>1, <2>2 DEF FailedTasks
    <3>2. i \in DOMAIN transfers /\ KeyMatches(i, f.timeout, f.channel)
      BY <2>2 DEF FindByTimeoutAndChannel, OrNone, KeyMatches
    <3> QED
      BY <2>2, <3>1, <3>2 DEF PromiseHasFound, KeyMatches
  <2>3. CASE FailedGoto("wait")
    BY <1>2, <2>3 DEF FailedGoto, FailedAt
  <2> QED
    BY <1>3, <2>2, <2>3 DEF FailedFind, storeVars
<1>4. CASE FailedStep /\ ~FailedFind
  <2>1. CASE failedTask.pc # "promise"
    <3>1. failedTask \in FailedTasks
      BY DEF TypeInv, TypeOK
    <3>2. ASSUME NEW label, label # "promise", FailedGoto(label)
          PROVE  failedTask'.pc # "promise"
      BY <3>2 DEF FailedGoto, FailedAt
    <3>3. ASSUME NEW n, FailedNextRow(n)
          PROVE  failedTask'.pc # "promise"
      BY <3>3 DEF FailedNextRow, FailedAt
    <3>4. CASE FailedEndBatch
      BY <1>2, <3>4 DEF FailedEndBatch, FailedAt
    <3>5. CASE FailedConnect \/ FailedLost \/ FailedAncestor \/ FailedSetCursor
      BY <1>2, <3>2, <3>3, <3>5 DEF FailedConnect, FailedLost, FailedAncestor, FailedSetCursor
    <3>6. CASE FailedNotify
      BY <1>1, <1>2, <3>6 DEF FailedNotify, FailedAt
    <3>7. CASE FailedDirect
      BY <1>2, <3>1, <3>2, <3>3, <3>4, <3>7 DEF FailedDirect, AfterDirect, FailedTasks
    <3>8. CASE FailedTrace
      BY <1>2, <2>1, <3>1, <3>3, <3>8 DEF FailedTrace, Climb, FailedTasks
    <3>9. CASE FailedSync
      BY <1>2, <3>2, <3>9 DEF FailedSync, FailedAt
    <3>10. CASE FailedRow
      BY <1>2, <3>1, <3>2, <3>4, <3>10 DEF FailedRow, FailedTasks
    <3>11. CASE FailedPromise
      BY <2>1, <3>11 DEF FailedPromise
    <3> QED
      BY <1>4, <3>5, <3>6, <3>7, <3>8, <3>9, <3>10, <3>11 DEF FailedStep
  <2>2. CASE failedTask.pc = "promise"
    <3>1. FailedPromise
      BY <1>4, <2>2
      DEF FailedStep, FailedConnect, FailedLost, FailedNotify, FailedDirect, FailedTrace,
          FailedAncestor, FailedSync, FailedRow, FailedSetCursor
    <3> QED
      BY <1>2, <3>1 DEF FailedPromise, FailedGoto, FailedAt
  <2> QED
    BY <2>1, <2>2
<1>5. CASE FailedGoto("sync") \/ FailedGoto("off")
  BY <1>2, <1>5 DEF FailedGoto, FailedAt
<1> QED
  BY <1>1, <1>3, <1>4, <1>5
  DEF Next, MainStep, Dedupe, BootDone, BootFailed, StartListeners, PollDetected, PollQueue,
      PollMark, QueueTurn, DoneTurn, FailedTurn, RelayerTurn, ConnectionLost, Crash, vars, tasks

LEMMA FailedKnowsKept ==
  ASSUME TypeInv, [Next]_vars, FailedKnows, DedupeAlone
  PROVE  FailedKnows'
<1>1. Announces("failed")' /\ PromiseHasFound'
  BY AnnouncedStaysThere, PromiseFoundKept DEF FailedKnows
<1>2. HoldsFailed' /\ ClimbsAncestors'
  <2>1. CASE FailedTurn
    BY <2>1, FailedStepKnows, IndexerReadsOnly DEF FailedTurn
  <2>2. CASE FailedGoto("sync") \/ FailedGoto("off")
    BY <2>2 DEF FailedGoto, FailedAt, HoldsFailed, ClimbsAncestors
  <2>3. CASE UNCHANGED failedTask
    <3>1. /\ failedTask.rows \subseteq Id
          /\ failedTask.pc \in {"direct", "trace", "ancestor", "find", "promise"} =>
               failedTask.id \in Id
      BY DEF TypeInv, TypeOK, FailedTasks, FailedLocalsOK
    <3>2. MovesForward
      BY TablesMoveForward
    <3> QED
      BY <2>3, <3>1, <3>2 DEF MovesForward, FailedKnows, HoldsFailed, ClimbsAncestors
  <2> QED
    BY <2>1, <2>2, <2>3
    DEF Next, MainStep, Dedupe, BootDone, BootFailed, StartListeners, PollDetected, PollQueue,
        PollMark, QueueTurn, DoneTurn, RelayerTurn, ConnectionLost, Crash, vars, tasks
<1> QED
  BY <1>1, <1>2 DEF FailedKnows

-----------------------------------------------------------------------------
(* Statuses have their evidence *)

(* All that is known between the statements. *)
Knowledge ==
  /\ TypeInv
  /\ RowsBorn /\ QueueKnows /\ PollKnows /\ DoneKnows /\ FailedKnows
  /\ DedupeAlone /\ DoneHasFound

LEMMA KnowledgeKept ==
  ASSUME Knowledge, [Next]_vars
  PROVE  Knowledge'
BY SystemStep, RowsBornKept, QueueKnowsKept, PollKnowsKept, DoneKnowsKept, FailedKnowsKept,
   DedupeStaysAlone, DoneFoundKept DEF Knowledge

LEMMA KnowledgeInit ==
  ASSUME Init
  PROVE  Knowledge
<1>1. TypeInv
  BY SystemInit
<1>2. RowsBorn
  BY RelayerAssumption DEF Init, StoreInit, RelayerInit, RowsBorn
<1>3. pending["done_insert"] = <<>> /\ pending["failed_insert"] = <<>>
  BY DEF Init, RelayerInit, NotifyChannels, triggers
<1>4. QueueKnows /\ PollKnows /\ DedupeAlone /\ DoneHasFound
  BY DEF Init, QueueAt, DoneAt, FailedAt, QueueKnows, PollKnows, DedupeAlone, DoneHasFound
<1>5. DoneKnows
  BY <1>3 DEF Init, DoneAt, DoneKnows
<1>6. FailedKnows
  BY <1>3
  DEF Init, FailedAt, FailedKnows, Announces, triggers, HoldsFailed, ClimbsAncestors,
      PromiseHasFound
<1> QED
  BY <1>1, <1>2, <1>4, <1>5, <1>6 DEF Knowledge

LEMMA KnowledgeHolds == Spec => []Knowledge
<1>1. Init => Knowledge
  BY KnowledgeInit
<1>2. Knowledge /\ [Next]_vars => Knowledge'
  BY KnowledgeKept
<1> QED
  BY <1>1, <1>2, PTL DEF Spec

(* poll reads the detected ids, then queue, then updates (sync.go:58-94): a  *)
(* row it marks has left queue for good, whoever comes between.              *)
THEOREM ProcessingIsHonest == Spec => []ProcessingHasLeftQueue
<1>1. Init => ProcessingHasLeftQueue
  BY DEF Init, StoreInit, ProcessingHasLeftQueue, Inherited
<1>2. Knowledge /\ ProcessingHasLeftQueue /\ [Next]_vars => ProcessingHasLeftQueue'
  <2> SUFFICES ASSUME Knowledge, ProcessingHasLeftQueue, [Next]_vars,
                      NEW i \in DOMAIN transfers',
                      transfers'[i].status = Processing, ~Inherited(i, Processing)
               PROVE  place'[i] # "queue"
    BY DEF ProcessingHasLeftQueue, Inherited
  <2>1. RowChanges /\ MovesForward
    BY SystemRowChanges, TablesMoveForward DEF Knowledge
  <2>2. i \in DOMAIN transfers /\ (Kept(i) \/ MarkedByPoll(i))
    BY <2>1 DEF RowChanges, RowChange, DoneByAck, FailedSomehow, Inserted,
                Detected, Processing, Done, Failed
  <2>3. i \in Id /\ place[i] \in Places
    BY <2>2 DEF Knowledge, TypeInv, TypeOK, StoreTypeOK, RelayerTypeOK
  <2>4. place[i] \in {"done", "failed"}
    <3>1. CASE Kept(i)
      BY <2>2, <2>3, <3>1 DEF Kept, ProcessingHasLeftQueue, Knowledge, RowsBorn, Places
    <3>2. CASE MarkedByPoll(i)
      BY <3>2 DEF MarkedByPoll, Knowledge, PollKnows
    <3> QED
      BY <2>2, <3>1, <3>2
  <2> QED
    BY <2>1, <2>3, <2>4 DEF MovesForward
<1> QED
  BY <1>1, <1>2, KnowledgeHolds, PTL DEF Spec

(* A transfer is done only by a successful acknowledgement of its own packet *)
(* that is in done, and at that row's time (listener.go:136-147, 180-192).   *)
THEOREM DoneIsHonest == Spec => []DoneHasAck
<1>1. Init => DoneHasAck
  BY DEF Init, StoreInit, DoneHasAck, Inherited
<1>2. Knowledge /\ DoneHasAck /\ [Next]_vars => DoneHasAck'
  <2> SUFFICES ASSUME Knowledge, DoneHasAck, [Next]_vars,
                      NEW i \in DOMAIN transfers',
                      transfers'[i].status = Done, ~Inherited(i, Done)
               PROVE  \E d \in Id : AckOf(i, d, TRUE)' /\ transfers'[i].done_at = at'[d].done
    BY DEF DoneHasAck, Inherited
  <2>1. RowChanges /\ MovesForward
    BY SystemRowChanges, TablesMoveForward DEF Knowledge
  <2>2. i \in DOMAIN transfers /\ HashOf(i)' = HashOf(i) /\ (Kept(i) \/ DoneByAck(i))
    BY <2>1 DEF RowChanges, RowChange, MarkedByPoll, FailedSomehow, Inserted, HashOf,
                Detected, Processing, Done, Failed
  <2>3. PICK d \in Id : AckOf(i, d, TRUE) /\ transfers'[i].done_at = at[d].done
    <3>1. CASE Kept(i)
      BY <2>2, <3>1 DEF Kept, DoneHasAck
    <3>2. CASE DoneByAck(i)
      <4>1. PICK job \in DoneJob : job.event_type = "write_ack" /\ job.ack_success
        BY <3>2 DEF DoneByAck
      <4>2. doneTask.id \in Id /\ place[doneTask.id] = "done"
        BY <3>2 DEF DoneByAck, Knowledge, DoneKnows, TypeInv, DoneLocalsOK
      <4>3. job \in AckFields(Item[doneTask.id]) /\ job.ack_success = TRUE
        <5>1. job.ack_success \in BOOLEAN
          BY <3>2, DoneJobType DEF DoneByAck, Knowledge, TypeInv, DoneLocalsOK, FieldsOK
        <5> QED
          BY <4>1, <5>1, AckOfJob
      <4>4. job.hash = HashOf(i)
        BY <3>2, <4>1 DEF DoneByAck, Knowledge, DoneHasFound
      <4> QED
        BY <3>2, <4>1, <4>2, <4>3, <4>4 DEF DoneByAck, AckOf
    <3> QED
      BY <2>2, <3>1, <3>2
  <2>4. AckOf(i, d, TRUE)' /\ at'[d].done = at[d].done
    BY <2>1, <2>2, <2>3 DEF AckOf, MovesForward
  <2> QED
    BY <2>3, <2>4
<1> QED
  BY <1>1, <1>2, KnowledgeHolds, PTL DEF Spec
-----------------------------------------------------------------------------
(* Where a failure and a receive transaction come from *)

(* The goroutines' calls of MarkFailed: *)
FailsByAck(id, m, tx) ==
  /\ doneTask.pc = "apply" /\ id = doneTask.found /\ m = AckError
  /\ \E job \in DoneJob :
       job.event_type = "write_ack" /\ job.ack_success = FALSE /\ tx = job.tx

FailsByTimeout(id, m, tx) ==
  /\ doneTask.pc = "apply" /\ id = doneTask.found /\ m = TimedOut /\ tx = NoTx
  /\ \E job \in DoneJob : job.event_type = "packet_timeout"

(* of the failed row itself or of an ancestor, *)
FailsByDescent(id, m, tx) ==
  /\ failedTask.pc \in {"direct", "ancestor"}
  /\ id = IF failedTask.pc = "direct" THEN failedTask.id ELSE failedTask.found
  /\ m = MessageOf(failedTask.id) /\ tx = NoTx

(* and of the transfer with a promise's key. *)
FailsByPromise(id, m, tx) ==
  /\ failedTask.pc = "promise" /\ id = failedTask.found
  /\ m = MessageOf(failedTask.id)
  /\ \E f \in ParseItemFields(Item[failedTask.id]) : tx = f.tx

Fails(id, m, tx) ==
  \/ FailsByAck(id, m, tx) \/ FailsByTimeout(id, m, tx)
  \/ FailsByDescent(id, m, tx) \/ FailsByPromise(id, m, tx)

(* An acknowledgement that reports a receive transaction for a row. *)
Reports(job, i) ==
  /\ doneTask.pc = "apply" /\ job \in DoneJob
  /\ \/ job.event_type = "packet_recv" /\ HashOf(i) = job.hash
     \/ job.event_type = "write_ack" /\ i = doneTask.found

FailureCaused(i) ==
  \/ transfers'[i].status # Failed
  \/ /\ transfers'[i].status = transfers[i].status
     /\ transfers'[i].err_msg = transfers[i].err_msg
  \/ \E tx : Fails(i, transfers'[i].err_msg, tx)

ReceiptCaused(i) ==
  \/ transfers'[i].tx_in = transfers[i].tx_in
  \/ \E job \in DoneJob : Reports(job, i) /\ transfers'[i].tx_in = job.tx
  \/ /\ transfers'[i].status = Failed
     /\ FailsByPromise(i, transfers'[i].err_msg, transfers'[i].tx_in)

Fresh(i) ==
  /\ i \notin DOMAIN transfers
  /\ transfers'[i].status = Detected
  /\ transfers'[i].tx_in = NULL

Caused ==
  \A i \in DOMAIN transfers' :
    \/ i \in DOMAIN transfers /\ FailureCaused(i) /\ ReceiptCaused(i)
    \/ Fresh(i)

LEMMA MarkFailedCaused ==
  ASSUME StoreTypeOK, NEW id, NEW m, NEW tx, MarkFailed(id, m, tx), Fails(id, m, tx)
  PROVE  Caused
<1> SUFFICES ASSUME NEW i \in DOMAIN transfers
             PROVE  FailureCaused(i) /\ ReceiptCaused(i)
  BY DEF MarkFailed, Caused
<1>1. transfers[i] \in Row
  BY DEF StoreTypeOK
<1>2. CASE i = id /\ InFlight(i)
  <2> DEFINE in == TxInOr(transfers[i].tx_in, tx)
  <2>1. transfers'[i] = [transfers[i] EXCEPT !.status = Failed, !.err_msg = m, !.tx_in = in]
    BY <1>2 DEF MarkFailed
  <2>2. in = transfers[i].tx_in \/ (in = tx /\ tx # NoTx)
    BY DEF TxInOr
  <2> HIDE DEF in
  <2>3. transfers'[i].status = Failed /\ transfers'[i].err_msg = m /\ transfers'[i].tx_in = in
    BY <1>1, <2>1 DEF Row
  <2>4. FailureCaused(i)
    BY <1>2, <2>3 DEF FailureCaused
  <2>5. CASE in = tx /\ tx # NoTx
    <3>1. FailsByAck(id, m, tx) \/ FailsByPromise(id, m, tx)
      BY <2>5 DEF Fails, FailsByTimeout, FailsByDescent
    <3> QED
      BY <1>2, <2>3, <2>4, <2>5, <3>1 DEF ReceiptCaused, FailsByAck, Reports
  <2> QED
    BY <2>2, <2>3, <2>4, <2>5 DEF ReceiptCaused
<1>3. CASE ~(i = id /\ InFlight(i))
  BY <1>3 DEF MarkFailed, FailureCaused, ReceiptCaused
<1> QED
  BY <1>2, <1>3

LEMMA NothingCaused ==
  ASSUME UNCHANGED transfers
  PROVE  Caused
BY DEF Caused, FailureCaused, ReceiptCaused

LEMMA MainCaused ==
  ASSUME TypeInv, MainStep
  PROVE  Caused
<1>1. StoreTypeOK
  BY DEF TypeInv, TypeOK
<1>2. CASE DedupeByPacketHash
  BY <1>2 DEF DedupeByPacketHash, Caused, FailureCaused, ReceiptCaused
<1>3. CASE MarkProcessing(mainTask.ids)
  <2> SUFFICES ASSUME NEW i \in DOMAIN transfers
               PROVE  FailureCaused(i) /\ ReceiptCaused(i)
    BY <1>3 DEF MarkProcessing, Caused
  <2>1. transfers[i] \in Row
    BY <1>1 DEF StoreTypeOK
  <2>2. \/ transfers'[i] = transfers[i]
        \/ transfers'[i] = [transfers[i] EXCEPT !.status = Processing]
    BY <1>3 DEF MarkProcessing
  <2> QED
    BY <2>1, <2>2 DEF FailureCaused, ReceiptCaused, Row, Processing, Failed
<1> QED
  BY <1>2, <1>3, NothingCaused
  DEF MainStep, Dedupe, BootDone, BootFailed, StartListeners, PollDetected, PollQueue, PollMark,
      storeVars

LEMMA QueueCaused ==
  ASSUME TypeInv, QueueStep
  PROVE  Caused
<1>1. CASE QueueInsert /\ ~UNCHANGED transfers
  <2>1. queueTask.existing = 0
    BY <1>1 DEF QueueInsert, TypeInv, QueueLocalsOK
  <2>2. PICK b \in QueueBridge(queueTask.id) :
          InsertRow(queueTask.id, NewRow(b, at[queueTask.id].queue))
    BY <1>1, <2>1 DEF QueueInsert, InsertWrite
  <2> QED
    BY <2>2 DEF InsertRow, NewRow, Caused, FailureCaused, ReceiptCaused, Fresh
<1> QED
  BY <1>1, NothingCaused
  DEF QueueStep, QueueConnect, QueueLost, QueueNotify, QueueFind, QueueInsert, QueueSync,
      QueueRow, QueueSetCursor, storeVars

LEMMA DoneCaused ==
  ASSUME TypeInv, DoneStep
  PROVE  Caused
<1>1. StoreTypeOK
  BY DEF TypeInv, TypeOK
<1>2. ASSUME doneTask.pc = "apply", NEW job \in DoneJob,
             ApplyJob(job, doneTask.found, at[doneTask.id].done)
      PROVE  Caused
  <2>1. /\ job.ack_success \in BOOLEAN
        /\ job.event_type \in {"packet_recv", "write_ack", "packet_timeout"}
    BY <1>2, DoneJobType DEF TypeInv, DoneLocalsOK, FieldsOK
  <2>2. CASE job.event_type = "packet_recv"
    <3>1. SetTxIn(job.hash, job.tx)
      BY <1>2, <2>2 DEF ApplyJob
    <3> SUFFICES ASSUME NEW i \in DOMAIN transfers
                 PROVE  FailureCaused(i) /\ ReceiptCaused(i)
      BY <3>1 DEF SetTxIn, Caused
    <3>2. transfers[i] \in Row
      BY <1>1 DEF StoreTypeOK
    <3>3. \/ /\ transfers'[i] = [transfers[i] EXCEPT !.tx_in = job.tx]
             /\ HashOf(i) = job.hash
          \/ transfers'[i] = transfers[i]
      BY <3>1 DEF SetTxIn
    <3> QED
      BY <1>2, <2>2, <3>2, <3>3 DEF FailureCaused, ReceiptCaused, Reports, Row
  <2>3. CASE job.event_type = "write_ack" /\ job.ack_success
    <3>1. MarkDone(doneTask.found, at[doneTask.id].done, job.tx)
      BY <1>2, <2>3 DEF ApplyJob
    <3> SUFFICES ASSUME NEW i \in DOMAIN transfers
                 PROVE  FailureCaused(i) /\ ReceiptCaused(i)
      BY <3>1 DEF MarkDone, Caused
    <3>2. transfers[i] \in Row
      BY <1>1 DEF StoreTypeOK
    <3>3. CASE i = doneTask.found /\ InFlight(i)
      <4> DEFINE in == TxInOr(transfers[i].tx_in, job.tx)
      <4>1. transfers'[i] = [transfers[i] EXCEPT !.status = Done,
                               !.done_at = at[doneTask.id].done, !.tx_in = in]
        BY <3>1, <3>3 DEF MarkDone
      <4>2. in = transfers[i].tx_in \/ in = job.tx
        BY DEF TxInOr
      <4> HIDE DEF in
      <4> QED
        BY <1>2, <2>3, <3>2, <3>3, <4>1, <4>2
        DEF FailureCaused, ReceiptCaused, Reports, Row, Done, Failed
    <3>4. CASE ~(i = doneTask.found /\ InFlight(i))
      BY <3>1, <3>4 DEF MarkDone, FailureCaused, ReceiptCaused
    <3> QED
      BY <3>3, <3>4
  <2>4. CASE job.event_type = "write_ack" /\ job.ack_success = FALSE
    <3>1. MarkFailed(doneTask.found, AckError, job.tx)
      BY <1>2, <2>4 DEF ApplyJob
    <3>2. Fails(doneTask.found, AckError, job.tx)
      BY <1>2, <2>4 DEF Fails, FailsByAck
    <3> QED
      BY <1>1, <3>1, <3>2, MarkFailedCaused
  <2>5. CASE job.event_type = "packet_timeout"
    <3>1. MarkFailed(doneTask.found, TimedOut, NoTx)
      BY <1>2, <2>5 DEF ApplyJob
    <3>2. Fails(doneTask.found, TimedOut, NoTx)
      BY <1>2, <2>5 DEF Fails, FailsByTimeout
    <3> QED
      BY <1>1, <3>1, <3>2, MarkFailedCaused
  <2> QED
    BY <2>1, <2>2, <2>3, <2>4, <2>5
<1> QED
  BY <1>2, NothingCaused
  DEF DoneStep, DoneConnect, DoneLost, DoneNotify, DoneFind, DoneApply, DoneSync, DoneScan,
      DoneRow, storeVars

LEMMA FailedCaused ==
  ASSUME TypeInv, FailedStep
  PROVE  Caused
<1>1. StoreTypeOK
  BY DEF TypeInv, TypeOK
<1>2. CASE FailedDirect \/ FailedAncestor
  <2> DEFINE id == IF failedTask.pc = "direct" THEN failedTask.id ELSE failedTask.found
  <2>1. Fails(id, MessageOf(failedTask.id), NoTx)
    BY <1>2 DEF FailedDirect, FailedAncestor, Fails, FailsByDescent
  <2>2. MarkFailed(id, MessageOf(failedTask.id), NoTx) \/ UNCHANGED transfers
    BY <1>2 DEF FailedDirect, FailedAncestor
  <2> HIDE DEF id
  <2> QED
    BY <1>1, <2>1, <2>2, MarkFailedCaused, NothingCaused
<1>3. CASE FailedPromise
  <2>1. PICK f \in ParseItemFields(Item[failedTask.id]) :
          MarkFailed(failedTask.found, MessageOf(failedTask.id), f.tx) \/ UNCHANGED transfers
    BY <1>3 DEF FailedPromise
  <2>2. Fails(failedTask.found, MessageOf(failedTask.id), f.tx)
    BY <1>3, <2>1 DEF FailedPromise, Fails, FailsByPromise
  <2> QED
    BY <1>1, <2>1, <2>2, MarkFailedCaused, NothingCaused
<1> QED
  BY <1>2, <1>3, NothingCaused
  DEF FailedStep, FailedConnect, FailedLost, FailedNotify, FailedFind, FailedTrace, FailedSync,
      FailedRow, FailedSetCursor, storeVars

(* Rows fail, and get a receive transaction, in these ways only. *)
LEMMA AllCaused ==
  ASSUME TypeInv, [Next]_vars
  PROVE  Caused
BY MainCaused, QueueCaused, DoneCaused, FailedCaused, NothingCaused
DEF Next, QueueTurn, DoneTurn, FailedTurn, RelayerTurn, ConnectionLost, Crash, storeVars, vars

-----------------------------------------------------------------------------
(* Failures and receive transactions have their cause *)

(* A timeout in hand is one of the row's. *)
LEMMA TimeoutOfJob ==
  ASSUME doneTask.jobs \subseteq Jobs(doneTask.id),
         NEW job \in DoneJob, job.event_type = "packet_timeout"
  PROVE  \E k \in ParsePacketTimeouts(Item[doneTask.id]) :
           /\ job.timeout = Item[doneTask.id].entries[k].timeout
           /\ job.channel = Item[doneTask.id].entries[k].channel
<1>1. PICK k \in doneTask.jobs : job \in JobFields(doneTask.id, k)
  BY DEF DoneJob
<1>2. k # 0 /\ job = TimeoutFields(Item[doneTask.id].entries[k])
  BY <1>1 DEF JobFields, AckFields
<1>3. k \in ParsePacketTimeouts(Item[doneTask.id])
  BY <1>1, <1>2 DEF Jobs
<1> QED
  BY <1>2, <1>3 DEF TimeoutFields

Cause(i, r) ==
  \/ RelayFailure(i, r)
  \/ TimeoutSubmitted(i, r)
  \/ AckOf(i, r, FALSE) /\ transfers[i].err_msg = AckError

(* The rows that are a cause stay, and so do the packet and its error. *)
LEMMA CauseStays ==
  ASSUME MovesForward, NEW i, NEW r \in Id, Cause(i, r),
         transfers'[i].bridge = transfers[i].bridge,
         transfers'[i].err_msg = transfers[i].err_msg
  PROVE  Cause(i, r)'
<1>1. CASE RelayFailure(i, r)
  BY <1>1 DEF Cause, RelayFailure, KeyMatches, MovesForward
<1>2. CASE TimeoutSubmitted(i, r)
  BY <1>2 DEF Cause, TimeoutSubmitted, KeyMatches, MovesForward
<1>3. CASE AckOf(i, r, FALSE) /\ transfers[i].err_msg = AckError
  BY <1>3 DEF Cause, AckOf, HashOf, MovesForward
<1> QED
  BY <1>1, <1>2, <1>3 DEF Cause

(* Whoever marks a row failed holds a cause. *)
LEMMA FailsForCause ==
  ASSUME Knowledge, MovesForward, NEW i, NEW tx, Fails(i, transfers'[i].err_msg, tx),
         transfers'[i].bridge = transfers[i].bridge
  PROVE  \E r \in Id : Cause(i, r)'
<1> DEFINE m == transfers'[i].err_msg
<1>1. CASE FailsByAck(i, m, tx) \/ FailsByTimeout(i, m, tx)
  <2>1. /\ doneTask.pc = "apply" /\ i = doneTask.found
        /\ doneTask.jobs \subseteq Jobs(doneTask.id)
    BY <1>1 DEF FailsByAck, FailsByTimeout, Knowledge, TypeInv, DoneLocalsOK
  <2>2. PICK d \in Id : d = doneTask.id
    BY <2>1 DEF Knowledge, TypeInv, DoneLocalsOK
  <2>3. place'[d] = "done"
    BY <2>1, <2>2 DEF Knowledge, DoneKnows, MovesForward
  <2>4. CASE FailsByAck(i, m, tx)
    <3>1. PICK job \in DoneJob : job.event_type = "write_ack" /\ job.ack_success = FALSE
      BY <2>4 DEF FailsByAck
    <3>2. transfers'[i].bridge.packet_hash = job.hash
      BY <2>1, <3>1 DEF Knowledge, DoneHasFound, HashOf
    <3>3. job \in AckFields(Item[d])
      BY <2>2, <3>1, AckOfJob
    <3>4. AckOf(i, d, FALSE)'
      BY <2>3, <3>1, <3>2, <3>3 DEF AckOf, HashOf
    <3> QED
      BY <2>4, <3>4 DEF FailsByAck, Cause
  <2>5. CASE FailsByTimeout(i, m, tx)
    <3>1. PICK job \in DoneJob : job.event_type = "packet_timeout"
      BY <2>5 DEF FailsByTimeout
    <3>2. KeyMatches(i, job.timeout, job.channel)
      BY <2>1, <3>1 DEF Knowledge, DoneHasFound
    <3>3. PICK k \in ParsePacketTimeouts(Item[d]) :
            job.timeout = Item[d].entries[k].timeout /\ job.channel = Item[d].entries[k].channel
      BY <2>1, <2>2, <3>1, TimeoutOfJob
    <3>4. TimeoutSubmitted(i, d)'
      BY <2>3, <2>5, <3>2, <3>3 DEF FailsByTimeout, TimeoutSubmitted, KeyMatches
    <3> QED
      BY <3>4 DEF Cause
  <2> QED
    BY <1>1, <2>4, <2>5
<1>2. CASE FailsByDescent(i, m, tx) \/ FailsByPromise(i, m, tx)
  <2>1. failedTask.pc \in {"direct", "ancestor", "promise"} /\ m = MessageOf(failedTask.id)
    BY <1>2 DEF FailsByDescent, FailsByPromise
  <2>2. PICK f \in Id : f = failedTask.id
    BY <2>1 DEF Knowledge, TypeInv, FailedLocalsOK
  <2>3. place'[f] = "failed"
    BY <2>1, <2>2 DEF Knowledge, FailedKnows, HoldsFailed, MovesForward
  <2>4. \/ f = i
        \/ IsAncestor(i, f)
        \/ \E k \in ParseItemFields(Item[f]) : KeyMatches(i, k.timeout, k.channel)
    BY <1>2, <2>2 DEF FailsByDescent, FailsByPromise, Knowledge, FailedKnows, ClimbsAncestors,
                      PromiseHasFound
  <2>5. RelayFailure(i, f)'
    BY <2>1, <2>2, <2>3, <2>4 DEF RelayFailure, KeyMatches
  <2> QED
    BY <2>5 DEF Cause
<1> QED
  BY <1>1, <1>2 DEF Fails

(* A transfer fails only for a reason that is in done or failed, with that   *)
(* reason's message: whatever was found in one statement is still the        *)
(* packet's, or has its key, when it is marked in the next (listener.go:     *)
(* 158-204, 264-300), and the climb from a failed row meets only its         *)
(* ancestors (sync.go:169-199, 214-266).                                     *)
THEOREM FailedIsHonest == Spec => []FailedHasCause
<1>1. Init => FailedHasCause
  BY DEF Init, StoreInit, FailedHasCause, Inherited
<1>2. Knowledge /\ FailedHasCause /\ [Next]_vars => FailedHasCause'
  <2> SUFFICES ASSUME Knowledge, FailedHasCause, [Next]_vars,
                      NEW i \in DOMAIN transfers',
                      transfers'[i].status = Failed, ~Inherited(i, Failed)
               PROVE  \E r \in Id : Cause(i, r)'
    BY DEF FailedHasCause, Inherited, Cause
  <2>1. RowChanges /\ MovesForward /\ Caused
    BY SystemRowChanges, TablesMoveForward, AllCaused DEF Knowledge
  <2>2. /\ i \in DOMAIN transfers /\ FailureCaused(i)
        /\ transfers'[i].bridge = transfers[i].bridge
    BY <2>1 DEF Caused, Fresh, RowChanges, RowChange, Inserted, Detected, Failed
  <2>3. CASE /\ transfers'[i].status = transfers[i].status
             /\ transfers'[i].err_msg = transfers[i].err_msg
    <3>1. PICK r \in Id : Cause(i, r)
      BY <2>2, <2>3 DEF FailedHasCause, Cause
    <3> QED
      BY <2>1, <2>2, <2>3, <3>1, CauseStays
  <2>4. ASSUME NEW tx, Fails(i, transfers'[i].err_msg, tx)
        PROVE  \E r \in Id : Cause(i, r)'
    BY <2>1, <2>2, <2>4, FailsForCause
  <2> QED
    BY <2>2, <2>3, <2>4 DEF FailureCaused
<1> QED
  BY <1>1, <1>2, KnowledgeHolds, PTL DEF Spec

(* The fields an item yields are one record at most. *)
LEMMA OneFields ==
  ASSUME NEW item \in Items, NEW f \in ParseItemFields(item), NEW g \in ParseItemFields(item)
  PROVE  f = g
<1>1. item.entries \in Seq(Entry)
  BY DEF Items
<1>2. DOMAIN item.entries \subseteq Nat
  BY <1>1
<1>3. ASSUME f \in PromiseFields(item), g \in PromiseFields(item)
      PROVE  f = g
  <2> DEFINE dated == {k \in DOMAIN item.entries : item.entries[k].timeout # 0}
  <2>1. \A k, m \in {p \in dated : \A n \in dated : p <= n} : k = m
    <3> SUFFICES ASSUME NEW k \in dated, NEW m \in dated, k <= m, m <= k
                 PROVE  k = m
      OBVIOUS
    <3>1. k \in Nat /\ m \in Nat
      BY <1>2
    <3> QED
      BY <3>1
  <2> QED
    BY <1>3, <2>1 DEF PromiseFields
<1> QED
  BY <1>3 DEF ParseItemFields

LEMMA SourceStays ==
  ASSUME StoreTypeOK, WriteTransfers \/ UNCHANGED transfers, MovesForward,
         NEW i \in DOMAIN transfers \cap DOMAIN transfers',
         OwnTx(i) \/ FailedTx(i),
         transfers'[i].bridge = transfers[i].bridge,
         transfers'[i].tx_in = transfers[i].tx_in
  PROVE  OwnTx(i)' \/ FailedTx(i)'
<1>1. CASE OwnTx(i)
  BY <1>1 DEF OwnTx, HashOf, MovesForward
<1>2. CASE FailedTx(i)
  <2>1. RowStaysTerminal(i)
    BY WriteKeepsRows DEF RowStaysTerminal
  <2>2. transfers'[i].status = transfers[i].status /\ transfers'[i].err_msg = transfers[i].err_msg
    BY <1>2, <2>1 DEF RowStaysTerminal, FailedTx, Terminal
  <2> QED
    BY <1>2, <2>2 DEF FailedTx, KeyMatches, MovesForward
<1> QED
  BY <1>1, <1>2

LEMMA ReceiptHasSource ==
  ASSUME Knowledge, MovesForward, NEW i \in DOMAIN transfers, NEW job \in DoneJob,
         Reports(job, i), transfers'[i].tx_in = job.tx,
         transfers'[i].bridge = transfers[i].bridge
  PROVE  OwnTx(i)'
<1>1. doneTask.id \in Id /\ place[doneTask.id] = "done"
  BY DEF Reports, Knowledge, DoneKnows, TypeInv, DoneLocalsOK
<1>2. job \in AckFields(Item[doneTask.id])
  BY AckOfJob DEF Reports
<1>3. HashOf(i) = job.hash
  BY DEF Reports, Knowledge, DoneHasFound
<1> QED
  BY <1>1, <1>2, <1>3 DEF OwnTx, HashOf, MovesForward

LEMMA PromiseHasSource ==
  ASSUME Knowledge, MovesForward, NEW i \in DOMAIN transfers,
         FailsByPromise(i, transfers'[i].err_msg, transfers'[i].tx_in),
         transfers'[i].status = Failed,
         transfers'[i].bridge = transfers[i].bridge
  PROVE  FailedTx(i)'
<1>1. failedTask.id \in Id /\ place[failedTask.id] = "failed" /\ i = failedTask.found
  BY DEF FailsByPromise, Knowledge, FailedKnows, HoldsFailed, TypeInv, FailedLocalsOK
<1>2. PICK f \in ParseItemFields(Item[failedTask.id]) : transfers'[i].tx_in = f.tx
  BY DEF FailsByPromise
<1>3. KeyMatches(i, f.timeout, f.channel)
  BY <1>1, <1>2, OneFields, RelayerAssumption
  DEF FailsByPromise, Knowledge, FailedKnows, PromiseHasFound
<1> QED
  BY <1>1, <1>2, <1>3 DEF FailsByPromise, FailedTx, KeyMatches, MovesForward

(* What a transfer shows as its receive transaction was reported by a done   *)
(* row of its own packet, or came with the failed item it failed with, whose *)
(* timeout and channel it has (listener.go:136-147, 180-192, 291): nothing   *)
(* else writes it, and a report that comes late finds it written.            *)
THEOREM ReceiptsHaveSource == Spec => []TxInHasSource
<1>1. Init => TxInHasSource
  BY DEF Init, StoreInit, TxInHasSource
<1>2. Knowledge /\ TxInHasSource /\ [Next]_vars => TxInHasSource'
  <2> SUFFICES ASSUME Knowledge, TxInHasSource, [Next]_vars,
                      NEW i \in DOMAIN transfers',
                      transfers'[i].tx_in # NULL, i \notin DOMAIN Rows0
               PROVE  OwnTx(i)' \/ FailedTx(i)'
    BY DEF TxInHasSource
  <2>1. RowChanges /\ MovesForward /\ Caused
    BY SystemRowChanges, TablesMoveForward, AllCaused DEF Knowledge
  <2>2. /\ i \in DOMAIN transfers /\ ReceiptCaused(i)
        /\ transfers'[i].bridge = transfers[i].bridge
    BY <2>1 DEF Caused, Fresh, RowChanges, RowChange, Inserted
  <2>3. CASE transfers'[i].tx_in = transfers[i].tx_in
    <3>1. StoreTypeOK /\ (WriteTransfers \/ UNCHANGED transfers)
      BY SystemStep DEF Knowledge, TypeInv, TypeOK, StoreNext, storeVars
    <3> QED
      BY <2>1, <2>2, <2>3, <3>1, SourceStays DEF TxInHasSource
  <2>4. CASE \E job \in DoneJob : Reports(job, i) /\ transfers'[i].tx_in = job.tx
    BY <2>1, <2>2, <2>4, ReceiptHasSource
  <2>5. CASE /\ transfers'[i].status = Failed
             /\ FailsByPromise(i, transfers'[i].err_msg, transfers'[i].tx_in)
    BY <2>1, <2>2, <2>5, PromiseHasSource
  <2> QED
    BY <2>2, <2>3, <2>4, <2>5 DEF ReceiptCaused
<1> QED
  BY <1>1, <1>2, KnowledgeHolds, PTL DEF Spec

=============================================================================
