---------------------------- MODULE QueueWorker -----------------------------
(***************************************************************************)
(* The goroutine listenQueue (listener.go) with syncQueue (sync.go): it    *)
(* turns queue rows into transfers.  A label of queueTask.pc is a point    *)
(* between two SQL statements; the other fields are the Go locals alive    *)
(* there.  A statement that returns an error may have been applied.        *)
(***************************************************************************)
EXTENDS RelayerDB, Faults

VARIABLE queueTask

QueueLabels == {"off", "sync", "rows", "connect", "wait", "find", "insert", "cursor"}

(* via: who called Insert; id: the row in hand; existing: what Insert's      *)
(* SELECT found; rows: rows of the batch not read yet; lastID as in          *)
(* syncQueue.                                                                *)
QueueTasks ==
  [pc : QueueLabels, via : {"notify", "sync"}, id : Id \cup {0},
   existing : Id \cup {0}, rows : SUBSET Id, lastID : Id \cup {0}]

QueueAt(label) ==
  [pc |-> label, via |-> "notify", id |-> 0, existing |-> 0, rows |-> {}, lastID |-> 0]

QueueGoto(label) == queueTask' = QueueAt(label)

(* Statements of the row in hand *)
QueueBridge(i) == Parse(Item[i])

(* After the row in hand: a sync goes on with the batch, which counts the    *)
(* row as read unless its insert failed, and the listener waits again.       *)
QueueRowDone ==
  queueTask' = IF queueTask.via = "sync"
               THEN [queueTask EXCEPT !.pc = "rows", !.lastID = queueTask.id,
                                      !.id = 0, !.existing = 0]
               ELSE QueueAt("wait")

(* Mutant: the sync goes on past a row it could not insert. *)
QueueRowFailedIgnored == QueueRowDone

QueueRowFailed == QueueGoto(IF queueTask.via = "sync" THEN "connect" ELSE "wait")

-----------------------------------------------------------------------------
(* runListener: acquire a connection and LISTEN; an error leads to syncQueue *)
QueueConnect ==
  /\ queueTask.pc = "connect"
  /\ \/ NoFault /\ Listen("queue_insert") /\ QueueGoto("wait")
     \/ Fault("error") /\ QueueGoto("sync") /\ UNCHANGED relayerVars
  /\ UNCHANGED storeVars

(* WaitForNotification fails: the connection is gone. *)
QueueLost ==
  /\ queueTask.pc = "wait"
  /\ "queue_insert" \notin listening
  /\ QueueGoto("sync")
  /\ UNCHANGED <<storeVars, relayerVars, budget>>

(* A notification: the row is read back from queue; if it is gone, if the    *)
(* query fails or if it is no packet, the listener waits on.                 *)
QueueNotify ==
  /\ queueTask.pc = "wait"
  /\ Receive("queue_insert")
  /\ LET i == Received("queue_insert") IN
       \/ /\ NoFault
          /\ IF place[i] = "queue" /\ QueueBridge(i) # {}
             THEN queueTask' = [QueueAt("find") EXCEPT !.id = i]
             ELSE UNCHANGED queueTask
       \/ Fault("error") /\ UNCHANGED queueTask
  /\ UNCHANGED storeVars

(* Insert, SELECT id, status: an existing row that the new one does not      *)
(* outrank ends it.                                                          *)
QueueFind ==
  /\ queueTask.pc = "find"
  /\ \/ /\ NoFault
        /\ \E b \in QueueBridge(queueTask.id) : \E e \in ExistingFor(b.packet_hash) :
             IF e = 0 \/ Outranks(Detected, transfers[e].status)
             THEN queueTask' = [queueTask EXCEPT !.pc = "insert", !.existing = e]
             ELSE QueueRowDone
     \/ Fault("error") /\ QueueRowFailed
  /\ UNCHANGED <<storeVars, relayerVars>>

(* Insert, the write; created_at is the one read with the queue row. *)
QueueInsert ==
  /\ queueTask.pc = "insert"
  /\ \E b \in QueueBridge(queueTask.id) :
       LET write == InsertWrite(queueTask.id, NewRow(b, at[queueTask.id].queue),
                                queueTask.existing)
       IN  \/ NoFault /\ write /\ QueueRowDone
           \/ Fault("error") /\ (write \/ UNCHANGED transfers) /\ QueueRowFailed
  /\ UNCHANGED <<cursors, relayerVars>>

(* syncQueue: GetCursor and the batch, two statements taken as one step:     *)
(* only this goroutine writes the cursor it reads.                           *)
QueueSync ==
  /\ queueTask.pc = "sync"
  /\ \/ /\ NoFault
        /\ queueTask' = [QueueAt("rows") EXCEPT
             !.via = "sync", !.rows = BatchAfter("queue", GetCursor("queue"))]
     \/ Fault("error") /\ QueueGoto("connect")
  /\ UNCHANGED <<storeVars, relayerVars>>

(* The next row of the batch; reading on may fail. *)
QueueRow ==
  /\ queueTask.pc = "rows"
  /\ \/ \E i \in Id :
          /\ NoFault
          /\ IsNext(i, queueTask.rows)
          /\ queueTask' =
               IF QueueBridge(i) = {}
               THEN [queueTask EXCEPT !.rows = @ \ {i}, !.lastID = i]
               ELSE [queueTask EXCEPT !.rows = @ \ {i}, !.pc = "find", !.id = i]
     \/ /\ NoFault
        /\ queueTask.rows = {}
        /\ IF queueTask.lastID > 0
           THEN queueTask' = [QueueAt("cursor") EXCEPT !.lastID = queueTask.lastID]
           ELSE QueueGoto("connect")
     \/ Fault("error") /\ QueueGoto("connect")
  /\ UNCHANGED <<storeVars, relayerVars>>

QueueSetCursor ==
  /\ queueTask.pc = "cursor"
  /\ \/ NoFault /\ SetCursor("queue", queueTask.lastID)
     \/ Fault("error") /\ (SetCursor("queue", queueTask.lastID) \/ UNCHANGED cursors)
  /\ QueueGoto("connect")
  /\ UNCHANGED <<transfers, relayerVars>>

QueueStep ==
  \/ QueueConnect \/ QueueLost \/ QueueNotify
  \/ QueueFind \/ QueueInsert
  \/ QueueSync \/ QueueRow \/ QueueSetCursor

=============================================================================
