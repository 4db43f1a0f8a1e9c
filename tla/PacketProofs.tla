---------------------------- MODULE PacketProofs -----------------------------
(***************************************************************************)
(* What holds of a packet through all its rows: it has one, no cursor      *)
(* passes it by, and what a reader sees of it is the life of a packet.     *)
(***************************************************************************)
EXTENDS EvidenceProofs, FiniteSetTheorems

-----------------------------------------------------------------------------
(* One row per packet *)

RowsUnique ==
  \A i, j \in DOMAIN transfers : HashOf(i) = HashOf(j) => i = j

Rows0Unique ==
  \A i, j \in DOMAIN Rows0 :
    Rows0[i].bridge.packet_hash = Rows0[j].bridge.packet_hash => i = j

(* The duplicates of an older indexer are gone once start-up has             *)
(* deduplicated, unless just that statement fails.                           *)
CleanStart == Rows0Unique \/ Budget["error"] = 0

(* Between the SELECT and the INSERT of Insert nobody inserts the packet:    *)
(* the queue worker is the only one that inserts (bridge.go:88-113).         *)
QueueAloneInserts ==
  queueTask.pc = "insert" =>
    \A b \in QueueBridge(queueTask.id) : \A i \in DOMAIN transfers :
      HashOf(i) # b.packet_hash

OneRow ==
  /\ UniqueHash
  /\ QueueAloneInserts
  /\ Rows0Unique => RowsUnique
  /\ budget["error"] <= Budget["error"]

(* Among two rows of a packet one ranks before the other. *)
LEMMA DedupeLeavesOne ==
  ASSUME StoreTypeOK, DedupeByPacketHash
  PROVE  RowsUnique'
<1> SUFFICES ASSUME NEW i \in DOMAIN transfers', NEW j \in DOMAIN transfers',
                    HashOf(i)' = HashOf(j)', i # j
             PROVE  FALSE
  BY DEF RowsUnique
<1>1. /\ i \in DOMAIN transfers /\ j \in DOMAIN transfers
      /\ ~RanksBefore(i, j) /\ ~RanksBefore(j, i)
      /\ HashOf(i) = HashOf(j)
  BY DEF DedupeByPacketHash, HashOf
<1>2. i \in Nat /\ j \in Nat
  BY <1>1, StoreAssumption DEF StoreTypeOK
<1> DEFINE p == StatusPriority(transfers[i].status)
           q == StatusPriority(transfers[j].status)
<1>3. p \in 0..3 /\ q \in 0..3
  BY PriorityType
<1>4. ~(p < q) /\ ~(p = q /\ i < j) /\ ~(q < p) /\ ~(q = p /\ j < i)
  BY <1>1 DEF RanksBefore
<1> HIDE DEF p, q
<1> QED
  BY <1>2, <1>3, <1>4

LEMMA UniqueKept ==
  ASSUME RowChanges, RowsUnique, QueueAloneInserts
  PROVE  RowsUnique'
BY DEF RowChanges, RowChange, Inserted, RowsUnique, QueueAloneInserts, HashOf

LEMMA BudgetOnlySpent ==
  ASSUME TypeInv, [Next]_vars, budget["error"] <= Budget["error"]
  PROVE  budget'["error"] <= Budget["error"]
<1>1. budget \in [FaultKinds -> Nat] /\ Budget["error"] \in Nat
  BY BudgetAssumption DEF TypeInv, TypeOK, FaultsTypeOK, FaultKinds
<1>2. CASE UNCHANGED budget
  BY <1>2
<1>3. CASE \E k \in FaultKinds : Fault(k)
  BY <1>1, <1>3 DEF Fault, FaultKinds
<1>4. CASE MainStep
  BY <1>2, <1>3, <1>4
  DEF MainStep, Dedupe, BootDone, BootFailed, StartListeners, PollDetected, PollQueue, PollMark,
      NoFault, FaultKinds
<1>5. CASE QueueTurn
  BY <1>2, <1>3, <1>5
  DEF QueueTurn, QueueStep, QueueConnect, QueueLost, QueueNotify, QueueFind, QueueInsert,
      QueueSync, QueueRow, QueueSetCursor, NoFault, FaultKinds
<1>6. CASE DoneTurn
  BY <1>2, <1>3, <1>6
  DEF DoneTurn, DoneStep, DoneConnect, DoneLost, DoneNotify, DoneFind, DoneApply,
      DoneSync, DoneScan, DoneRow, NoFault, FaultKinds
<1>7. CASE FailedTurn
  BY <1>2, <1>3, <1>7
  DEF FailedTurn, FailedStep, FailedConnect, FailedLost, FailedNotify, FailedDirect, FailedFind,
      FailedPromise, FailedTrace, FailedAncestor, FailedSync, FailedRow, FailedSetCursor,
      NoFault, FaultKinds
<1> QED
  BY <1>2, <1>3, <1>4, <1>5, <1>6, <1>7
  DEF Next, RelayerTurn, ConnectionLost, Crash, vars, FaultKinds

LEMMA AloneInsertsKept ==
  ASSUME Knowledge, [Next]_vars, QueueAloneInserts
  PROVE  QueueAloneInserts'
<1>1. RowChanges
  BY SystemRowChanges DEF Knowledge
<1>2. CASE UNCHANGED queueTask
  BY <1>1, <1>2 DEF RowChanges, RowChange, Inserted, QueueAloneInserts, QueueBridge, HashOf
<1>3. CASE queueTask'.pc # "insert"
  BY <1>3 DEF QueueAloneInserts
<1>4. CASE QueueTurn
  <2>1. queueTask \in QueueTasks /\ DOMAIN transfers \subseteq Nat \ {0}
    BY StoreAssumption DEF Knowledge, TypeInv, TypeOK, StoreTypeOK
  <2>2. ASSUME NEW b \in QueueBridge(queueTask.id), NEW e \in ExistingFor(b.packet_hash),
               e = 0 \/ Outranks(Detected, transfers[e].status),
               queueTask' = [queueTask EXCEPT !.pc = "insert", !.existing = e],
               UNCHANGED transfers
        PROVE  QueueAloneInserts'
    <3>1. e = 0
      BY <2>2, DetectedOutranksNothing
    <3>2. \A i \in DOMAIN transfers : HashOf(i) # b.packet_hash
      BY <2>1, <2>2, <3>1 DEF ExistingFor, OrNone
    <3>3. queueTask'.id = queueTask.id
      BY <2>1, <2>2 DEF QueueTasks
    <3>4. \A c \in QueueBridge(queueTask.id) : c.packet_hash = b.packet_hash
      BY <2>2 DEF QueueBridge, Parse, BuildBridge
    <3> QED
      BY <2>2, <3>2, <3>3, <3>4 DEF QueueAloneInserts, QueueBridge, HashOf
  <2>3. CASE QueueRowDone \/ QueueRowFailed
    <3>1. CASE QueueRowDone
      BY <1>3, <2>1, <3>1 DEF QueueRowDone, QueueAt, QueueTasks
    <3>2. CASE QueueRowFailed
      BY <1>3, <3>2 DEF QueueRowFailed, QueueGoto, QueueAt
    <3> QED
      BY <2>3, <3>1, <3>2
  <2>4. CASE QueueFind
    BY <2>2, <2>3, <2>4 DEF QueueFind, storeVars
  <2>5. CASE QueueInsert
    BY <2>3, <2>5 DEF QueueInsert
  <2>6. CASE QueueConnect \/ QueueLost \/ QueueSetCursor
    BY <1>3, <2>6 DEF QueueConnect, QueueLost, QueueSetCursor, QueueGoto, QueueAt
  <2>7. CASE QueueNotify
    <3>1. ASSUME NEW i, queueTask' = [QueueAt("find") EXCEPT !.id = i]
          PROVE  queueTask'.pc # "insert"
      BY <3>1 DEF QueueAt
    <3>2. queueTask.pc # "insert"
      BY <2>7 DEF QueueNotify
    <3> QED
      BY <1>3, <2>7, <3>1, <3>2 DEF QueueNotify
  <2>8. CASE QueueSync
    <3>1. ASSUME NEW r, queueTask' = [QueueAt("rows") EXCEPT !.via = "sync", !.rows = r]
          PROVE  queueTask'.pc # "insert"
      BY <3>1 DEF QueueAt
    <3>2. QueueAt("connect").pc # "insert"
      BY DEF QueueAt
    <3> QED
      BY <1>3, <2>8, <3>1, <3>2 DEF QueueSync, QueueGoto
  <2>9. CASE QueueRow
    <3>1. queueTask.pc # "insert"
      BY <2>9 DEF QueueRow
    <3>2. ASSUME NEW i, queueTask' = [queueTask EXCEPT !.rows = @ \ {i}, !.lastID = i]
          PROVE  queueTask'.pc # "insert"
      BY <2>1, <3>1, <3>2 DEF QueueTasks
    <3>3. ASSUME NEW i, queueTask' = [queueTask EXCEPT !.rows = @ \ {i}, !.pc = "find", !.id = i]
          PROVE  queueTask'.pc # "insert"
      BY <2>1, <3>3 DEF QueueTasks
    <3>4. ASSUME NEW n, queueTask' = [QueueAt("cursor") EXCEPT !.lastID = n]
          PROVE  queueTask'.pc # "insert"
      BY <3>4 DEF QueueAt
    <3>5. QueueAt("connect").pc # "insert"
      BY DEF QueueAt
    <3> QED
      BY <1>3, <2>9, <3>2, <3>3, <3>4, <3>5 DEF QueueRow, QueueGoto
  <2> QED
    BY <1>4, <2>4, <2>5, <2>6, <2>7, <2>8, <2>9 DEF QueueTurn, QueueStep
<1> QED
  BY <1>2, <1>3, <1>4
  DEF Next, MainStep, Dedupe, BootDone, BootFailed, StartListeners, PollDetected, PollQueue,
      PollMark, DoneTurn, FailedTurn, RelayerTurn, ConnectionLost, Crash, vars, tasks,
      QueueGoto, QueueAt

(* It holds whatever rows an older indexer left.                             *)
LEMMA AloneInsertsHolds ==
  Spec => []QueueAloneInserts
<1>1. Init => QueueAloneInserts
  BY DEF Init, QueueAt, QueueAloneInserts
<1> QED
  BY <1>1, AloneInsertsKept, KnowledgeHolds, PTL DEF Spec

(* A row that appears is the only one of its packet: no assumption is made   *)
(* of the rows there were, and none of the deduplication's success           *)
(* (bridge.go:88-122, indexer.go:55).                                        *)
THEOREM NewRowsAreOnlyOnes ==
  Spec => NewRowIsOnlyOne
<1> DEFINE OnlyOne ==
             \A i \in DOMAIN transfers' \ DOMAIN transfers, j \in DOMAIN transfers' :
               j # i => transfers'[j].bridge.packet_hash # transfers'[i].bridge.packet_hash
<1>1. Knowledge /\ QueueAloneInserts /\ [Next]_vars => OnlyOne
  <2> SUFFICES ASSUME Knowledge, QueueAloneInserts, [Next]_vars,
                      NEW i \in DOMAIN transfers' \ DOMAIN transfers,
                      NEW j \in DOMAIN transfers', j # i
               PROVE  transfers'[j].bridge.packet_hash # transfers'[i].bridge.packet_hash
    OBVIOUS
  <2>1. RowChanges
    BY SystemRowChanges DEF Knowledge
  <2>2. PICK b \in QueueBridge(i) : transfers'[i].bridge = b
    BY <2>1 DEF RowChanges, RowChange, Inserted
  <2>3. queueTask.pc = "insert" /\ i = queueTask.id
    BY <2>1 DEF RowChanges, RowChange, Inserted
  <2>4. RowChange(j)
    BY <2>1, <2>3 DEF RowChanges, Inserted
  <2> QED
    BY <2>2, <2>3, <2>4 DEF RowChange, QueueAloneInserts, HashOf
<1> QED
  BY <1>1, AloneInsertsHolds, KnowledgeHolds, PTL DEF Spec, NewRowIsOnlyOne

LEMMA OneRowHolds ==
  ASSUME CleanStart
  PROVE  Spec => []OneRow
<1>1. Init => OneRow
  <2> SUFFICES ASSUME Init PROVE OneRow
    OBVIOUS
  <2>1. UniqueHash /\ QueueAloneInserts
    BY DEF Init, QueueAt, UniqueHash, QueueAloneInserts
  <2>2. Rows0Unique => RowsUnique
    BY DEF Init, StoreInit, Rows0Unique, RowsUnique, HashOf
  <2>3. budget["error"] <= Budget["error"]
    BY BudgetAssumption DEF Init, FaultsInit, FaultKinds
  <2> QED
    BY <2>1, <2>2, <2>3 DEF OneRow
<1>2. Knowledge /\ OneRow /\ [Next]_vars => OneRow'
  <2> SUFFICES ASSUME Knowledge, OneRow, [Next]_vars
               PROVE  OneRow'
    OBVIOUS
  <2>1. RowChanges /\ TypeInv /\ StoreTypeOK /\ budget["error"] \in Nat
    BY SystemRowChanges
    DEF Knowledge, TypeInv, TypeOK, FaultsTypeOK, FaultKinds
  <2>2. QueueAloneInserts'
    BY AloneInsertsKept DEF OneRow
  <2>3. budget'["error"] <= Budget["error"]
    BY <2>1, BudgetOnlySpent DEF OneRow
  <2>4. RowsUnique => RowsUnique'
    BY <2>1, UniqueKept DEF OneRow
  <2>5. UniqueHash'
    <3>1. CASE RowsUnique
      BY <2>4, <3>1 DEF RowsUnique, UniqueHash
    <3>2. CASE ~RowsUnique
      <4>1. mainTask.pc = "dedupe" /\ ~Rows0Unique
        BY <3>2 DEF OneRow, UniqueHash, RowsUnique
      <4>2. budget["error"] = 0
        BY <2>1, <4>1 DEF CleanStart, OneRow
      <4>3. CASE Dedupe
        <5>1. DedupeByPacketHash
          BY <4>2, <4>3 DEF Dedupe, Fault
        <5> QED
          BY <2>1, <5>1, DedupeLeavesOne DEF RowsUnique, UniqueHash
      <4>4. CASE mainTask'.pc = "dedupe"
        BY <4>4 DEF UniqueHash
      <4> QED
        BY <4>1, <4>3, <4>4
        DEF Next, MainStep, BootDone, BootFailed, StartListeners, PollDetected, PollQueue,
            PollMark, QueueTurn, DoneTurn, FailedTurn, RelayerTurn, ConnectionLost, Crash,
            MainGoto, vars, tasks
    <3> QED
      BY <3>1, <3>2
  <2> QED
    BY <2>2, <2>3, <2>4, <2>5 DEF OneRow
<1> QED
  BY <1>1, <1>2, KnowledgeHolds, PTL DEF Spec

(* Once start-up has deduplicated, no packet has two rows, although Insert   *)
(* reads and writes in two statements, and whatever is read or announced     *)
(* twice (bridge.go:88-122), if that one deduplication does not fail.        *)
THEOREM OneRowPerPacket ==
  ASSUME CleanStart
  PROVE  Spec => []UniqueHash
<1>1. OneRow => UniqueHash
  BY DEF OneRow
<1> QED
  BY <1>1, OneRowHolds, PTL

-----------------------------------------------------------------------------
(* The catch-ups: what a batch and its cursor have passed *)

LEMMA TrackedStays ==
  ASSUME TypeInv, [Next]_vars, NEW hash, Tracked(hash)
  PROVE  Tracked(hash)'
<1>1. PICK i \in DOMAIN transfers : HashOf(i) = hash
  BY DEF Tracked
<1>2. PacketKeepsRank(i)
  BY SystemStep, StepKeepsRanks DEF TypeInv, TypeOK
<1> QED
  BY <1>1, <1>2 DEF PacketKeepsRank, Tracked, HashOf

(* The LIMIT cuts a batch off at its end: between the cursor and a row of    *)
(* the batch no row of the table is left out.                                *)
LEMMA BatchHasNoGaps ==
  ASSUME NEW table, NEW cursor \in Nat, NEW r \in BatchAfter(table, cursor),
         NEW k \in InTable(table), k < r
  PROVE  k <= cursor \/ k \in BatchAfter(table, cursor)
<1> DEFINE beyond == {i \in InTable(table) : i > cursor}
           beforeR == {j \in beyond : j < r}
           beforeK == {j \in beyond : j < k}
<1>1. Id \subseteq Nat /\ BatchSize \in Nat
  BY StoreAssumption, RelayerAssumption
<1>2. r \in beyond /\ Cardinality(beforeR) < BatchSize /\ r \in Nat /\ k \in Nat
  BY <1>1 DEF BatchAfter, InTable
<1>3. ASSUME k \in beyond, Cardinality(beforeK) < BatchSize
      PROVE  k \in BatchAfter(table, cursor)
  BY <1>3 DEF BatchAfter
<1>4. \A j \in beforeR : j \in 0..r
  BY <1>1, <1>2 DEF InTable
<1>5. \A j \in beforeK : j \in beforeR
  BY <1>1, <1>2 DEF InTable
<1>6. CASE k \in beyond
  <2> HIDE DEF beyond, beforeR, beforeK
  <2>1. beforeR \subseteq 0..r /\ beforeK \subseteq beforeR
    BY <1>4, <1>5
  <2>2. IsFiniteSet(0..r)
    BY <1>2, FS_Interval
  <2>3. IsFiniteSet(beforeR)
    BY <2>1, <2>2, FS_Subset
  <2>4. IsFiniteSet(beforeK) /\ Cardinality(beforeK) <= Cardinality(beforeR)
    BY <2>1, <2>3, FS_Subset
  <2>5. Cardinality(beforeR) \in Nat /\ Cardinality(beforeK) \in Nat
    BY <2>3, <2>4, FS_CardinalityType
  <2>6. Cardinality(beforeK) < BatchSize
    BY <1>1, <1>2, <2>4, <2>5
  <2> QED
    BY <1>3, <1>6, <2>6
<1> QED
  BY <1>2, <1>6

(* The cursors are written by the ends of the two batches only. *)
LEMMA OnlyCursorStatements ==
  ASSUME [Next]_vars
  PROVE  QueueSetCursor \/ FailedSetCursor \/ UNCHANGED cursors
BY DEF Next, MainStep, Dedupe, BootDone, BootFailed, StartListeners, PollDetected, PollQueue,
       PollMark, QueueTurn, QueueStep, QueueConnect, QueueLost, QueueNotify, QueueFind,
       QueueInsert, QueueSync, QueueRow, DoneTurn, DoneStep, DoneConnect, DoneLost,
       DoneNotify, DoneFind, DoneApply, DoneSync, DoneScan, DoneRow, FailedTurn, FailedStep,
       FailedConnect, FailedLost, FailedNotify, FailedDirect, FailedFind, FailedPromise,
       FailedTrace, FailedAncestor, FailedSync, FailedRow, RelayerTurn, ConnectionLost,
       Crash, storeVars, vars

-----------------------------------------------------------------------------
(* The queue cursor *)

(* Queue rows are visible in the order of their ids. *)
BornInOrder ==
  \A i, j \in Id : i < j /\ place[j] # "unborn" => place[i] # "unborn"

QueueInOrder ==
  /\ "queue" \in InOrder
  /\ \A i, j \in Id : i < j /\ Place0[j] # "unborn" => Place0[i] # "unborn"

Accounted(k) == place[k] = "queue" => IsKnown(k)

(* All rows up to n are accounted for, and none will come. *)
QueueSoundTo(n) ==
  /\ n \in Id => place[n] # "unborn"
  /\ \A k \in Id : k <= n => Accounted(k)

QueueHand == IF queueTask.pc \in {"find", "insert"} THEN {queueTask.id} ELSE {}

(* A batch is read in the order of ids: what is before a row of it is in the *)
(* batch as well, in hand, or accounted for.                                 *)
QueueBatchSound ==
  /\ QueueSoundTo(queueTask.lastID)
  /\ \A r \in queueTask.rows : \A k \in Id :
       k < r => k \in queueTask.rows \cup QueueHand \/ Accounted(k)
  /\ queueTask.via = "sync" =>
       \A r \in QueueHand : \A k \in Id : k < r => Accounted(k)

QueueSound ==
  BornInOrder /\ QueueSoundTo(cursors["queue"]) /\ QueueBatchSound

LEMMA BornInOrderKept ==
  ASSUME TypeInv, [Next]_vars, QueueInOrder, BornInOrder
  PROVE  BornInOrder'
<1>1. RelayerTypeOK /\ Id \subseteq Nat
  BY StoreAssumption DEF TypeInv, TypeOK
<1>2. CASE UNCHANGED place
  BY <1>2 DEF BornInOrder
<1>3. ASSUME NEW i \in Id, Enqueue(i)
      PROVE  BornInOrder'
  <2>1. \A j \in Id : place'[j] = IF j = i THEN "queue" ELSE place[j]
    BY <1>1, <1>3 DEF Enqueue, InsertInto, RelayerTypeOK
  <2>2. \A j \in Id : j < i => place[j] # "unborn"
    BY <1>3 DEF Enqueue, QueueInOrder
  <2> QED
    BY <1>1, <2>1, <2>2 DEF BornInOrder
<1>4. ASSUME NEW i \in Id, Complete(i) \/ Fail(i)
      PROVE  BornInOrder'
  <2>1. PICK table \in {"done", "failed"} :
          \A j \in Id : place'[j] = IF j = i THEN table ELSE place[j]
    BY <1>1, <1>4 DEF Complete, Fail, InsertInto, RelayerTypeOK
  <2>2. place[i] # "unborn"
    BY <1>4 DEF Complete, Fail
  <2> QED
    BY <2>1, <2>2 DEF BornInOrder
<1>5. CASE RelayerTurn
  BY <1>2, <1>3, <1>4, <1>5 DEF RelayerTurn, RelayerStep, Tick
<1> QED
  BY <1>2, <1>5, IndexerReadsOnly DEF Next

(* What is accounted for before a visible row stays accounted for. *)
LEMMA AccountedStays ==
  ASSUME TypeInv, [Next]_vars, BornInOrder,
         NEW n \in Id, place[n] # "unborn", NEW k \in Id, k <= n, Accounted(k)
  PROVE  Accounted(k)'
<1>1. place[k] # "unborn" /\ place \in [Id -> Places]
  <2>1. k \in Nat /\ n \in Nat
    BY StoreAssumption
  <2>2. k = n \/ k < n
    BY <2>1
  <2> QED
    BY <2>2 DEF BornInOrder, TypeInv, TypeOK, RelayerTypeOK
<1>2. place'[k] = "queue" => place[k] = "queue"
  BY <1>1, TablesMoveForward DEF MovesForward, Places
<1> QED
  BY <1>2, TrackedStays DEF Accounted, IsKnown

LEMMA QueueSoundToStays ==
  ASSUME TypeInv, [Next]_vars, BornInOrder, NEW n \in Id \cup {0}, QueueSoundTo(n)
  PROVE  QueueSoundTo(n)'
<1>1. Id \subseteq Nat \ {0}
  BY StoreAssumption
<1>2. CASE n = 0
  BY <1>1, <1>2 DEF QueueSoundTo
<1>3. CASE n \in Id
  BY <1>3, AccountedStays, TablesMoveForward DEF QueueSoundTo, MovesForward
<1> QED
  BY <1>2, <1>3

(* A row is done with once its packet has been found, or inserted. *)
LEMMA HandAccounted ==
  ASSUME TypeInv, queueTask.id \in Id,
         \A b \in QueueBridge(queueTask.id) : Tracked(b.packet_hash)'
  PROVE  \A k \in Id : k = queueTask.id => Accounted(k)'
BY DEF Accounted, QueueBridge, IsKnown

LEMMA FoundIsTracked ==
  ASSUME TypeInv, NEW b \in QueueBridge(queueTask.id),
         NEW e \in ExistingFor(b.packet_hash),
         ~(e = 0 \/ Outranks(Detected, transfers[e].status))
  PROVE  \A c \in QueueBridge(queueTask.id) : Tracked(c.packet_hash)
<1>1. Tracked(b.packet_hash)
  BY DEF ExistingFor, OrNone, Tracked
<1>2. \A c \in QueueBridge(queueTask.id) : c.packet_hash = b.packet_hash
  BY DEF QueueBridge, Parse, BuildBridge
<1> QED
  BY <1>1, <1>2

(* A row has the id of the queue row its packet came from. *)
RowsOwn ==
  \A i \in DOMAIN transfers : \A b \in Parse(Item[i]) : HashOf(i) = b.packet_hash

Rows0Own ==
  \A i \in DOMAIN Rows0 : \A b \in Parse(Item[i]) : Rows0[i].bridge.packet_hash = b.packet_hash

LEMMA RowsOwnKept ==
  ASSUME TypeInv, [Next]_vars, RowsOwn
  PROVE  RowsOwn'
<1> SUFFICES ASSUME NEW i \in DOMAIN transfers', NEW b \in Parse(Item[i])
             PROVE  transfers'[i].bridge.packet_hash = b.packet_hash
  BY DEF RowsOwn, HashOf
<1>1. CASE RowChange(i)
  BY <1>1 DEF RowChange, RowsOwn, HashOf
<1>2. CASE Inserted(i)
  BY <1>2 DEF Inserted, QueueBridge, Parse, BuildBridge
<1> QED
  BY <1>1, <1>2, SystemRowChanges DEF RowChanges

LEMMA InsertTracks ==
  ASSUME RowsOwn, NEW b \in QueueBridge(queueTask.id), NEW t,
         InsertWrite(queueTask.id, NewRow(b, t), 0)
  PROVE  \A c \in QueueBridge(queueTask.id) : Tracked(c.packet_hash)'
<1> SUFFICES ASSUME NEW c \in QueueBridge(queueTask.id)
             PROVE  Tracked(c.packet_hash)'
  OBVIOUS
<1> DEFINE id == queueTask.id
<1>1. InsertRow(id, NewRow(b, t))
  BY DEF InsertWrite
<1>2. id \in DOMAIN transfers'
  BY <1>1 DEF InsertRow
<1>3. transfers'[id].bridge.packet_hash = c.packet_hash
  <2>1. CASE id \in DOMAIN transfers
    BY <1>1, <2>1 DEF InsertRow, RowsOwn, HashOf, QueueBridge
  <2>2. CASE id \notin DOMAIN transfers
    <3>1. transfers'[id] = NewRow(b, t)
      BY <1>1, <2>2 DEF InsertRow
    <3>2. c.packet_hash = b.packet_hash
      BY DEF QueueBridge, Parse, BuildBridge
    <3> QED
      BY <3>1, <3>2 DEF NewRow
  <2> QED
    BY <2>1, <2>2
<1>4. PICK j \in DOMAIN transfers' : transfers'[j].bridge.packet_hash = c.packet_hash
  BY <1>2, <1>3
<1> QED
  BY <1>4 DEF Tracked, HashOf

LEMMA QueueBatchStep ==
  ASSUME Knowledge, QueueStep, [Next]_vars, UNCHANGED place, QueueSound, RowsOwn
  PROVE  QueueBatchSound'
<1>1. /\ TypeInv /\ QueueKnows /\ BornInOrder
      /\ queueTask \in QueueTasks /\ queueTask.rows \subseteq Id /\ Id \subseteq Nat \ {0}
      /\ queueTask.lastID \in Id \cup {0}
  BY StoreAssumption DEF Knowledge, TypeInv, TypeOK, QueueTasks, QueueSound
<1>2. \A k \in Id : Accounted(k) => Accounted(k)'
  BY <1>1, TrackedStays DEF Accounted, IsKnown
<1>3. \A n \in Id \cup {0} : QueueSoundTo(n) => QueueSoundTo(n)'
  BY <1>1, QueueSoundToStays
<1>4. QueueSoundTo(0)'
  BY <1>1 DEF QueueSoundTo
<1>5. ASSUME queueTask'.rows = {}, queueTask'.lastID = 0,
             queueTask'.via = "notify" \/ queueTask'.pc \notin {"find", "insert"}
      PROVE  QueueBatchSound'
  BY <1>4, <1>5 DEF QueueBatchSound, QueueHand, QueueSoundTo
<1>6. ASSUME NEW label \in {"sync", "connect", "wait"}, queueTask' = QueueAt(label)
      PROVE  QueueBatchSound'
  BY <1>5, <1>6 DEF QueueAt
<1>7. CASE UNCHANGED queueTask
  <2>1. PICK n \in Id \cup {0} : n = queueTask.lastID
    BY <1>1
  <2> QED
    BY <1>1, <1>2, <1>3, <1>7, <2>1 DEF QueueSound, QueueBatchSound, QueueHand, QueueSoundTo
<1>8. ASSUME QueueRowDone, queueTask.pc \in {"find", "insert"},
             \A b \in QueueBridge(queueTask.id) : Tracked(b.packet_hash)'
      PROVE  QueueBatchSound'
  <2>1. PICK i \in Id : i = queueTask.id
    BY <1>1, <1>8 DEF TypeInv, QueueLocalsOK
  <2>2. CASE queueTask.via # "sync"
    BY <1>6, <1>8, <2>2 DEF QueueRowDone
  <2>3. CASE queueTask.via = "sync"
    <3>1. queueTask' = [queueTask EXCEPT !.pc = "rows", !.lastID = queueTask.id,
                                         !.id = 0, !.existing = 0]
      BY <1>8, <2>3 DEF QueueRowDone
    <3>2. queueTask'.pc = "rows" /\ queueTask'.lastID = i /\ queueTask'.rows = queueTask.rows
      BY <1>1, <2>1, <3>1 DEF QueueTasks
    <3>3. Accounted(i)'
      BY <1>1, <1>8, <2>1, HandAccounted
    <3>4. \A k \in Id : k < i => Accounted(k)'
      BY <1>2, <1>8, <2>1, <2>3 DEF QueueSound, QueueBatchSound, QueueHand
    <3>5. \A k \in Id : k <= i => Accounted(k)'
      <4>1. \A k \in Id : k <= i => k < i \/ k = i
        BY <1>1
      <4> QED
        BY <3>3, <3>4, <4>1
    <3>6. place'[i] # "unborn"
      BY <1>1, <1>8, <2>1 DEF QueueKnows
    <3>7. QueueSoundTo(i)'
      BY <3>5, <3>6 DEF QueueSoundTo
    <3>8. \A r \in queueTask.rows : \A k \in Id :
            k < r => k \in queueTask.rows \/ k = i \/ Accounted(k)
      BY <1>8, <2>1 DEF QueueSound, QueueBatchSound, QueueHand
    <3> QED
      BY <1>1, <1>2, <3>2, <3>3, <3>7, <3>8 DEF QueueBatchSound, QueueHand, QueueSoundTo
  <2> QED
    BY <2>2, <2>3
<1>9. CASE QueueRowFailed
  BY <1>6, <1>9 DEF QueueRowFailed, QueueGoto
<1>10. CASE QueueConnect \/ QueueLost \/ QueueSetCursor
  BY <1>6, <1>10 DEF QueueConnect, QueueLost, QueueSetCursor, QueueGoto
<1>11. CASE QueueNotify
  <2>1. ASSUME NEW i, queueTask' = [QueueAt("find") EXCEPT !.id = i]
        PROVE  QueueBatchSound'
    BY <1>5, <2>1 DEF QueueAt
  <2> QED
    BY <1>7, <1>11, <2>1 DEF QueueNotify
<1>12. CASE QueueFind
  <2>1. ASSUME NEW e, queueTask' = [queueTask EXCEPT !.pc = "insert", !.existing = e]
        PROVE  QueueBatchSound'
    <3>1. /\ queueTask'.pc = "insert" /\ queueTask.pc = "find"
          /\ queueTask'.id = queueTask.id /\ queueTask'.via = queueTask.via
          /\ queueTask'.rows = queueTask.rows /\ queueTask'.lastID = queueTask.lastID
      BY <1>1, <1>12, <2>1 DEF QueueFind, QueueTasks
    <3>2. PICK n \in Id \cup {0} : n = queueTask.lastID
      BY <1>1
    <3> QED
      BY <1>1, <1>2, <1>3, <3>1, <3>2 DEF QueueSound, QueueBatchSound, QueueHand, QueueSoundTo
  <2>2. ASSUME NEW b \in QueueBridge(queueTask.id), NEW e \in ExistingFor(b.packet_hash),
               ~(e = 0 \/ Outranks(Detected, transfers[e].status)), QueueRowDone
        PROVE  QueueBatchSound'
    <3>1. \A c \in QueueBridge(queueTask.id) : Tracked(c.packet_hash)
      BY <1>1, <2>2, FoundIsTracked
    <3>2. \A c \in QueueBridge(queueTask.id) : Tracked(c.packet_hash)'
      BY <1>1, <3>1, TrackedStays
    <3> QED
      BY <1>8, <1>12, <2>2, <3>2 DEF QueueFind
  <2> QED
    BY <1>9, <1>12, <2>1, <2>2 DEF QueueFind
<1>13. CASE QueueInsert
  <2>1. queueTask.pc = "insert" /\ queueTask.existing = 0
    BY <1>1, <1>13 DEF QueueInsert, TypeInv, QueueLocalsOK
  <2>2. ASSUME NEW b \in QueueBridge(queueTask.id),
               InsertWrite(queueTask.id, NewRow(b, at[queueTask.id].queue), queueTask.existing),
               QueueRowDone
        PROVE  QueueBatchSound'
    BY <1>8, <2>1, <2>2, InsertTracks
  <2> QED
    BY <1>9, <1>13, <2>2 DEF QueueInsert
<1>14. CASE QueueSync
  <2> DEFINE cursor == GetCursor("queue")
             batch == BatchAfter("queue", cursor)
  <2>1. CASE queueTask' = [QueueAt("rows") EXCEPT !.via = "sync", !.rows = batch]
    <3>1. /\ queueTask'.pc = "rows" /\ queueTask'.rows = batch /\ queueTask'.lastID = 0
      BY <2>1 DEF QueueAt
    <3>2. cursor \in Nat /\ QueueSoundTo(cursor)
      BY <1>1 DEF GetCursor, TypeInv, TypeOK, StoreTypeOK, CursorNames, QueueSound
    <3>3. ASSUME NEW r \in batch, NEW k \in Id, k < r
          PROVE  k \in batch \/ Accounted(k)
      <4>1. CASE place[k] = "queue"
        <5>1. k <= cursor \/ k \in batch
          BY <3>2, <3>3, <4>1, BatchHasNoGaps DEF InTable
        <5> QED
          BY <3>2, <5>1 DEF QueueSoundTo
      <4>2. CASE place[k] # "queue"
        BY <4>2 DEF Accounted, IsKnown
      <4> QED
        BY <4>1, <4>2
    <3> HIDE DEF batch, cursor
    <3> QED
      BY <1>2, <1>4, <3>1, <3>3 DEF QueueBatchSound, QueueHand, QueueSoundTo
  <2> QED
    BY <1>6, <1>14, <2>1 DEF QueueSync, QueueGoto
<1>15. CASE QueueRow
  <2>1. QueueHand = {} /\ queueTask.pc = "rows"
    BY <1>15 DEF QueueRow, QueueHand
  <2>2. ASSUME NEW i \in Id, IsNext(i, queueTask.rows)
        PROVE  /\ \A k \in Id : k < i => Accounted(k)'
               /\ \A r \in queueTask.rows : \A k \in Id :
                    k < r => k \in queueTask.rows \/ Accounted(k)'
    <3>1. \A k \in Id : k < i => k \notin queueTask.rows
      BY <1>1, <2>2 DEF IsNext
    <3> QED
      BY <1>2, <2>1, <2>2, <3>1 DEF IsNext, QueueSound, QueueBatchSound
  <2>3. ASSUME NEW i \in Id, IsNext(i, queueTask.rows), QueueBridge(i) = {},
               queueTask' = [queueTask EXCEPT !.rows = @ \ {i}, !.lastID = i]
        PROVE  QueueBatchSound'
    <3>1. /\ queueTask'.pc = "rows" /\ queueTask'.rows = queueTask.rows \ {i}
          /\ queueTask'.lastID = i
      BY <1>1, <2>1, <2>3 DEF QueueTasks
    <3>2. Accounted(i)'
      BY <2>3 DEF QueueBridge, Accounted, IsKnown
    <3>3. \A k \in Id : k <= i => k < i \/ k = i
      BY <1>1
    <3>4. place'[i] # "unborn"
      BY <1>1, <2>3 DEF QueueKnows, IsNext
    <3>5. QueueSoundTo(i)'
      BY <2>2, <2>3, <3>2, <3>3, <3>4 DEF QueueSoundTo
    <3> QED
      BY <2>2, <2>3, <3>1, <3>2, <3>5 DEF QueueBatchSound, QueueHand, QueueSoundTo
  <2>4. ASSUME NEW i \in Id, IsNext(i, queueTask.rows),
               queueTask' = [queueTask EXCEPT !.rows = @ \ {i}, !.pc = "find", !.id = i]
        PROVE  QueueBatchSound'
    <3>1. /\ queueTask'.pc = "find" /\ queueTask'.rows = queueTask.rows \ {i}
          /\ queueTask'.id = i /\ queueTask'.lastID = queueTask.lastID
      BY <1>1, <2>1, <2>4 DEF QueueTasks
    <3>2. PICK n \in Id \cup {0} : n = queueTask.lastID
      BY <1>1
    <3>3. QueueSoundTo(n)'
      BY <1>3, <3>2 DEF QueueSound, QueueBatchSound
    <3> QED
      BY <2>2, <2>4, <3>1, <3>2, <3>3 DEF QueueBatchSound, QueueHand, QueueSoundTo
  <2>5. CASE queueTask' = [QueueAt("cursor") EXCEPT !.lastID = queueTask.lastID]
    <3>1. queueTask'.pc = "cursor" /\ queueTask'.rows = {}
          /\ queueTask'.lastID = queueTask.lastID
      BY <2>5 DEF QueueAt
    <3>2. PICK n \in Id \cup {0} : n = queueTask.lastID
      BY <1>1
    <3>3. QueueSoundTo(n)'
      BY <1>3, <3>2 DEF QueueSound, QueueBatchSound
    <3> QED
      BY <3>1, <3>2, <3>3 DEF QueueBatchSound, QueueHand, QueueSoundTo
  <2> QED
    BY <1>6, <1>15, <2>3, <2>4, <2>5 DEF QueueRow, QueueGoto
<1> QED
  BY <1>10, <1>11, <1>12, <1>13, <1>14, <1>15 DEF QueueStep

LEMMA QueueSoundKept ==
  ASSUME Knowledge, [Next]_vars, QueueInOrder, QueueSound, RowsOwn
  PROVE  QueueSound'
<1>1. TypeInv /\ QueueKnows /\ BornInOrder /\ Id \subseteq Nat \ {0}
      /\ queueTask.lastID \in Id \cup {0} /\ queueTask.rows \subseteq Id
      /\ cursors["queue"] \in Id \cup {0}
  BY StoreAssumption
  DEF Knowledge, TypeInv, TypeOK, QueueTasks, StoreTypeOK, CursorNames, QueueSound
<1>2. PICK n \in Id \cup {0} : n = queueTask.lastID
  BY <1>1
<1>3. PICK c \in Id \cup {0} : c = cursors["queue"]
  BY <1>1
<1>4. QueueSoundTo(n)' /\ QueueSoundTo(c)'
  BY <1>1, <1>2, <1>3, QueueSoundToStays DEF QueueSound, QueueBatchSound
<1>5. BornInOrder'
  BY <1>1, BornInOrderKept
<1>6. QueueSoundTo(cursors["queue"])'
  <2>1. cursors'["queue"] = c \/ cursors'["queue"] = n
    <3>1. CASE QueueSetCursor
      BY <1>1, <1>2, <1>3, <3>1
      DEF QueueSetCursor, SetCursor, TypeInv, TypeOK, StoreTypeOK, CursorNames
    <3>2. CASE FailedSetCursor
      BY <1>1, <1>3, <3>2
      DEF FailedSetCursor, SetCursor, TypeInv, TypeOK, StoreTypeOK, CursorNames
    <3>3. CASE UNCHANGED cursors
      BY <1>3, <3>3
    <3> QED
      BY <3>1, <3>2, <3>3, OnlyCursorStatements
  <2> QED
    BY <1>4, <2>1 DEF QueueSoundTo
<1>7. QueueBatchSound'
  <2>1. CASE QueueTurn
    BY <1>1, <2>1, QueueBatchStep, IndexerReadsOnly DEF QueueTurn
  <2>2. CASE QueueGoto("sync") \/ QueueGoto("off")
    BY <1>1, <2>2 DEF QueueGoto, QueueAt, QueueBatchSound, QueueHand, QueueSoundTo
  <2>3. CASE UNCHANGED queueTask
    <3>1. ASSUME NEW r \in queueTask.rows \cup QueueHand, NEW k \in Id, k < r, Accounted(k)
          PROVE  Accounted(k)'
      <4>1. r \in Id /\ place[r] # "unborn"
        BY <1>1 DEF QueueHand, QueueKnows, TypeInv, QueueLocalsOK
      <4>2. k <= r
        <5>1. k \in Nat /\ r \in Nat
          BY <1>1, <4>1
        <5> QED
          BY <3>1, <5>1
      <4> QED
        BY <1>1, <3>1, <4>1, <4>2, AccountedStays
    <3>2. QueueHand' = QueueHand
      BY <2>3 DEF QueueHand
    <3> QED
      BY <1>2, <1>4, <2>3, <3>1, <3>2 DEF QueueSound, QueueBatchSound, QueueSoundTo
  <2> QED
    BY <2>1, <2>2, <2>3
    DEF Next, MainStep, Dedupe, BootDone, BootFailed, StartListeners, PollDetected, PollQueue,
        PollMark, DoneTurn, FailedTurn, RelayerTurn, ConnectionLost, Crash, vars, tasks
<1> QED
  BY <1>5, <1>6, <1>7 DEF QueueSound

(* When queue rows become visible in the order of their ids, no packet at or *)
(* below the queue cursor that is still in queue is forgotten: the batch has *)
(* no gaps, an insert that fails ends it before the row, and the cursor is   *)
(* written last (sync.go:17-56).                                             *)
THEOREM QueueCursorIsSound ==
  ASSUME QueueInOrder, Rows0Own
  PROVE  Spec => []QueueCursorSound
<1>1. Init => QueueSound /\ RowsOwn
  <2> SUFFICES ASSUME Init PROVE QueueSound /\ RowsOwn
    OBVIOUS
  <2>1. Id \subseteq Nat \ {0}
    BY StoreAssumption
  <2>2. RowsOwn
    BY DEF Init, StoreInit, Rows0Own, RowsOwn, HashOf
  <2>3. BornInOrder
    BY DEF Init, RelayerInit, QueueInOrder, BornInOrder
  <2>4. cursors["queue"] = 0 /\ queueTask = QueueAt("off")
    BY DEF Init, StoreInit, CursorNames
  <2>5. QueueSoundTo(0)
    BY <2>1 DEF QueueSoundTo
  <2>6. QueueBatchSound
    BY <2>4, <2>5 DEF QueueAt, QueueBatchSound, QueueHand
  <2> QED
    BY <2>2, <2>3, <2>4, <2>5, <2>6 DEF QueueSound
<1>2. Knowledge /\ QueueSound /\ RowsOwn /\ [Next]_vars => QueueSound' /\ RowsOwn'
  BY QueueSoundKept, RowsOwnKept DEF Knowledge
<1>3. QueueSound => QueueCursorSound
  BY DEF QueueSound, QueueSoundTo, Accounted, QueueCursorSound
<1> QED
  BY <1>1, <1>2, <1>3, KnowledgeHolds, PTL DEF Spec

-----------------------------------------------------------------------------
(* The failed cursor *)

(* The argument is about any set W of items that fail only once they are     *)
(* known: none of them, one of them, or all.                                 *)
FailIsKnown(W) ==
  \A i \in W : place[i] = "queue" /\ place'[i] = "failed" => IsKnown(i)

Settled(k) ==
  place[k] = "failed" /\ k \in DOMAIN transfers => transfers[k].status \in Terminal

FailedSoundTo(n, W) ==
  /\ n \in Id => place[n] = "failed"
  /\ \A k \in W : k <= n => Settled(k)

FailedHand == IF failedTask.pc = "direct" THEN {failedTask.id} ELSE {}

FailedBatchSound(W) ==
  /\ FailedSoundTo(failedTask.lastID, W)
  /\ \A r \in failedTask.rows : \A k \in W :
       k < r => k \in failedTask.rows \cup FailedHand \/ Settled(k)
  /\ failedTask.via = "sync" =>
       \A r \in FailedHand : \A k \in W : k < r => Settled(k)

(* A row the queue worker holds may leave queue under its hands; no row of W *)
(* that has failed is inserted then, since its packet is tracked.            *)
HandTracked(W) ==
  \A k \in W \cap (queueTask.rows \cup QueueHand) : place[k] = "failed" => IsKnown(k)

FailedSound(W) ==
  /\ QueueAloneInserts /\ HandTracked(W)
  /\ FailedSoundTo(cursors["failed"], W) /\ FailedBatchSound(W)

(* What the queue worker takes in hand was in queue when it was read. *)
LEMMA NewInHand ==
  ASSUME TypeInv, QueueStep
  PROVE  \A k \in (queueTask.rows \cup QueueHand)' :
           k \in queueTask.rows \cup QueueHand \/ place[k] = "queue"
<1>1. queueTask \in QueueTasks
  BY DEF TypeInv, TypeOK
<1>2. ASSUME NEW label, label \notin {"find", "insert"}, queueTask' = QueueAt(label)
      PROVE  (queueTask.rows \cup QueueHand)' = {}
  BY <1>2 DEF QueueAt, QueueHand
<1>3. CASE QueueRowDone \/ QueueRowFailed
  <2>1. CASE QueueRowDone /\ queueTask.via = "sync"
    BY <1>1, <2>1 DEF QueueRowDone, QueueTasks, QueueHand
  <2> QED
    BY <1>2, <1>3, <2>1 DEF QueueRowDone, QueueRowFailed, QueueGoto
<1>4. CASE QueueFind
  BY <1>1, <1>3, <1>4 DEF QueueFind, QueueTasks, QueueHand
<1>5. CASE QueueInsert
  BY <1>3, <1>5 DEF QueueInsert
<1>6. CASE QueueConnect \/ QueueLost \/ QueueSetCursor
  BY <1>2, <1>6 DEF QueueConnect, QueueLost, QueueSetCursor, QueueGoto
<1>7. CASE QueueNotify
  <2>1. ASSUME NEW i, place[i] = "queue", queueTask' = [QueueAt("find") EXCEPT !.id = i]
        PROVE  \A k \in (queueTask.rows \cup QueueHand)' : place[k] = "queue"
    BY <2>1 DEF QueueAt, QueueHand
  <2> QED
    BY <1>7, <2>1 DEF QueueNotify, QueueHand
<1>8. CASE QueueSync
  <2>1. \A i \in BatchAfter("queue", GetCursor("queue")) : place[i] = "queue"
    BY DEF BatchAfter, InTable
  <2>2. ASSUME NEW S, \A i \in S : place[i] = "queue",
               queueTask' = [QueueAt("rows") EXCEPT !.via = "sync", !.rows = S]
        PROVE  \A k \in (queueTask.rows \cup QueueHand)' : place[k] = "queue"
    BY <2>2 DEF QueueAt, QueueHand
  <2> QED
    BY <1>2, <1>8, <2>1, <2>2 DEF QueueSync, QueueGoto
<1>9. CASE QueueRow
  <2>1. ASSUME NEW i \in queueTask.rows,
               \/ queueTask' = [queueTask EXCEPT !.rows = @ \ {i}, !.lastID = i]
               \/ queueTask' = [queueTask EXCEPT !.rows = @ \ {i}, !.pc = "find", !.id = i]
        PROVE  (queueTask.rows \cup QueueHand)' \subseteq queueTask.rows
    <3>1. queueTask.pc = "rows"
      BY <1>9 DEF QueueRow
    <3> QED
      BY <1>1, <2>1, <3>1 DEF QueueTasks, QueueHand
  <2>2. ASSUME NEW n, queueTask' = [QueueAt("cursor") EXCEPT !.lastID = n]
        PROVE  (queueTask.rows \cup QueueHand)' = {}
    BY <2>2 DEF QueueAt, QueueHand
  <2> QED
    BY <1>2, <1>9, <2>1, <2>2 DEF QueueRow, QueueGoto, IsNext
<1> QED
  BY <1>4, <1>5, <1>6, <1>7, <1>8, <1>9 DEF QueueStep

LEMMA KnownStays ==
  ASSUME TypeInv, [Next]_vars, NEW i \in Id, IsKnown(i)
  PROVE  IsKnown(i)'
BY TrackedStays DEF IsKnown

LEMMA HandTrackedKept ==
  ASSUME Knowledge, [Next]_vars, NEW W \in SUBSET Id, [FailIsKnown(W)]_vars, HandTracked(W)
  PROVE  HandTracked(W)'
<1> SUFFICES ASSUME NEW k \in W, k \in (queueTask.rows \cup QueueHand)', place'[k] = "failed"
             PROVE  IsKnown(k)'
  BY DEF HandTracked
<1>1. TypeInv /\ QueueKnows /\ queueTask \in QueueTasks /\ place \in [Id -> Places]
  BY DEF Knowledge, TypeInv, TypeOK, RelayerTypeOK
<1>2. IsKnown(k) => IsKnown(k)'
  BY <1>1, KnownStays
<1>3. CASE k \in queueTask.rows \cup QueueHand
  <2>1. k \in Id /\ place[k] # "unborn"
    BY <1>1, <1>3 DEF QueueHand, QueueKnows, TypeInv, QueueLocalsOK, QueueTasks
  <2>2. place[k] = "failed" \/ place[k] = "queue"
    BY <1>1, <2>1, TablesMoveForward DEF MovesForward, Places
  <2>3. CASE place[k] = "failed"
    BY <1>2, <1>3, <2>3 DEF HandTracked
  <2>4. CASE place[k] = "queue"
    BY <1>2, <2>1, <2>4 DEF FailIsKnown, vars, relayerVars
  <2> QED
    BY <2>2, <2>3, <2>4
<1>4. CASE k \notin queueTask.rows \cup QueueHand
  <2>1. CASE QueueTurn
    <3>1. place[k] = "queue"
      BY <1>1, <1>4, <2>1, NewInHand DEF QueueTurn
    <3>2. UNCHANGED place
      BY <1>1, <2>1, IndexerReadsOnly
    <3> QED
      BY <3>1, <3>2
  <2>2. CASE QueueGoto("sync") \/ QueueGoto("off")
    BY <2>2 DEF QueueGoto, QueueAt, QueueHand
  <2>3. CASE UNCHANGED queueTask
    BY <1>4, <2>3 DEF QueueHand
  <2> QED
    BY <2>1, <2>2, <2>3
    DEF Next, MainStep, Dedupe, BootDone, BootFailed, StartListeners, PollDetected, PollQueue,
        PollMark, DoneTurn, FailedTurn, RelayerTurn, ConnectionLost, Crash, vars, tasks
<1> QED
  BY <1>3, <1>4

(* No transfer of W appears whose item has failed. *)
LEMMA NoneFailsLate ==
  ASSUME Knowledge, [Next]_vars, QueueAloneInserts, NEW W \in SUBSET Id, HandTracked(W),
         NEW i \in W, i \in DOMAIN transfers', place[i] = "failed"
  PROVE  i \in DOMAIN transfers
<1>1. ~Inserted(i)
  <2> SUFFICES ASSUME Inserted(i) PROVE FALSE
    OBVIOUS
  <2>1. PICK b \in QueueBridge(i) : TRUE
    BY DEF Inserted
  <2>2. Tracked(b.packet_hash)
    BY <2>1 DEF Inserted, HandTracked, IsKnown, QueueHand, QueueBridge
  <2> QED
    BY <2>1, <2>2 DEF Inserted, QueueAloneInserts, Tracked
<1> QED
  BY <1>1, SystemRowChanges DEF Knowledge, RowChanges, RowChange

LEMMA SettledStays ==
  ASSUME Knowledge, [Next]_vars, QueueAloneInserts, NEW W \in SUBSET Id, HandTracked(W),
         NEW k \in W, Settled(k), place'[k] = "failed" => place[k] = "failed"
  PROVE  Settled(k)'
<1> SUFFICES ASSUME place'[k] = "failed", k \in DOMAIN transfers'
             PROVE  transfers'[k].status \in Terminal
  BY DEF Settled
<1>1. k \in DOMAIN transfers /\ transfers[k].status \in Terminal
  BY NoneFailsLate DEF Settled
<1>2. WriteTransfers \/ UNCHANGED transfers
  BY SystemStep DEF Knowledge, StoreNext, storeVars
<1>3. RowStaysTerminal(k)
  BY <1>1, <1>2, WriteKeepsRows DEF Knowledge, TypeInv, TypeOK, RowStaysTerminal
<1> QED
  BY <1>1, <1>3 DEF RowStaysTerminal

(* Rows enter failed in the order of their ids. *)
LEMMA FailsInOrder ==
  ASSUME TypeInv, [Next]_vars, "failed" \in InOrder,
         NEW n \in Id, place[n] = "failed", NEW k \in Id, k <= n, place'[k] = "failed"
  PROVE  place[k] = "failed"
<1>1. Id \subseteq Nat /\ RelayerTypeOK
  BY StoreAssumption DEF TypeInv, TypeOK
<1>2. CASE UNCHANGED place
  BY <1>2
<1>3. ASSUME NEW i \in Id, Enqueue(i) \/ Complete(i)
      PROVE  place[k] = "failed"
  <2>1. PICK table \in {"queue", "done"} : place' = [place EXCEPT ![i] = table]
    BY <1>3 DEF Enqueue, Complete, InsertInto
  <2> QED
    BY <1>1, <2>1 DEF RelayerTypeOK
<1>4. ASSUME NEW i \in Id, Fail(i)
      PROVE  place[k] = "failed"
  <2>1. place' = [place EXCEPT ![i] = "failed"] /\ place[i] = "queue" /\ ~(n > i)
    BY <1>4 DEF Fail, InsertInto
  <2>2. CASE k = i
    <3>1. n = i
      BY <1>1, <2>1, <2>2
    <3> QED
      BY <2>1, <3>1
  <2> QED
    BY <1>1, <2>1, <2>2 DEF RelayerTypeOK
<1>5. CASE RelayerTurn
  BY <1>2, <1>3, <1>4, <1>5 DEF RelayerTurn, RelayerStep, Tick
<1> QED
  BY <1>2, <1>5, IndexerReadsOnly DEF Next

LEMMA SettledBefore ==
  ASSUME Knowledge, [Next]_vars, "failed" \in InOrder, QueueAloneInserts,
         NEW W \in SUBSET Id, HandTracked(W),
         NEW n \in Id, place[n] = "failed", NEW k \in W, k <= n, Settled(k)
  PROVE  Settled(k)'
BY FailsInOrder, SettledStays DEF Knowledge

LEMMA FailedSoundToStays ==
  ASSUME Knowledge, [Next]_vars, "failed" \in InOrder, QueueAloneInserts,
         NEW W \in SUBSET Id, HandTracked(W), NEW n \in Id \cup {0}, FailedSoundTo(n, W)
  PROVE  FailedSoundTo(n, W)'
<1>1. Id \subseteq Nat \ {0}
  BY StoreAssumption
<1>2. CASE n = 0
  BY <1>1, <1>2 DEF FailedSoundTo
<1>3. CASE n \in Id
  <2>1. place[n] = "failed" /\ \A k \in W : k <= n => Settled(k)
    BY <1>3 DEF FailedSoundTo
  <2>2. place'[n] = "failed"
    BY <1>3, <2>1, TablesMoveForward DEF Knowledge, MovesForward
  <2>3. \A k \in W : k <= n => Settled(k)'
    BY <1>3, <2>1, SettledBefore
  <2> QED
    BY <2>2, <2>3 DEF FailedSoundTo
<1> QED
  BY <1>2, <1>3

(* MarkFailed settles the row it is given, whatever it finds of it. *)
LEMMA MarkSettles ==
  ASSUME StoreTypeOK, NEW id \in Id, NEW m, NEW tx, MarkFailed(id, m, tx)
  PROVE  Settled(id)'
<1> SUFFICES ASSUME id \in DOMAIN transfers'
             PROVE  transfers'[id].status \in Terminal
  BY DEF Settled
<1>1. /\ id \in DOMAIN transfers /\ transfers[id] \in Row
      /\ transfers'[id] = IF InFlight(id)
                          THEN [transfers[id] EXCEPT !.status = Failed, !.err_msg = m,
                                  !.tx_in = TxInOr(transfers[id].tx_in, tx)]
                          ELSE transfers[id]
  BY DEF MarkFailed, StoreTypeOK
<1>2. CASE InFlight(id)
  BY <1>1, <1>2 DEF Row, Terminal
<1>3. CASE ~InFlight(id)
  BY <1>1, <1>3 DEF InFlight, Row, Status, Terminal, Detected, Processing, Done, Failed
<1> QED
  BY <1>2, <1>3

LEMMA FailedBatchStep ==
  ASSUME Knowledge, FailedStep, [Next]_vars, "failed" \in InOrder,
         NEW W \in SUBSET Id, FailedSound(W), UNCHANGED place
  PROVE  FailedBatchSound(W)'
<1>1. /\ TypeInv /\ HoldsFailed /\ StoreTypeOK
      /\ failedTask \in FailedTasks /\ failedTask.rows \subseteq Id
      /\ Id \subseteq Nat \ {0}
      /\ QueueAloneInserts /\ HandTracked(W) /\ FailedBatchSound(W)
  BY StoreAssumption DEF Knowledge, FailedKnows, TypeInv, TypeOK, FailedTasks, FailedSound
<1>2. \A k \in W : Settled(k) => Settled(k)'
  BY <1>1, SettledStays
<1>3. PICK n \in Id \cup {0} : n = failedTask.lastID
  BY <1>1 DEF FailedTasks
<1>4. FailedSoundTo(0, W)' /\ FailedSoundTo(n, W)'
  <2>1. FailedSoundTo(n, W)
    BY <1>1, <1>3 DEF FailedBatchSound
  <2>2. FailedSoundTo(n, W)'
    BY <1>1, <2>1, FailedSoundToStays
  <2>3. FailedSoundTo(0, W)'
    BY <1>1 DEF FailedSoundTo
  <2> QED
    BY <2>2, <2>3
<1>5. ASSUME failedTask'.rows = {}, failedTask'.lastID \in {0, n},
             failedTask'.via = "notify" \/ failedTask'.pc # "direct"
      PROVE  FailedBatchSound(W)'
  BY <1>4, <1>5 DEF FailedBatchSound, FailedHand, FailedSoundTo
<1>6. ASSUME NEW label, failedTask' = FailedAt(label)
      PROVE  FailedBatchSound(W)'
  BY <1>5, <1>6 DEF FailedAt
(* The row in hand is settled, or there is none. *)
<1>7. ASSUME failedTask.pc = "direct" =>
               \A k \in W : k = failedTask.id => Settled(k)',
             failedTask'.pc # "direct", failedTask'.rows = failedTask.rows,
             failedTask'.lastID = n
      PROVE  FailedBatchSound(W)'
  <2>1. \A r \in failedTask.rows : \A k \in W :
          k < r => k \in failedTask.rows \/ Settled(k)'
    BY <1>1, <1>2, <1>7 DEF FailedBatchSound, FailedHand
  <2> QED
    BY <1>4, <1>7, <2>1 DEF FailedBatchSound, FailedHand, FailedSoundTo
<1>8. ASSUME FailedNextRow(n), failedTask.pc # "direct"
      PROVE  FailedBatchSound(W)'
  <2>1. /\ failedTask'.pc = "rows" /\ failedTask'.rows = failedTask.rows
        /\ failedTask'.lastID = n
    BY <1>8 DEF FailedNextRow, FailedAt
  <2> QED
    BY <1>7, <1>8, <2>1
<1>9. CASE FailedEndBatch
  BY <1>3, <1>5, <1>6, <1>9 DEF FailedEndBatch, FailedAt
<1>10. CASE FailedConnect \/ FailedLost \/ FailedPromise \/ FailedSetCursor
  BY <1>6, <1>10
  DEF FailedConnect, FailedLost, FailedPromise, FailedSetCursor, FailedGoto
<1>11. CASE UNCHANGED failedTask
  <2>1. \A r \in failedTask.rows : \A k \in W :
          k < r => k \in failedTask.rows \cup FailedHand \/ Settled(k)'
    BY <1>1, <1>2 DEF FailedBatchSound
  <2>2. failedTask.via = "sync" =>
          \A r \in FailedHand : \A k \in W : k < r => Settled(k)'
    BY <1>1, <1>2 DEF FailedBatchSound
  <2> QED
    BY <1>3, <1>4, <1>11, <2>1, <2>2 DEF FailedBatchSound, FailedHand, FailedSoundTo
<1>12. CASE FailedNotify
  <2>1. ASSUME NEW i, failedTask' = [FailedAt("direct") EXCEPT !.id = i]
        PROVE  FailedBatchSound(W)'
    BY <1>5, <2>1 DEF FailedAt
  <2> QED
    BY <1>11, <1>12, <2>1 DEF FailedNotify
<1>13. CASE FailedDirect
  <2>1. PICK i \in Id : i = failedTask.id
    BY <1>1, <1>13 DEF FailedDirect, TypeInv, FailedLocalsOK
  <2>2. ASSUME MarkFailed(i, MessageOf(i), NoTx), AfterDirect(Matches(i))
        PROVE  FailedBatchSound(W)'
    <3>1. Settled(i)'
      BY <1>1, <2>2, MarkSettles
    <3>2. ASSUME failedTask.via = "sync"
          PROVE  FailedSoundTo(i, W)'
      <4>1. \A k \in W : k < i => Settled(k)'
        BY <1>1, <1>2, <1>13, <2>1, <3>2 DEF FailedBatchSound, FailedHand, FailedDirect
      <4>2. \A k \in W : k <= i => k < i \/ k = i
        BY <1>1
      <4>3. place'[i] = "failed"
        BY <1>1, <1>13, <2>1 DEF FailedDirect, HoldsFailed
      <4> QED
        BY <3>1, <4>1, <4>2, <4>3 DEF FailedSoundTo
    <3>3. \A r \in failedTask.rows : \A k \in W :
            k < r => k \in failedTask.rows \/ Settled(k)'
      BY <1>1, <1>2, <2>1, <3>1 DEF FailedBatchSound, FailedHand
    <3>4. ASSUME failedTask'.pc # "direct", failedTask'.rows = failedTask.rows,
                 failedTask'.lastID = i, failedTask.via = "sync"
          PROVE  FailedBatchSound(W)'
      BY <3>2, <3>3, <3>4 DEF FailedBatchSound, FailedHand, FailedSoundTo
    <3>5. CASE FailedNextRow(i) /\ failedTask.via = "sync"
      BY <3>4, <3>5 DEF FailedNextRow, FailedAt
    <3>6. CASE /\ failedTask' = [failedTask EXCEPT !.pc = "trace", !.lastID = i,
                                                   !.level = Parents[i]]
               /\ failedTask.via = "sync"
      <4>1. /\ failedTask'.pc = "trace" /\ failedTask'.rows = failedTask.rows
            /\ failedTask'.lastID = i
        BY <1>1, <3>6 DEF FailedTasks
      <4> QED
        BY <3>4, <3>6, <4>1
    <3>7. CASE failedTask' = [failedTask EXCEPT !.pc = "find"]
      <4>1. /\ failedTask'.pc = "find" /\ failedTask'.rows = failedTask.rows
            /\ failedTask'.lastID = n
        BY <1>1, <1>3, <3>7 DEF FailedTasks
      <4>2. \A k \in W : k = failedTask.id => Settled(k)'
        BY <2>1, <3>1
      <4> QED
        BY <1>7, <4>1, <4>2
    <3> QED
      BY <1>6, <2>1, <2>2, <3>5, <3>6, <3>7 DEF AfterDirect, FailedGoto
  <2> QED
    BY <1>6, <1>9, <1>13, <2>1, <2>2 DEF FailedDirect, FailedGoto
<1>14. CASE FailedFind
  <2>1. ASSUME NEW i, failedTask' = [failedTask EXCEPT !.pc = "promise", !.found = i]
        PROVE  FailedBatchSound(W)'
    <3>1. /\ failedTask'.pc = "promise" /\ failedTask.pc = "find"
          /\ failedTask'.rows = failedTask.rows /\ failedTask'.lastID = n
      BY <1>1, <1>3, <1>14, <2>1 DEF FailedTasks, FailedFind
    <3> QED
      BY <1>7, <3>1
  <2> QED
    BY <1>6, <1>14, <2>1 DEF FailedFind, FailedGoto
<1>15. CASE FailedTrace
  <2>1. failedTask.pc = "trace"
    BY <1>15 DEF FailedTrace
  <2>2. ASSUME NEW S, Climb(S)
        PROVE  FailedBatchSound(W)'
    <3>1. /\ failedTask'.pc = "trace" /\ failedTask'.rows = failedTask.rows
          /\ failedTask'.lastID = n
      BY <1>1, <1>3, <2>1, <2>2 DEF FailedTasks, Climb
    <3> QED
      BY <1>7, <2>1, <3>1
  <2>3. ASSUME NEW i, failedTask' = [failedTask EXCEPT !.pc = "ancestor", !.found = i,
                                       !.level = {}, !.visited = {}, !.depth = 0]
        PROVE  FailedBatchSound(W)'
    <3>1. /\ failedTask'.pc = "ancestor" /\ failedTask'.rows = failedTask.rows
          /\ failedTask'.lastID = n
      BY <1>1, <1>3, <2>3 DEF FailedTasks
    <3> QED
      BY <1>7, <2>1, <3>1
  <2>4. FailedNextRow(failedTask.lastID) => FailedBatchSound(W)'
    BY <1>3, <1>8, <2>1
  <2> QED
    BY <1>15, <2>2, <2>3, <2>4 DEF FailedTrace
<1>16. CASE FailedAncestor
  BY <1>3, <1>8, <1>16 DEF FailedAncestor
<1>17. CASE FailedSync
  <2> DEFINE cursor == GetCursor("failed")
             batch == BatchAfter("failed", cursor)
  <2>1. CASE failedTask' = [FailedAt("rows") EXCEPT !.via = "sync", !.rows = batch]
    <3>1. failedTask'.pc = "rows" /\ failedTask'.rows = batch /\ failedTask'.lastID = 0
      BY <2>1 DEF FailedAt
    <3>2. cursor \in Nat /\ FailedSoundTo(cursor, W)
      BY <1>1 DEF GetCursor, StoreTypeOK, CursorNames, FailedSound
    <3>3. ASSUME NEW r \in batch, NEW k \in W, k < r
          PROVE  k \in batch \/ Settled(k)
      <4>1. CASE place[k] = "failed"
        <5>1. k <= cursor \/ k \in batch
          BY <3>2, <3>3, <4>1, BatchHasNoGaps DEF InTable
        <5> QED
          BY <3>2, <5>1 DEF FailedSoundTo
      <4>2. CASE place[k] # "failed"
        BY <4>2 DEF Settled
      <4> QED
        BY <4>1, <4>2
    <3> HIDE DEF batch, cursor
    <3> QED
      BY <1>2, <1>4, <3>1, <3>3 DEF FailedBatchSound, FailedHand, FailedSoundTo
  <2> QED
    BY <1>6, <1>17, <2>1 DEF FailedSync, FailedGoto
<1>18. CASE FailedRow
  <2>1. ASSUME NEW i \in Id, IsNext(i, failedTask.rows),
               failedTask' = [failedTask EXCEPT !.pc = "direct", !.id = i, !.rows = @ \ {i}]
        PROVE  FailedBatchSound(W)'
    <3>1. /\ failedTask'.pc = "direct" /\ failedTask'.rows = failedTask.rows \ {i}
          /\ failedTask'.id = i /\ failedTask'.lastID = n
      BY <1>1, <1>3, <2>1 DEF FailedTasks
    <3>2. FailedHand = {}
      BY <1>18 DEF FailedRow, FailedHand
    <3>3. \A k \in W : k < i => k \notin failedTask.rows
      BY <1>1, <2>1 DEF IsNext
    <3>4. \A k \in W : k < i => Settled(k)'
      BY <1>1, <1>2, <2>1, <3>2, <3>3 DEF IsNext, FailedBatchSound
    <3>5. \A r \in failedTask.rows : \A k \in W :
            k < r => k \in failedTask.rows \/ Settled(k)'
      BY <1>1, <1>2, <3>2 DEF FailedBatchSound
    <3> QED
      BY <1>4, <3>1, <3>4, <3>5 DEF FailedBatchSound, FailedHand, FailedSoundTo
  <2> QED
    BY <1>6, <1>9, <1>18, <2>1 DEF FailedRow, FailedGoto
<1> QED
  BY <1>10, <1>12, <1>13, <1>14, <1>15, <1>16, <1>17, <1>18 DEF FailedStep

LEMMA FailedSoundKept ==
  ASSUME Knowledge, [Next]_vars, "failed" \in InOrder,
         NEW W \in SUBSET Id, [FailIsKnown(W)]_vars, FailedSound(W)
  PROVE  FailedSound(W)'
<1>1. /\ TypeInv /\ HoldsFailed /\ Id \subseteq Nat \ {0} /\ failedTask.rows \subseteq Id
      /\ QueueAloneInserts /\ HandTracked(W) /\ FailedBatchSound(W)
  BY StoreAssumption DEF Knowledge, FailedKnows, TypeInv, TypeOK, FailedTasks, FailedSound
<1>2. PICK n \in Id \cup {0} : n = failedTask.lastID
  BY <1>1 DEF TypeInv, TypeOK, FailedTasks
<1>3. PICK c \in Id \cup {0} : c = cursors["failed"]
  BY <1>1 DEF TypeInv, TypeOK, StoreTypeOK, CursorNames
<1>4. FailedSoundTo(n, W)' /\ FailedSoundTo(c, W)' /\ FailedSoundTo(0, W)'
  <2>1. FailedSoundTo(n, W) /\ FailedSoundTo(c, W)
    BY <1>1, <1>2, <1>3 DEF FailedSound, FailedBatchSound
  <2>2. FailedSoundTo(n, W)' /\ FailedSoundTo(c, W)'
    BY <1>1, <2>1, FailedSoundToStays
  <2>3. FailedSoundTo(0, W)'
    <3>1. 0 \notin Id /\ \A k \in W : ~(k <= 0)
      BY <1>1
    <3> QED
      BY <3>1 DEF FailedSoundTo
  <2> QED
    BY <2>2, <2>3
<1>5. FailedSoundTo(cursors["failed"], W)'
  <2>1. cursors'["failed"] = c \/ cursors'["failed"] = n
    <3>1. CASE FailedSetCursor
      BY <1>1, <1>2, <1>3, <3>1
      DEF FailedSetCursor, SetCursor, TypeInv, TypeOK, StoreTypeOK, CursorNames
    <3>2. CASE QueueSetCursor
      BY <1>1, <1>3, <3>2
      DEF QueueSetCursor, SetCursor, TypeInv, TypeOK, StoreTypeOK, CursorNames
    <3>3. CASE UNCHANGED cursors
      BY <1>3, <3>3
    <3> QED
      BY <3>1, <3>2, <3>3, OnlyCursorStatements
  <2> QED
    BY <1>4, <2>1 DEF FailedSoundTo
<1>6. FailedBatchSound(W)'
  <2>1. CASE FailedTurn
    BY <1>1, <2>1, FailedBatchStep, IndexerReadsOnly DEF FailedTurn
  <2>2. CASE FailedGoto("sync") \/ FailedGoto("off")
    BY <1>4, <2>2 DEF FailedGoto, FailedAt, FailedBatchSound, FailedHand, FailedSoundTo
  <2>3. CASE UNCHANGED failedTask
    <3>1. ASSUME NEW r \in failedTask.rows \cup FailedHand, NEW k \in W, k < r, Settled(k)
          PROVE  Settled(k)'
      <4>1. r \in Id /\ place[r] = "failed"
        BY <1>1 DEF FailedHand, HoldsFailed, TypeInv, FailedLocalsOK
      <4>2. k <= r
        <5>1. k \in Nat /\ r \in Nat
          BY <1>1, <4>1
        <5> QED
          BY <3>1, <5>1
      <4> QED
        BY <1>1, <3>1, <4>1, <4>2, SettledBefore
    <3>2. FailedHand' = FailedHand
      BY <2>3 DEF FailedHand
    <3> QED
      BY <1>1, <1>2, <1>4, <2>3, <3>1, <3>2 DEF FailedBatchSound, FailedSoundTo
  <2> QED
    BY <2>1, <2>2, <2>3
    DEF Next, MainStep, Dedupe, BootDone, BootFailed, StartListeners, PollDetected, PollQueue,
        PollMark, DoneTurn, QueueTurn, RelayerTurn, ConnectionLost, Crash, vars, tasks
<1> QED
  BY <1>1, <1>5, <1>6, AloneInsertsKept, HandTrackedKept DEF FailedSound

(* At the start there is nothing behind the cursor. *)
LEMMA FailedSoundAtStart ==
  ASSUME Init, NEW W \in SUBSET Id
  PROVE  FailedSound(W)
<1>1. Id \subseteq Nat \ {0}
  BY StoreAssumption
<1>2. /\ cursors["failed"] = 0
      /\ queueTask = QueueAt("off") /\ failedTask = FailedAt("off")
  BY DEF Init, StoreInit, CursorNames
<1>3. QueueAloneInserts /\ HandTracked(W)
  BY <1>2 DEF QueueAt, QueueAloneInserts, HandTracked, QueueHand
<1>4. FailedSoundTo(0, W)
  BY <1>1 DEF FailedSoundTo
<1>5. FailedBatchSound(W)
  BY <1>2, <1>4 DEF FailedAt, FailedBatchSound, FailedHand
<1> QED
  BY <1>2, <1>3, <1>4, <1>5 DEF FailedSound

LEMMA BehindFailedCursor ==
  ASSUME Knowledge, NEW W \in SUBSET Id, FailedSound(W), NEW i \in W
  PROVE  FailedCursorSound(i)
BY DEF FailedSound, FailedSoundTo, Settled, FailedCursorSound

(* An item that is known and has not failed yet: whatever is read behind the *)
(* cursor or is still in hand, there is nothing of it to settle so far.      *)
LEMMA KnownIsSound ==
  ASSUME FailedSound({}), NEW i \in Id, IsKnown(i), place[i] \in {"unborn", "queue"}
  PROVE  FailedSound({i})
<1>1. Settled(i)
  BY DEF Settled
<1>2. HandTracked({i})
  BY DEF HandTracked
<1> QED
  BY <1>1, <1>2 DEF FailedSound, FailedSoundTo, FailedBatchSound

(* When items fail in the order of their ids, a transfer that is tracked at  *)
(* some moment before its item fails is settled from the moment the failed   *)
(* cursor reaches the row: the row's own mark comes before it counts as      *)
(* read, and an error ends the batch before the row (sync.go:169-207).  An   *)
(* item given up before its packet is inserted is outside: its row may be    *)
(* behind the cursor by then.                                                *)
THEOREM KnownFailuresSettle ==
  ASSUME "failed" \in InOrder
  PROVE  Spec => KnownFailureSettles
<1>1. Spec => []FailedSound({})
  <2>1. Init => FailedSound({})
    BY FailedSoundAtStart
  <2>2. Knowledge /\ FailedSound({}) /\ [Next]_vars => FailedSound({})'
    BY FailedSoundKept DEF FailIsKnown
  <2> QED
    BY <2>1, <2>2, KnowledgeHolds, PTL DEF Spec
<1>2. ASSUME NEW i \in Id
      PROVE  Spec => [](IsKnown(i) /\ place[i] \in {"unborn", "queue"} => []FailedCursorSound(i))
  <2> DEFINE Waits == IsKnown(i) /\ place[i] \in {"unborn", "queue"}
             Sound == IsKnown(i) /\ FailedSound({i})
  <2>1. FailedSound({}) /\ Waits => Sound
    BY KnownIsSound
  <2>2. Knowledge /\ Sound /\ [Next]_vars => Sound'
    <3> SUFFICES ASSUME Knowledge, Sound, [Next]_vars PROVE Sound'
      OBVIOUS
    <3>1. IsKnown(i)'
      BY KnownStays DEF Knowledge
    <3>2. [FailIsKnown({i})]_vars
      BY DEF FailIsKnown
    <3> QED
      BY <3>1, <3>2, FailedSoundKept
  <2>3. Knowledge /\ Sound => FailedCursorSound(i)
    BY BehindFailedCursor
  <2> HIDE DEF Sound
  <2> QED
    BY <1>1, <2>1, <2>2, <2>3, KnowledgeHolds, PTL DEF Spec
<1> QED
  BY <1>2 DEF KnownFailureSettles

-----------------------------------------------------------------------------
(* The climb to the origin of a failure *)

(* No statement of traceFailedAncestor, and not the mark it leads to, fails. *)
ClimbUndisturbed ==
  failedTask.pc \in {"trace", "ancestor"} /\ failedTask' # failedTask =>
    budget'["error"] = budget["error"]

(* A height for every item, at most that of the climb. *)
IsHeight(height) ==
  /\ height \in [Id -> 0..TraceDepth]
  /\ \A i \in Id : \A p \in Parents[i] : height[p] < height[i]

ParentsDone == \A i \in Id : place[i] # "unborn" => \A p \in Parents[i] : place[p] = "done"

(* A batch that is about to read its next row has no climb behind it. *)
FreshClimb ==
  /\ failedTask.pc \in {"rows", "direct"} => failedTask.visited = {} /\ failedTask.depth = 0
  /\ failedTask.pc = "rows" => failedTask.via = "sync"

(* Nothing at or after the row of f is read, and f is not skipped. *)
Ahead(f) ==
  /\ failedTask.lastID < f
  /\ failedTask.pc = "direct" /\ failedTask.via = "sync" => failedTask.id < f
  /\ f \in failedTask.rows \/ \A r \in failedTask.rows : r < f

(* The batch is at the row of f: before the climb, on a climb that has seen  *)
(* all ancestors but those above its level and has not come past i, or at i. *)
Climbing(i, f, height) ==
  /\ failedTask.via = "sync" /\ failedTask.id = f
  /\ \/ failedTask.pc = "direct" /\ failedTask.lastID < f
     \/ /\ failedTask.pc = "trace"
        /\ \A s \in failedTask.visited \cup {f} :
             Parents[s] \subseteq failedTask.visited \cup failedTask.level
        /\ \A a \in failedTask.level : height[a] + failedTask.depth < height[f]
        /\ i \notin failedTask.visited
     \/ failedTask.pc = "ancestor" /\ failedTask.found = i

OriginSound(i, f, height) ==
  /\ KnownLineage(i, f)
  /\ place[f] = "failed" /\ Matches(i) =>
       cursors["failed"] < f /\ (Ahead(f) \/ Climbing(i, f, height))

LEMMA ParentsDoneKept ==
  ASSUME TypeInv, [Next]_vars, ParentsDone
  PROVE  ParentsDone'
<1> SUFFICES ASSUME NEW i \in Id, place'[i] # "unborn", NEW p \in Parents[i]
             PROVE  place'[p] = "done"
  BY DEF ParentsDone
<1>1. p \in Id /\ RelayerTypeOK
  BY RelayerAssumption DEF TypeInv, TypeOK
<1>2. place[p] = "done"
  <2>1. CASE place[i] # "unborn"
    BY <2>1 DEF ParentsDone
  <2>2. CASE place[i] = "unborn"
    <3>1. ~UNCHANGED place
      BY <2>2
    <3>2. PICK k \in Id : Enqueue(k) \/ Complete(k) \/ Fail(k)
      BY <3>1, IndexerReadsOnly DEF Next, RelayerTurn, RelayerStep, Tick
    <3>3. CASE k = i
      BY <2>2, <3>2, <3>3 DEF Enqueue, Complete, Fail
    <3>4. CASE k # i
      <4>1. place'[i] = place[i]
        BY <1>1, <3>2, <3>4 DEF Enqueue, Complete, Fail, InsertInto, RelayerTypeOK
      <4> QED
        BY <2>2, <4>1
    <3> QED
      BY <3>3, <3>4
  <2> QED
    BY <2>1, <2>2
<1> QED
  BY <1>1, <1>2, TablesMoveForward DEF MovesForward

LEMMA AncestorsAreDone ==
  ASSUME ParentsDone, NEW f \in Id, place[f] # "unborn", NEW a, IsAncestor(a, f)
  PROVE  a \in Id /\ place[a] = "done" /\ a < f
<1> DEFINE S == {s \in Id : place[s] = "done"}
           T == {s \in Id : s < f}
<1>1. Parents[f] \subseteq S /\ \A s \in S : Parents[s] \subseteq S
  BY RelayerAssumption DEF ParentsDone
<1>2. Parents[f] \subseteq T /\ \A s \in T : Parents[s] \subseteq T
  <2>1. Id \subseteq Nat
    BY StoreAssumption
  <2>2. \A s \in Id : \A p \in Parents[s] : p \in Id /\ p < s
    BY RelayerAssumption
  <2>3. \A s, p \in Id : s < f /\ p < s => p < f
    BY <2>1
  <2> QED
    BY <2>2, <2>3
<1>3. S \in SUBSET Id /\ T \in SUBSET Id
  OBVIOUS
<1> HIDE DEF S, T
<1>4. a \in S /\ a \in T
  BY <1>1, <1>2, <1>3 DEF IsAncestor
<1> QED
  BY <1>4 DEF S, T

LEMMA FreshClimbKept ==
  ASSUME TypeInv, [Next]_vars, FreshClimb
  PROVE  FreshClimb'
<1>1. failedTask \in FailedTasks
  BY DEF TypeInv, TypeOK
<1>2. CASE UNCHANGED failedTask
  BY <1>2 DEF FreshClimb
<1>3. ASSUME NEW label, label # "rows", FailedGoto(label)
      PROVE  FreshClimb'
  BY <1>3 DEF FailedGoto, FailedAt, FreshClimb
<1>4. ASSUME NEW n, FailedNextRow(n)
      PROVE  FreshClimb'
  BY <1>4 DEF FailedNextRow, FailedAt, FreshClimb
<1>5. CASE FailedEndBatch
  BY <1>5 DEF FailedEndBatch, FailedAt, FreshClimb
<1>6. ASSUME failedTask' \in FailedTasks, failedTask'.pc \notin {"rows", "direct"}
      PROVE  FreshClimb'
  BY <1>6 DEF FreshClimb
<1>7. CASE FailedConnect \/ FailedLost \/ FailedPromise \/ FailedSetCursor \/ FailedAncestor
  BY <1>3, <1>4, <1>7
  DEF FailedConnect, FailedLost, FailedPromise, FailedSetCursor, FailedAncestor
<1>8. CASE FailedNotify
  BY <1>2, <1>8 DEF FailedNotify, FailedAt, FreshClimb
<1>9. CASE FailedDirect
  <2>1. ASSUME NEW matched, AfterDirect(matched)
        PROVE  FreshClimb'
    <3>1. ASSUME NEW label \in {"trace", "find"}, failedTask'.pc = label
          PROVE  FreshClimb'
      BY <3>1 DEF FreshClimb
    <3> QED
      BY <1>1, <1>3, <1>4, <2>1, <3>1 DEF AfterDirect, FailedTasks
  <2> QED
    BY <1>3, <1>5, <1>9, <2>1 DEF FailedDirect
<1>10. CASE FailedFind
  <2>1. ASSUME NEW i, failedTask' = [failedTask EXCEPT !.pc = "promise", !.found = i]
        PROVE  FreshClimb'
    BY <1>1, <2>1 DEF FailedTasks, FreshClimb
  <2> QED
    BY <1>3, <1>10, <2>1 DEF FailedFind
<1>11. CASE FailedTrace
  <2>1. failedTask.pc = "trace"
    BY <1>11 DEF FailedTrace
  <2>2. ASSUME NEW S, Climb(S)
        PROVE  FreshClimb'
    <3>1. failedTask'.pc = "trace"
      BY <1>1, <2>1, <2>2 DEF Climb, FailedTasks
    <3> QED
      BY <3>1 DEF FreshClimb
  <2>3. ASSUME NEW i, failedTask' = [failedTask EXCEPT !.pc = "ancestor", !.found = i,
                                       !.level = {}, !.visited = {}, !.depth = 0]
        PROVE  FreshClimb'
    BY <1>1, <2>3 DEF FailedTasks, FreshClimb
  <2> QED
    BY <1>4, <1>11, <2>2, <2>3 DEF FailedTrace
<1>12. CASE FailedSync
  BY <1>3, <1>12 DEF FailedSync, FailedAt, FreshClimb
<1>13. CASE FailedRow
  <2>1. ASSUME NEW i \in Id, failedTask.pc = "rows",
               failedTask' = [failedTask EXCEPT !.pc = "direct", !.id = i, !.rows = @ \ {i}]
        PROVE  FreshClimb'
    BY <1>1, <2>1 DEF FailedTasks, FreshClimb
  <2> QED
    BY <1>3, <1>5, <1>13, <2>1 DEF FailedRow
<1>14. CASE FailedTurn
  BY <1>7, <1>8, <1>9, <1>10, <1>11, <1>12, <1>13, <1>14 DEF FailedTurn, FailedStep
<1>15. CASE FailedGoto("sync") \/ FailedGoto("off")
  BY <1>3, <1>15
<1> QED
  BY <1>2, <1>14, <1>15
  DEF Next, MainStep, Dedupe, BootDone, BootFailed, StartListeners, PollDetected, PollQueue,
      PollMark, QueueTurn, DoneTurn, RelayerTurn, ConnectionLost, Crash, vars, tasks

(* Who is known and not in flight stays so: nobody is inserted twice, and a  *)
(* settled row stays settled.                                                *)
LEMMA NotInFlightStays ==
  ASSUME Knowledge, [Next]_vars, QueueAloneInserts, NEW a \in Id, IsKnown(a), ~Matches(a)
  PROVE  ~Matches(a)'
<1> SUFFICES ASSUME Matches(a)' PROVE FALSE
  OBVIOUS
<1>1. a \in DOMAIN transfers'
  BY DEF Matches
<1>2. ~Inserted(a)
  BY DEF Inserted, QueueAloneInserts, QueueBridge, IsKnown, Tracked
<1>3. a \in DOMAIN transfers /\ StoreTypeOK
  BY <1>1, <1>2, SystemRowChanges DEF Knowledge, RowChanges, RowChange, TypeInv, TypeOK
<1>4. transfers[a].status \in Terminal
  BY <1>3 DEF Matches, InFlight, StoreTypeOK, Row, Status, Terminal, Detected, Processing, Done,
              Failed
<1>5. WriteTransfers \/ UNCHANGED transfers
  BY SystemStep DEF Knowledge, StoreNext, storeVars
<1>6. transfers'[a].status = transfers[a].status
  BY <1>1, <1>3, <1>4, <1>5, WriteKeepsRows DEF RowStaysTerminal
<1> QED
  BY <1>3, <1>6 DEF Matches, InFlight

LEMMA MarkedIsNotInFlight ==
  ASSUME StoreTypeOK, NEW id \in Id, NEW m, NEW tx, MarkFailed(id, m, tx)
  PROVE  ~Matches(id)'
<1>1. Settled(id)' /\ DOMAIN transfers' = DOMAIN transfers
  BY MarkSettles DEF MarkFailed
<1> SUFFICES ASSUME Matches(id)' PROVE FALSE
  OBVIOUS
<1>2. id \in DOMAIN transfers /\ transfers[id] \in Row /\ transfers'[id].status < Done
  BY <1>1 DEF Matches, InFlight, StoreTypeOK
<1>3. CASE InFlight(id)
  <2>1. transfers'[id].status = Failed
    BY <1>2, <1>3 DEF MarkFailed, Row
  <2> QED
    BY <1>2, <2>1 DEF Failed, Done
<1>4. CASE ~InFlight(id)
  BY <1>2, <1>4 DEF MarkFailed, InFlight
<1> QED
  BY <1>3, <1>4

(* A step of the failed worker while i, the only ancestor of f in flight,    *)
(* stays in flight: f is still ahead, or the batch is on its way to i.       *)
LEMMA OriginBatchStep ==
  ASSUME Knowledge, FailedStep, FreshClimb, ParentsDone, ClimbUndisturbed,
         NEW height, IsHeight(height), NEW f \in Id, NEW i \in Id, IsAncestor(i, f),
         KnownLineage(i, f), place[f] = "failed", Matches(i), Matches(i)',
         cursors["failed"] < f, Ahead(f) \/ Climbing(i, f, height)
  PROVE  (Ahead(f) \/ Climbing(i, f, height))'
<1> DEFINE Sound == (Ahead(f) \/ Climbing(i, f, height))'
<1>1. /\ TypeInv /\ StoreTypeOK /\ failedTask \in FailedTasks /\ failedTask.rows \subseteq Id
      /\ Id \subseteq Nat \ {0} /\ f > 0 /\ budget["error"] \in Nat
  BY StoreAssumption DEF Knowledge, TypeInv, TypeOK, FailedTasks, FaultsTypeOK, FaultKinds
<1>2. PICK n \in Id \cup {0} : n = failedTask.lastID
  BY <1>1 DEF FailedTasks
<1>3. ASSUME NEW label, failedTask' = FailedAt(label)
      PROVE  Sound
  BY <1>1, <1>3 DEF FailedAt, Ahead
<1>4. ASSUME Ahead(f), failedTask'.rows = failedTask.rows, failedTask'.lastID = n,
             failedTask'.pc # "direct"
      PROVE  Sound
  BY <1>2, <1>4 DEF Ahead
<1>5. ASSUME NEW k, k < f, f \in failedTask.rows \/ \A r \in failedTask.rows : r < f,
             FailedNextRow(k)
      PROVE  Sound
  BY <1>5 DEF FailedNextRow, FailedAt, Ahead
<1>6. ASSUME n < f, FailedEndBatch
      PROVE  Sound
  BY <1>1, <1>2, <1>6 DEF FailedEndBatch, FailedAt, Ahead
<1>7. CASE UNCHANGED failedTask
  BY <1>7 DEF Ahead, Climbing
<1>8. CASE FailedConnect \/ FailedLost \/ FailedPromise \/ FailedSetCursor
  BY <1>3, <1>8 DEF FailedConnect, FailedLost, FailedPromise, FailedSetCursor, FailedGoto
<1>9. CASE FailedNotify
  <2>1. ASSUME NEW k, failedTask' = [FailedAt("direct") EXCEPT !.id = k]
        PROVE  Sound
    BY <1>1, <2>1 DEF FailedAt, Ahead
  <2> QED
    BY <1>7, <1>9, <2>1 DEF FailedNotify
<1>10. CASE FailedDirect
  <2>1. failedTask.pc = "direct" /\ failedTask.id \in Id /\ n < f
    BY <1>1, <1>2, <1>10 DEF FailedDirect, TypeInv, FailedLocalsOK, Ahead, Climbing
  <2>2. ASSUME NEW matched, AfterDirect(matched)
        PROVE  Sound
    <3>1. CASE failedTask.via # "sync"
      <4>1. Ahead(f)
        BY <3>1 DEF Climbing
      <4>2. CASE failedTask' = [failedTask EXCEPT !.pc = "find"]
        <5>1. /\ failedTask'.rows = failedTask.rows /\ failedTask'.lastID = n
              /\ failedTask'.pc # "direct"
          BY <1>1, <1>2, <4>2 DEF FailedTasks
        <5> QED
          BY <1>4, <4>1, <5>1
      <4> QED
        BY <1>3, <2>2, <3>1, <4>2 DEF AfterDirect, FailedGoto
    <3>2. CASE failedTask.via = "sync" /\ Ahead(f)
      <4>1. failedTask.id < f /\ (f \in failedTask.rows \/ \A r \in failedTask.rows : r < f)
        BY <2>1, <3>2 DEF Ahead
      <4>2. CASE failedTask' = [failedTask EXCEPT !.pc = "trace", !.lastID = failedTask.id,
                                                  !.level = Parents[failedTask.id]]
        <5>1. /\ failedTask'.rows = failedTask.rows /\ failedTask'.lastID = failedTask.id
              /\ failedTask'.pc # "direct"
          BY <1>1, <4>2 DEF FailedTasks
        <5> QED
          BY <4>1, <5>1 DEF Ahead
      <4> QED
        BY <1>5, <2>2, <3>2, <4>1, <4>2 DEF AfterDirect
    <3>3. CASE failedTask.via = "sync" /\ Climbing(i, f, height)
      <4>1. failedTask.id = f /\ failedTask.visited = {} /\ failedTask.depth = 0
        BY <2>1, <3>3 DEF Climbing, FreshClimb
      <4>2. Parents[f] # {}
        BY DEF IsAncestor
      <4>3. failedTask' = [failedTask EXCEPT !.pc = "trace", !.lastID = f, !.level = Parents[f]]
        BY <2>2, <3>3, <4>1, <4>2 DEF AfterDirect
      <4>4. /\ failedTask'.pc = "trace" /\ failedTask'.via = "sync" /\ failedTask'.id = f
            /\ failedTask'.visited = {} /\ failedTask'.depth = 0
            /\ failedTask'.level = Parents[f]
        BY <1>1, <3>3, <4>1, <4>3 DEF FailedTasks
      <4>5. \A a \in Parents[f] : height[a] + 0 < height[f]
        BY RelayerAssumption DEF IsHeight
      <4> QED
        BY <4>4, <4>5 DEF Climbing
    <3> QED
      BY <3>1, <3>2, <3>3
  <2> QED
    BY <1>3, <1>6, <1>10, <2>1, <2>2 DEF FailedDirect, FailedGoto
<1>11. CASE FailedFind
  <2>1. Ahead(f)
    BY <1>11 DEF FailedFind, Climbing
  <2>2. ASSUME NEW k, failedTask' = [failedTask EXCEPT !.pc = "promise", !.found = k]
        PROVE  Sound
    <3>1. /\ failedTask'.rows = failedTask.rows /\ failedTask'.lastID = n
          /\ failedTask'.pc # "direct"
      BY <1>1, <1>2, <2>2 DEF FailedTasks
    <3> QED
      BY <1>4, <2>1, <3>1
  <2> QED
    BY <1>3, <1>11, <2>2 DEF FailedFind, FailedGoto
<1>12. CASE FailedTrace
  <2>1. failedTask.pc = "trace"
    BY <1>12 DEF FailedTrace
  <2>2. CASE Ahead(f)
    <3>1. FailedNextRow(failedTask.lastID) => Sound
      BY <1>5, <2>2 DEF Ahead
    <3>2. ASSUME NEW S, Climb(S)
          PROVE  Sound
      <4>1. /\ failedTask'.rows = failedTask.rows /\ failedTask'.lastID = n
            /\ failedTask'.pc # "direct"
        BY <1>1, <1>2, <2>1, <3>2 DEF Climb, FailedTasks
      <4> QED
        BY <1>4, <2>2, <4>1
    <3>3. ASSUME NEW k, failedTask' = [failedTask EXCEPT !.pc = "ancestor", !.found = k,
                                         !.level = {}, !.visited = {}, !.depth = 0]
          PROVE  Sound
      <4>1. /\ failedTask'.rows = failedTask.rows /\ failedTask'.lastID = n
            /\ failedTask'.pc # "direct"
        BY <1>1, <1>2, <3>3 DEF FailedTasks
      <4> QED
        BY <1>4, <2>2, <4>1
    <3> QED
      BY <1>12, <3>1, <3>2, <3>3 DEF FailedTrace
  <2>3. CASE Climbing(i, f, height)
    <3> DEFINE level == failedTask.level
               visited == failedTask.visited
               depth == failedTask.depth
    <3>1. /\ failedTask.via = "sync" /\ failedTask.id = f
          /\ \A s \in visited \cup {f} : Parents[s] \subseteq visited \cup level
          /\ \A a \in level : height[a] + depth < height[f]
          /\ i \notin visited
          /\ level \subseteq Id /\ visited \subseteq Id /\ depth \in Nat
      BY <1>1, <2>1, <2>3 DEF Climbing, FailedTasks
    <3>2. ~Fault("error")
      <4>1. CASE UNCHANGED failedTask
        <5>1. failedTask' # failedTask
          <6>1. ASSUME NEW S, Climb(S)
                PROVE  failedTask' # failedTask
            <7>1. failedTask'.depth = depth + 1
              BY <1>1, <6>1 DEF Climb, FailedTasks
            <7> QED
              BY <3>1, <7>1
          <6>2. ASSUME NEW k, FailedNextRow(k)
                PROVE  failedTask' # failedTask
            BY <2>1, <6>2 DEF FailedNextRow, FailedAt
          <6>3. ASSUME NEW k, failedTask' = [failedTask EXCEPT !.pc = "ancestor", !.found = k,
                                               !.level = {}, !.visited = {}, !.depth = 0]
                PROVE  failedTask' # failedTask
            BY <1>1, <2>1, <6>3 DEF FailedTasks
          <6> QED
            BY <1>12, <6>1, <6>2, <6>3 DEF FailedTrace
        <5> QED
          BY <4>1, <5>1
      <4>2. CASE failedTask' # failedTask
        BY <1>1, <2>1, <4>2 DEF ClimbUndisturbed, Fault, TypeInv, TypeOK, FaultsTypeOK, FaultKinds
      <4> QED
        BY <4>1, <4>2
    <3>3. \A a \in level : IsAncestor(a, f)
      BY <2>1, <3>1 DEF Knowledge, FailedKnows, ClimbsAncestors
    <3>4. level # {}
      <4> SUFFICES ASSUME level = {} PROVE FALSE
        OBVIOUS
      <4>1. visited \in SUBSET Id /\ Parents[f] \subseteq visited
            /\ \A s \in visited : Parents[s] \subseteq visited
        BY <3>1
      <4> QED
        BY <3>1, <4>1 DEF IsAncestor
    <3>5. depth # TraceDepth
      <4>1. PICK a \in level : TRUE
        BY <3>4
      <4>2. height[a] \in 0..TraceDepth /\ height[f] \in 0..TraceDepth /\ TraceDepth \in Nat
        BY <3>1, FailedAssumption DEF IsHeight
      <4>3. height[a] + depth < height[f]
        BY <3>1
      <4> QED
        BY <3>1, <4>2, <4>3
    <3>6. PICK j \in FindAncestor(level) :
            IF j = 0 THEN Climb({})
            ELSE IF j = failedTask.id THEN FailedNextRow(failedTask.lastID)
                 ELSE failedTask' = [failedTask EXCEPT !.pc = "ancestor", !.found = j,
                                       !.level = {}, !.visited = {}, !.depth = 0]
      BY <1>12, <3>2, <3>4, <3>5 DEF FailedTrace
    <3>7. CASE j = 0
      <4> DEFINE level2 == UNION {Parents[p] : p \in
                             {q \in level \ (visited \cup {}) : place[q] = "done"}}
      <4>1. /\ failedTask'.pc = "trace" /\ failedTask'.via = "sync" /\ failedTask'.id = f
            /\ failedTask'.visited = visited \cup level /\ failedTask'.depth = depth + 1
            /\ failedTask'.level = level2
        BY <1>1, <2>1, <3>1, <3>6, <3>7 DEF Climb, FailedTasks
      <4>2. i \notin level
        BY <1>1, <3>6, <3>7 DEF FindAncestor, OrNone, Matches, StoreTypeOK
      <4>3. \A q \in level : place[q] = "done"
        BY <3>3, AncestorsAreDone
      <4>4. \A s \in (visited \cup level) \cup {f} :
              Parents[s] \subseteq (visited \cup level) \cup level2
        <5>1. \A s \in level \ visited : Parents[s] \subseteq level2
          BY <4>3
        <5> QED
          BY <3>1, <5>1
      <4>5. \A a \in level2 : height[a] + (depth + 1) < height[f]
        <5> SUFFICES ASSUME NEW q \in level, NEW a \in Parents[q]
                     PROVE  height[a] + (depth + 1) < height[f]
          OBVIOUS
        <5>1. a \in Id /\ q \in Id
          BY <3>1, RelayerAssumption
        <5>2. height[a] < height[q] /\ height[q] + depth < height[f]
          BY <3>1, <5>1 DEF IsHeight
        <5>3. height[a] \in Nat /\ height[q] \in Nat /\ height[f] \in Nat
          BY <5>1, FailedAssumption DEF IsHeight
        <5> QED
          BY <3>1, <5>2, <5>3
      <4> HIDE DEF level2
      <4> QED
        BY <3>1, <4>1, <4>2, <4>4, <4>5 DEF Climbing
    <3>8. CASE j # 0
      <4>1. j \in level /\ Matches(j)
        BY <3>6, <3>8 DEF FindAncestor, OrNone, Matches
      <4>2. j = i /\ j # f
        BY <1>1, <3>1, <3>3, <4>1, AncestorsAreDone DEF KnownLineage
      <4>3. /\ failedTask'.pc = "ancestor" /\ failedTask'.via = "sync" /\ failedTask'.id = f
            /\ failedTask'.found = i
        BY <1>1, <3>1, <3>6, <3>8, <4>2 DEF FailedTasks
      <4> QED
        BY <4>3 DEF Climbing
    <3> QED
      BY <3>7, <3>8
  <2> QED
    BY <2>2, <2>3
<1>13. CASE FailedAncestor
  <2>1. failedTask.pc = "ancestor" /\ FailedNextRow(failedTask.lastID)
    BY <1>13 DEF FailedAncestor
  <2>2. CASE Ahead(f)
    BY <1>5, <2>1, <2>2 DEF Ahead
  <2>3. CASE Climbing(i, f, height)
    <3>1. failedTask.found = i
      BY <2>1, <2>3 DEF Climbing
    <3>2. ~Fault("error")
      <4>1. failedTask' # failedTask
        BY <2>1 DEF FailedNextRow, FailedAt
      <4> QED
        BY <1>1, <2>1, <4>1 DEF ClimbUndisturbed, Fault, TypeInv, TypeOK, FaultsTypeOK, FaultKinds
    <3>3. MarkFailed(i, MessageOf(failedTask.id), NoTx)
      BY <1>13, <3>1, <3>2 DEF FailedAncestor
    <3> QED
      BY <1>1, <3>3, MarkedIsNotInFlight
  <2> QED
    BY <2>2, <2>3
<1>14. CASE FailedSync
  <2> DEFINE batch == BatchAfter("failed", cursors["failed"])
  <2>1. CASE failedTask' = [FailedAt("rows") EXCEPT !.via = "sync", !.rows = batch]
    <3>1. failedTask'.pc = "rows" /\ failedTask'.rows = batch /\ failedTask'.lastID = 0
      BY <2>1 DEF FailedAt
    <3>2. cursors["failed"] \in Nat
      BY <1>1 DEF StoreTypeOK, CursorNames
    <3>3. f \in batch \/ \A r \in batch : r < f
      <4> SUFFICES ASSUME NEW r \in batch, ~(r < f), f \notin batch
                   PROVE  FALSE
        OBVIOUS
      <4>1. r \in Id /\ r # f
        BY DEF BatchAfter, InTable
      <4>2. f < r
        BY <1>1, <4>1
      <4>3. f <= cursors["failed"]
        BY <3>2, <4>2, BatchHasNoGaps DEF InTable
      <4> QED
        BY <1>1, <3>2, <4>3
    <3> HIDE DEF batch
    <3> QED
      BY <1>1, <3>1, <3>3 DEF Ahead
  <2> QED
    BY <1>3, <1>14, <2>1 DEF FailedSync, FailedGoto, GetCursor
<1>15. CASE FailedRow
  <2>1. failedTask.pc = "rows" /\ failedTask.via = "sync" /\ Ahead(f)
    BY <1>15 DEF FailedRow, FreshClimb, Climbing
  <2>2. ASSUME NEW k \in Id, IsNext(k, failedTask.rows),
               failedTask' = [failedTask EXCEPT !.pc = "direct", !.id = k, !.rows = @ \ {k}]
        PROVE  Sound
    <3>1. /\ failedTask'.pc = "direct" /\ failedTask'.rows = failedTask.rows \ {k}
          /\ failedTask'.id = k /\ failedTask'.lastID = failedTask.lastID
          /\ failedTask'.via = "sync"
      BY <1>1, <2>1, <2>2 DEF FailedTasks
    <3>2. CASE k = f
      BY <2>1, <3>1, <3>2 DEF Ahead, Climbing
    <3>3. CASE k # f
      <4>1. k < f
        BY <1>1, <2>1, <2>2, <3>3 DEF Ahead, IsNext
      <4> QED
        BY <2>1, <3>1, <3>3, <4>1 DEF Ahead
    <3> QED
      BY <3>2, <3>3
  <2> QED
    BY <1>2, <1>3, <1>6, <1>15, <2>1, <2>2 DEF FailedRow, FailedGoto, Ahead
<1> QED
  BY <1>8, <1>9, <1>10, <1>11, <1>12, <1>13, <1>14, <1>15 DEF FailedStep

LEMMA LineageStaysKnown ==
  ASSUME Knowledge, [Next]_vars, QueueAloneInserts, NEW i \in Id, NEW f \in Id,
         KnownLineage(i, f)
  PROVE  KnownLineage(i, f)'
BY KnownStays, NotInFlightStays DEF Knowledge, KnownLineage

(* An item that fails now fails behind everything that has been read. *)
LEMMA FailsAhead ==
  ASSUME Knowledge, FailedSound({}), "failed" \in InOrder, NEW f \in Id, Fail(f)
  PROVE  cursors["failed"] < f /\ Ahead(f)
<1>1. /\ HoldsFailed /\ FailedLocalsOK /\ Id \subseteq Nat \ {0}
      /\ cursors["failed"] \in Id \cup {0} /\ failedTask.lastID \in Id \cup {0}
      /\ failedTask.rows \subseteq Id
  BY StoreAssumption DEF Knowledge, FailedKnows, TypeInv, TypeOK, StoreTypeOK, CursorNames,
                         FailedTasks
<1>2. ASSUME NEW k \in Id, place[k] = "failed"
      PROVE  k < f
  <2>1. ~(k > f) /\ k # f
    BY <1>2 DEF Fail
  <2>2. k \in Nat /\ f \in Nat
    BY <1>1
  <2> QED
    BY <2>1, <2>2
<1>3. /\ cursors["failed"] \in Id => place[cursors["failed"]] = "failed"
      /\ failedTask.lastID \in Id => place[failedTask.lastID] = "failed"
  BY DEF FailedSound, FailedSoundTo, FailedBatchSound
<1>4. cursors["failed"] < f /\ failedTask.lastID < f
  <2>1. 0 < f
    BY <1>1
  <2>2. ASSUME NEW n \in Id \cup {0}, n \in Id => place[n] = "failed"
        PROVE  n < f
    BY <1>2, <2>1, <2>2
  <2> QED
    BY <1>1, <1>3, <2>2
<1>5. failedTask.pc = "direct" => failedTask.id < f
  BY <1>1, <1>2 DEF HoldsFailed, FailedLocalsOK
<1>6. \A r \in failedTask.rows : r < f
  BY <1>1, <1>2 DEF HoldsFailed
<1> QED
  BY <1>4, <1>5, <1>6 DEF Ahead

LEMMA OriginSoundKept ==
  ASSUME Knowledge, [Next]_vars, [ClimbUndisturbed]_vars, "failed" \in InOrder,
         QueueAloneInserts, FailedSound({}), FreshClimb, ParentsDone,
         NEW height, IsHeight(height), NEW f \in Id, NEW i \in Id, IsAncestor(i, f),
         OriginSound(i, f, height)
  PROVE  OriginSound(i, f, height)'
<1>1. KnownLineage(i, f) /\ KnownLineage(i, f)'
  BY LineageStaysKnown DEF OriginSound
<1> SUFFICES ASSUME place'[f] = "failed", Matches(i)'
             PROVE  (cursors["failed"] < f)' /\ (Ahead(f) \/ Climbing(i, f, height))'
  BY <1>1 DEF OriginSound
<1>2. /\ TypeInv /\ RelayerTypeOK /\ CursorNames = {"queue", "failed"} /\ Matches(i)
      /\ cursors \in [CursorNames -> Id \cup {0}] /\ f > 0
  <2>1. IsKnown(i)
    BY <1>1 DEF KnownLineage
  <2>2. Matches(i)
    BY <2>1, NotInFlightStays
  <2> QED
    BY <2>2, StoreAssumption DEF Knowledge, TypeInv, TypeOK, StoreTypeOK, CursorNames
<1>3. CASE place[f] = "failed"
  <2>1. cursors["failed"] < f /\ (Ahead(f) \/ Climbing(i, f, height))
    BY <1>2, <1>3 DEF OriginSound
  <2>2. (cursors["failed"] < f)'
    <3>1. CASE FailedSetCursor
      <4>1. failedTask.lastID < f
        BY <2>1, <3>1 DEF FailedSetCursor, Ahead, Climbing
      <4>2. cursors'["failed"] = failedTask.lastID \/ UNCHANGED cursors
        BY <1>2, <3>1 DEF FailedSetCursor, SetCursor
      <4> QED
        BY <2>1, <4>1, <4>2
    <3>2. CASE QueueSetCursor
      BY <1>2, <2>1, <3>2 DEF QueueSetCursor, SetCursor
    <3>3. CASE UNCHANGED cursors
      BY <2>1, <3>3
    <3> QED
      BY <3>1, <3>2, <3>3, OnlyCursorStatements
  <2>3. (Ahead(f) \/ Climbing(i, f, height))'
    <3>1. CASE FailedTurn
      <4>1. ClimbUndisturbed
        BY DEF ClimbUndisturbed, vars, tasks
      <4> QED
        BY <1>1, <1>2, <1>3, <2>1, <3>1, <4>1, OriginBatchStep DEF FailedTurn
    <3>2. CASE FailedGoto("sync") \/ FailedGoto("off")
      BY <1>2, <3>2 DEF FailedGoto, FailedAt, Ahead
    <3>3. CASE UNCHANGED failedTask
      BY <2>1, <3>3 DEF Ahead, Climbing
    <3> QED
      BY <3>1, <3>2, <3>3
      DEF Next, MainStep, Dedupe, BootDone, BootFailed, StartListeners, PollDetected, PollQueue,
          PollMark, DoneTurn, QueueTurn, RelayerTurn, ConnectionLost, Crash, vars, tasks
  <2> QED
    BY <2>2, <2>3
<1>4. CASE place[f] # "failed"
  <2>1. ~UNCHANGED place
    BY <1>4
  <2>2. PICK k \in Id : Enqueue(k) \/ Complete(k) \/ Fail(k)
    BY <1>2, <2>1, IndexerReadsOnly DEF Next, RelayerTurn, RelayerStep, Tick
  <2>3. Fail(f)
    BY <1>2, <1>4, <2>2 DEF Enqueue, Complete, Fail, InsertInto, RelayerTypeOK
  <2>4. UNCHANGED <<cursors, failedTask>>
    BY <1>2, <2>1, IndexerReadsOnly DEF Next, RelayerTurn, storeVars, tasks
  <2>5. cursors["failed"] < f /\ Ahead(f)
    BY <2>3, FailsAhead
  <2> QED
    BY <2>4, <2>5 DEF Ahead
<1> QED
  BY <1>3, <1>4

(* For lineages no longer than the climb, and a climb whose statements do    *)
(* not fail: the climb reaches the one ancestor in flight, through whatever  *)
(* graph of parents, and the cursor waits for its mark, whatever else fails, *)
(* breaks or crashes (sync.go:169-242).  visited and level of the climb are  *)
(* closed under Parents, so a climb that runs out of levels has seen all     *)
(* ancestors.                                                                *)
THEOREM OriginsSettleFirst ==
  ASSUME "failed" \in InOrder, \E height : IsHeight(height)
  PROVE  Spec /\ [][ClimbUndisturbed]_vars => OriginSettlesFirst
<1>1. PICK height : IsHeight(height)
  OBVIOUS
<1> DEFINE Base == Knowledge /\ QueueAloneInserts /\ FailedSound({}) /\ FreshClimb /\ ParentsDone
<1>2. Spec => []Base
  <2>1. Init => FailedSound({}) /\ FreshClimb /\ ParentsDone
    <3>1. Init => FailedSound({})
      BY FailedSoundAtStart
    <3>2. Init => FreshClimb
      BY DEF Init, FailedAt, FreshClimb
    <3>3. Init => ParentsDone
      BY RelayerAssumption DEF Init, RelayerInit, ParentsDone
    <3> QED
      BY <3>1, <3>2, <3>3
  <2>2. Knowledge /\ FailedSound({}) /\ [Next]_vars => FailedSound({})'
    BY FailedSoundKept DEF FailIsKnown
  <2>3. Knowledge /\ FreshClimb /\ ParentsDone /\ [Next]_vars => FreshClimb' /\ ParentsDone'
    BY FreshClimbKept, ParentsDoneKept DEF Knowledge
  <2> QED
    BY <2>1, <2>2, <2>3, KnowledgeHolds, AloneInsertsHolds, PTL DEF Spec
<1>3. ASSUME NEW f \in Id, NEW i \in {a \in Id : IsAncestor(a, f)}
      PROVE  Spec /\ [][ClimbUndisturbed]_vars =>
               [](KnownLineage(i, f) /\ place[f] \in {"unborn", "queue"} =>
                    [](place[f] = "failed" /\ f <= cursors["failed"] => ~Matches(i)))
  <2> DEFINE Waits == KnownLineage(i, f) /\ place[f] \in {"unborn", "queue"}
             Sound == OriginSound(i, f, height)
             Settles == place[f] = "failed" /\ f <= cursors["failed"] => ~Matches(i)
  <2>1. Waits => Sound
    BY DEF OriginSound
  <2>2. Base /\ Sound /\ [ClimbUndisturbed]_vars /\ [Next]_vars => Sound'
    BY <1>1, OriginSoundKept
  <2>3. Base /\ Sound => Settles
    <3> SUFFICES ASSUME Base, Sound, place[f] = "failed", f <= cursors["failed"], Matches(i)
                 PROVE  FALSE
      OBVIOUS
    <3>1. cursors["failed"] < f
      BY DEF OriginSound
    <3>2. cursors["failed"] \in Nat /\ f \in Nat
      BY StoreAssumption DEF Knowledge, TypeInv, TypeOK, StoreTypeOK, CursorNames
    <3> QED
      BY <3>1, <3>2
  <2> HIDE DEF Base, Waits, Sound, Settles
  <2>4. Spec /\ [][ClimbUndisturbed]_vars => [](Waits => []Settles)
    BY <1>2, <2>1, <2>2, <2>3, PTL DEF Spec
  <2> QED
    BY <2>4 DEF Waits, Settles
<1> QED
  BY <1>3 DEF OriginSettlesFirst

-----------------------------------------------------------------------------
(* The lifecycle of a packet *)

(* With one row per packet the phase of a packet is the status of its row,   *)
(* and its receipt is that row's.                                            *)
RowIsPhase ==
  /\ Phase = [h \in Hash |-> Phase[h]]
  /\ Receipts \subseteq Hash
  /\ \A h \in Hash : ~Tracked(h) => Phase[h] = "untracked" /\ h \notin Receipts
  /\ RowsUnique =>
       \A i \in DOMAIN transfers : HashOf(i) \in Hash =>
         /\ Phase[HashOf(i)] = PhaseNames[transfers[i].status]
         /\ HashOf(i) \in Receipts <=> transfers[i].tx_in # NULL

LEMMA PhaseOfRow == RowIsPhase
<1>1. Phase = [h \in Hash |-> Phase[h]]
  BY DEF Phase
<1>2. Receipts \subseteq Hash
  BY DEF Receipts
<1>3. \A h \in Hash : ~Tracked(h) => Phase[h] = "untracked" /\ h \notin Receipts
  BY DEF Phase, Receipts, Tracked
<1>4. ASSUME RowsUnique, NEW i \in DOMAIN transfers, HashOf(i) \in Hash
      PROVE  /\ Phase[HashOf(i)] = PhaseNames[transfers[i].status]
             /\ HashOf(i) \in Receipts <=> transfers[i].tx_in # NULL
  <2> DEFINE h == HashOf(i)
             rows == {k \in DOMAIN transfers : HashOf(k) = h}
  <2>1. rows = {i}
    BY <1>4 DEF RowsUnique
  <2>2. Rank(i) <= Rank(i)
    BY PriorityType DEF Rank
  <2>3. (CHOOSE k \in rows : \A j \in rows : Rank(k) <= Rank(j)) = i
    BY <2>1, <2>2
  <2>4. BestStatus(h) = transfers[i].status
    BY <2>3 DEF BestStatus
  <2>5. Tracked(h)
    BY DEF Tracked
  <2>6. Phase[h] = PhaseNames[transfers[i].status]
    BY <1>4, <2>4, <2>5 DEF Phase
  <2>7. h \in Receipts <=> transfers[i].tx_in # NULL
    BY <1>4 DEF Receipts, RowsUnique
  <2> QED
    BY <2>6, <2>7
<1> QED
  BY <1>1, <1>2, <1>3, <1>4 DEF RowIsPhase

LEMMA PhaseOfRowNext == RowIsPhase'
BY PhaseOfRow, PTL

(* What an UPDATE shows of a packet. *)
LEMMA PhaseAfterUpdate ==
  ASSUME RowsUnique, Updates
  PROVE  /\ RowsUnique'
         /\ \A h \in Hash : ~Tracked(h) =>
              /\ Phase[h] = "untracked" /\ Phase'[h] = "untracked"
              /\ h \notin Receipts /\ h \notin Receipts'
         /\ \A i \in DOMAIN transfers : HashOf(i) \in Hash =>
              /\ Phase'[HashOf(i)] = PhaseNames[transfers'[i].status]
              /\ HashOf(i) \in Receipts' <=> transfers'[i].tx_in # NULL
<1>1. \A i \in DOMAIN transfers : i \in DOMAIN transfers' /\ HashOf(i)' = HashOf(i)
  BY DEF Updates, RowStep, HashOf
<1>2. RowsUnique'
  BY <1>1 DEF RowsUnique, Updates
<1>3. \A h : Tracked(h)' => Tracked(h)
  BY <1>1 DEF Tracked, Updates
<1>4. \A i \in DOMAIN transfers : HashOf(i) \in Hash =>
        /\ Phase'[HashOf(i)] = PhaseNames[transfers'[i].status]
        /\ HashOf(i) \in Receipts' <=> transfers'[i].tx_in # NULL
  <2> SUFFICES ASSUME NEW i \in DOMAIN transfers, HashOf(i) \in Hash
               PROVE  /\ Phase'[HashOf(i)] = PhaseNames[transfers'[i].status]
                      /\ HashOf(i) \in Receipts' <=> transfers'[i].tx_in # NULL
    OBVIOUS
  <2>1. i \in DOMAIN transfers' /\ HashOf(i)' = HashOf(i)
    BY <1>1
  <2> QED
    BY <1>2, <2>1, PhaseOfRowNext DEF RowIsPhase
<1> QED
  BY <1>2, <1>3, <1>4, PhaseOfRow, PhaseOfRowNext DEF RowIsPhase

LifecycleStep == [Lifecycle!LifecycleNext]_(Lifecycle!lifecycleVars)

LEMMA SamePhase ==
  ASSUME RowsUnique, Updates, NEW h \in Hash
  PROVE  /\ (\A i \in DOMAIN transfers : HashOf(i) = h =>
                transfers'[i].status = transfers[i].status) => Phase'[h] = Phase[h]
         /\ (\A i \in DOMAIN transfers : HashOf(i) = h =>
                (transfers'[i].tx_in # NULL <=> transfers[i].tx_in # NULL))
              => (h \in Receipts' <=> h \in Receipts)
<1>1. CASE ~Tracked(h)
  BY <1>1, PhaseAfterUpdate
<1>2. CASE Tracked(h)
  <2>1. PICK i \in DOMAIN transfers : HashOf(i) = h
    BY <1>2 DEF Tracked
  <2> QED
    BY <2>1, PhaseAfterUpdate, PhaseOfRow DEF RowIsPhase
<1> QED
  BY <1>1, <1>2

LEMMA SamePhases ==
  ASSUME \A h \in Hash : Phase'[h] = Phase[h] /\ (h \in Receipts' <=> h \in Receipts)
  PROVE  LifecycleStep
<1>1. Phase' = Phase
  BY PhaseOfRow, PhaseOfRowNext DEF RowIsPhase
<1>2. Receipts' = Receipts
  BY PhaseOfRow, PhaseOfRowNext DEF RowIsPhase
<1> QED
  BY <1>1, <1>2 DEF LifecycleStep, Lifecycle!lifecycleVars

LEMMA NamesOfStatus ==
  /\ PhaseNames[Detected] = "detected" /\ PhaseNames[Processing] = "processing"
  /\ PhaseNames[Done] = "done" /\ PhaseNames[Failed] = "failed"
BY DEF PhaseNames, Status, Detected, Processing, Done, Failed

(* An outcome settles the packet. *)
LEMMA SettlingIsStep ==
  ASSUME StoreTypeOK, RowsUnique, Updates,
         NEW id \in DOMAIN transfers, InFlight(id),
         transfers'[id].status \in Terminal,
         \A i \in DOMAIN transfers : i # id => transfers'[i] = transfers[i]
  PROVE  LifecycleStep
<1> DEFINE h == HashOf(id)
<1>1. \A g \in Hash : g # h =>
        Phase'[g] = Phase[g] /\ (g \in Receipts' <=> g \in Receipts)
  BY SamePhase
<1>2. CASE h \notin Hash
  BY <1>1, <1>2, SamePhases
<1>3. CASE h \in Hash
  <2>1. transfers[id].status \in {Detected, Processing}
    BY DEF StoreTypeOK, Row, InFlight, Status, Detected, Processing, Done, Failed
  <2>2. /\ Phase[h] = PhaseNames[transfers[id].status]
        /\ Phase'[h] = PhaseNames[transfers'[id].status]
        /\ h \in Receipts <=> transfers[id].tx_in # NULL
        /\ h \in Receipts' <=> transfers'[id].tx_in # NULL
    BY <1>3, PhaseAfterUpdate, PhaseOfRow DEF RowIsPhase
  <2>3. Phase[h] \in {"detected", "processing"} /\ Phase'[h] \in {"done", "failed"}
    BY <2>1, <2>2, NamesOfStatus DEF Terminal
  <2>4. Phase' = [Phase EXCEPT ![h] = Phase'[h]]
    BY <1>1, <1>3, PhaseOfRow, PhaseOfRowNext DEF RowIsPhase
  <2>5. h \in Receipts => h \in Receipts'
    BY <2>2 DEF Updates, RowStep, RowKeepsTxIn
  <2>6. Receipts' \in {Receipts, Receipts \cup {h}}
    <3>1. Receipts' = Receipts \/ Receipts' = Receipts \cup {h}
      BY <1>1, <1>3, <2>5, PhaseOfRow, PhaseOfRowNext DEF RowIsPhase
    <3> QED
      BY <3>1
  <2>7. Lifecycle!Settle(h)
    BY <2>3, <2>4, <2>6 DEF Lifecycle!Settle, Lifecycle!Move, Lifecycle!Settled
  <2> QED
    BY <1>3, <2>7 DEF LifecycleStep, Lifecycle!LifecycleNext
<1> QED
  BY <1>2, <1>3

LEMMA MarksSettle ==
  ASSUME StoreTypeOK, RowsUnique, NEW id, NEW t \in Time, NEW m \in Message, NEW tx \in TxHash,
         MarkDone(id, t, tx) \/ MarkFailed(id, m, tx)
  PROVE  LifecycleStep
<1>1. Updates
  BY MarkDoneUpdates, MarkFailedUpdates
<1>2. \A i \in DOMAIN transfers : ~(i = id /\ InFlight(i)) => transfers'[i] = transfers[i]
  BY DEF MarkDone, MarkFailed
<1>3. CASE id \in DOMAIN transfers /\ InFlight(id)
  <2>1. transfers[id] \in Row
    BY <1>3 DEF StoreTypeOK
  <2>2. transfers'[id].status \in Terminal
    BY <1>3, <2>1 DEF MarkDone, MarkFailed, Row, Terminal
  <2> QED
    BY <1>1, <1>2, <1>3, <2>2, SettlingIsStep
<1>4. CASE ~(id \in DOMAIN transfers /\ InFlight(id))
  BY <1>1, <1>2, <1>4, SamePhase, SamePhases
<1> QED
  BY <1>3, <1>4

(* What the poll marks in one statement are packets found detected. *)
LEMMA MarkingProcesses ==
  ASSUME StoreTypeOK, RowsUnique, NEW ids, MarkProcessing(ids)
  PROVE  LifecycleStep
<1> DEFINE marked == {i \in DOMAIN transfers : i \in ids /\ transfers[i].status = Detected}
           ps == {h \in Hash : \E i \in marked : HashOf(i) = h}
<1>1. Updates
  BY MarkProcessingUpdates
<1>2. \A i \in DOMAIN transfers :
        transfers'[i] = IF i \in marked THEN [transfers[i] EXCEPT !.status = Processing]
                                        ELSE transfers[i]
  BY DEF MarkProcessing
<1>3. \A i \in DOMAIN transfers : transfers'[i].tx_in = transfers[i].tx_in
  BY <1>2 DEF StoreTypeOK, Row
<1>4. \A h \in Hash : h \in Receipts' <=> h \in Receipts
  BY <1>1, <1>3, SamePhase
<1>5. ASSUME NEW h \in Hash \ ps
      PROVE  Phase'[h] = Phase[h]
  <2>1. \A i \in DOMAIN transfers : HashOf(i) = h => transfers'[i] = transfers[i]
    BY <1>2
  <2> QED
    BY <1>1, <2>1, SamePhase
<1>6. ASSUME NEW h \in ps
      PROVE  Phase[h] = "detected" /\ Phase'[h] = "processing"
  <2>1. PICK i \in marked : HashOf(i) = h
    OBVIOUS
  <2>2. transfers[i] \in Row
    BY DEF StoreTypeOK
  <2>3. transfers[i].status = Detected /\ transfers'[i].status = Processing
    BY <1>2, <2>2 DEF Row
  <2> QED
    BY <1>1, <2>1, <2>3, PhaseAfterUpdate, PhaseOfRow, NamesOfStatus DEF RowIsPhase
<1> HIDE DEF ps, marked
<1>7. ps \subseteq Hash
  BY DEF ps
<1>8. Phase' = [h \in Hash |-> IF h \in ps THEN "processing" ELSE Phase[h]]
  BY <1>5, <1>6, PhaseOfRow, PhaseOfRowNext DEF RowIsPhase
<1>9. Receipts' = Receipts
  BY <1>4, PhaseOfRow, PhaseOfRowNext DEF RowIsPhase
<1>10. Lifecycle!Process(ps)
  BY <1>6, <1>8, <1>9 DEF Lifecycle!Process
<1> QED
  BY <1>7, <1>10 DEF LifecycleStep, Lifecycle!LifecycleNext

LEMMA SetTxInReceives ==
  ASSUME StoreTypeOK, RowsUnique, NEW h, NEW tx \in TxHash, SetTxIn(h, tx)
  PROVE  LifecycleStep
<1>1. Updates
  BY SetTxInUpdates
<1>2. \A i \in DOMAIN transfers :
        /\ transfers'[i].status = transfers[i].status
        /\ HashOf(i) # h \/ tx = NoTx => transfers'[i] = transfers[i]
  BY DEF SetTxIn, StoreTypeOK, Row
<1>3. \A g \in Hash : Phase'[g] = Phase[g]
  BY <1>1, <1>2, SamePhase
<1>4. \A g \in Hash : g # h \/ tx = NoTx => (g \in Receipts' <=> g \in Receipts)
  BY <1>1, <1>2, SamePhase
<1>5. CASE h \in Hash /\ Tracked(h) /\ tx # NoTx
  <2>1. PICK i \in DOMAIN transfers : HashOf(i) = h
    BY <1>5 DEF Tracked
  <2>2. transfers'[i].tx_in # NULL
    <3>1. tx # NULL /\ transfers[i] \in Row
      BY StoreAssumption DEF StoreTypeOK
    <3> QED
      BY <1>5, <2>1, <3>1 DEF SetTxIn, Row
  <2>3. h \in Receipts'
    BY <1>1, <1>5, <2>1, <2>2, PhaseAfterUpdate
  <2>4. Receipts' = Receipts \cup {h}
    BY <1>4, <1>5, <2>3, PhaseOfRow, PhaseOfRowNext DEF RowIsPhase
  <2>5. Phase' = Phase
    BY <1>3, PhaseOfRow, PhaseOfRowNext DEF RowIsPhase
  <2>6. Phase[h] # "untracked"
    <3>1. Phase[h] = PhaseNames[transfers[i].status] /\ transfers[i].status \in Status
      BY <1>5, <2>1, PhaseOfRow DEF RowIsPhase, StoreTypeOK, Row
    <3> QED
      BY <3>1, NamesOfStatus DEF Status
  <2>7. Lifecycle!Receive(h)
    BY <2>4, <2>5, <2>6 DEF Lifecycle!Receive
  <2> QED
    BY <1>5, <2>7 DEF LifecycleStep, Lifecycle!LifecycleNext
<1>6. CASE h \notin Hash \/ tx = NoTx
  BY <1>3, <1>4, <1>6, SamePhases
<1>7. CASE h \in Hash /\ ~Tracked(h)
  BY <1>1, <1>3, <1>4, <1>7, PhaseAfterUpdate, SamePhases
<1> QED
  BY <1>5, <1>6, <1>7

LEMMA IdleIsStep ==
  ASSUME UNCHANGED transfers
  PROVE  LifecycleStep
<1>1. \A h \in Hash : Phase'[h] = Phase[h]
  BY DEF Phase, Tracked, BestStatus, Rank, HashOf
<1>2. Receipts' = Receipts
  BY DEF Receipts, HashOf
<1> QED
  BY <1>1, <1>2, SamePhases

(* An insert detects its packet, or meets a row that has its id. *)
LEMMA InsertDetects ==
  ASSUME StoreTypeOK, RowsUnique, RowsUnique', NEW id, NEW b \in Bridge, NEW t,
         InsertRow(id, NewRow(b, t))
  PROVE  LifecycleStep
<1> DEFINE h == b.packet_hash
<1>1. CASE id \in DOMAIN transfers
  <2>1. DOMAIN transfers \cup {id} = DOMAIN transfers
    BY <1>1
  <2>2. transfers' = [i \in DOMAIN transfers |-> transfers[i]]
    BY <2>1 DEF InsertRow
  <2> QED
    BY <2>2, IdleIsStep DEF StoreTypeOK
<1>2. CASE id \notin DOMAIN transfers
  <2>1. /\ DOMAIN transfers' = DOMAIN transfers \cup {id}
        /\ \A i \in DOMAIN transfers : transfers'[i] = transfers[i]
        /\ transfers'[id] = NewRow(b, t)
    BY <1>2 DEF InsertRow
  <2>2. /\ transfers'[id].bridge = b /\ transfers'[id].status = Detected
        /\ transfers'[id].tx_in = NULL
    BY <2>1 DEF NewRow
  <2>3. ~Tracked(h)
    BY <1>2, <2>1, <2>2 DEF RowsUnique, Tracked, HashOf
  <2>4. ASSUME NEW g \in Hash \ {h}
        PROVE  Phase'[g] = Phase[g] /\ (g \in Receipts' <=> g \in Receipts)
    <3>1. CASE Tracked(g)
      <4>1. PICK i \in DOMAIN transfers : HashOf(i) = g
        BY <3>1 DEF Tracked
      <4>2. i \in DOMAIN transfers' /\ HashOf(i)' = g /\ transfers'[i] = transfers[i]
        BY <2>1, <4>1 DEF HashOf
      <4> QED
        BY <4>1, <4>2, PhaseOfRow, PhaseOfRowNext DEF RowIsPhase
    <3>2. CASE ~Tracked(g)
      <4>1. ~Tracked(g)'
        BY <2>1, <2>2, <2>4, <3>2 DEF Tracked, HashOf
      <4> QED
        BY <3>2, <4>1, PhaseOfRow, PhaseOfRowNext DEF RowIsPhase
    <3> QED
      BY <3>1, <3>2
  <2>5. CASE h \notin Hash
    BY <2>4, <2>5, SamePhases
  <2>6. CASE h \in Hash
    <3>1. Phase[h] = "untracked" /\ h \notin Receipts
      BY <2>3, <2>6, PhaseOfRow DEF RowIsPhase
    <3>2. id \in DOMAIN transfers' /\ HashOf(id)' = h
      BY <2>1, <2>2 DEF HashOf
    <3>3. Phase'[h] = "detected" /\ h \notin Receipts'
      BY <2>2, <2>6, <3>2, PhaseOfRowNext, NamesOfStatus DEF RowIsPhase
    <3>4. Phase' = [Phase EXCEPT ![h] = "detected"]
      BY <2>4, <2>6, <3>3, PhaseOfRow, PhaseOfRowNext DEF RowIsPhase
    <3>5. Receipts' = Receipts
      BY <2>4, <3>1, <3>3, PhaseOfRow, PhaseOfRowNext DEF RowIsPhase
    <3>6. Lifecycle!Detect(h)
      BY <3>1, <3>4, <3>5 DEF Lifecycle!Detect, Lifecycle!Move
    <3> QED
      BY <2>6, <3>6 DEF LifecycleStep, Lifecycle!LifecycleNext
  <2> QED
    BY <2>5, <2>6
<1> QED
  BY <1>1, <1>2

(* There is nothing to deduplicate. *)
LEMMA DedupeIdle ==
  ASSUME StoreTypeOK, RowsUnique, DedupeByPacketHash
  PROVE  LifecycleStep
<1>1. \A i, j \in DOMAIN transfers : ~RanksBefore(j, i)
  BY DEF RowsUnique, RanksBefore
<1>2. {j \in DOMAIN transfers : \A k \in DOMAIN transfers : ~RanksBefore(k, j)}
        = DOMAIN transfers
  BY <1>1
<1>3. transfers' = [i \in DOMAIN transfers |-> transfers[i]]
  BY <1>2 DEF DedupeByPacketHash
<1> QED
  BY <1>3, IdleIsStep DEF StoreTypeOK

LEMMA WritesFollowLifecycle ==
  ASSUME StoreTypeOK, RowsUnique, RowsUnique', [StoreNext]_storeVars
  PROVE  LifecycleStep
<1>1. CASE UNCHANGED transfers
  BY <1>1, IdleIsStep
<1>2. ASSUME NEW id \in Id, NEW b \in Bridge, NEW t \in Time, NEW e \in Id \cup {0},
             NEW s \in Status, InsertWrites(e, s), InsertWrite(id, NewRow(b, t), e)
      PROVE  LifecycleStep
  <2>1. InsertRow(id, NewRow(b, t))
    BY <1>2, DetectedOutranksNothing DEF InsertWrites, InsertWrite
  <2> QED
    BY <2>1, InsertDetects
<1>3. CASE DedupeByPacketHash
  BY <1>3, DedupeIdle
<1>4. ASSUME NEW ids \in SUBSET Id, MarkProcessing(ids)
      PROVE  LifecycleStep
  BY <1>4, MarkingProcesses
<1>5. ASSUME NEW id \in Id, NEW t \in Time, NEW tx \in TxHash, MarkDone(id, t, tx)
      PROVE  LifecycleStep
  <2>1. TimedOut \in Message
    BY DoneAssumption
  <2> QED
    BY <1>5, <2>1, MarksSettle
<1>6. ASSUME NEW id \in Id, NEW m \in Message, NEW tx \in TxHash, MarkFailed(id, m, tx)
      PROVE  LifecycleStep
  <2>1. 0 \in Time
    BY RelayerAssumption
  <2> QED
    BY <1>6, <2>1, MarksSettle
<1>7. ASSUME NEW h \in Hash \cup {NoHash}, NEW tx \in TxHash, SetTxIn(h, tx)
      PROVE  LifecycleStep
  BY <1>7, SetTxInReceives
<1> QED
  BY <1>1, <1>2, <1>3, <1>4, <1>5, <1>6, <1>7 DEF StoreNext, WriteTransfers, storeVars

(* Every statement of the four goroutines, those that fail and those a       *)
(* crash cuts off included, is a step in the life of a packet or is          *)
(* invisible, from any table of an older indexer that has one row per packet *)
(* (bridge.go:88-202, sync.go, listener.go).                                 *)
THEOREM LifecycleSteps ==
  ASSUME Rows0Unique
  PROVE  Spec => [][Lifecycle!LifecycleNext]_(Lifecycle!lifecycleVars)
<1>1. Spec => []OneRow
  BY OneRowHolds DEF CleanStart
<1>2. Knowledge /\ OneRow /\ OneRow' /\ [Next]_vars => LifecycleStep
  BY SystemStep, WritesFollowLifecycle DEF Knowledge, OneRow, TypeInv, TypeOK
<1> QED
  BY <1>1, <1>2, KnowledgeHolds, PTL DEF Spec, LifecycleStep

(* The indexer implements the lifecycle of a packet that TransferLifecycle   *)
(* states, when it starts with an empty table.                               *)
THEOREM ImplementsLifecycle ==
  ASSUME DOMAIN Rows0 = {}
  PROVE  Spec => FollowsLifecycle
<1>1. Spec => [][Lifecycle!LifecycleNext]_(Lifecycle!lifecycleVars)
  BY LifecycleSteps DEF Rows0Unique
<1>2. Init => Lifecycle!LifecycleInit
  <2> SUFFICES ASSUME Init PROVE Lifecycle!LifecycleInit
    OBVIOUS
  <2>1. \A h \in Hash : ~Tracked(h)
    BY DEF Init, StoreInit, Tracked
  <2>2. Phase = [h \in Hash |-> "untracked"] /\ Receipts = {}
    BY <2>1, PhaseOfRow DEF RowIsPhase
  <2> QED
    BY <2>2 DEF Lifecycle!LifecycleInit
<1> QED
  BY <1>1, <1>2, PTL DEF Spec, FollowsLifecycle, Lifecycle!LifecycleSpec

=============================================================================
