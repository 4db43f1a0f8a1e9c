---------------------------- MODULE FailedWorker ----------------------------
(***************************************************************************)
(* The goroutine listenFailed (listener.go) with syncFailed (sync.go): it  *)
(* marks transfers failed from failed rows.  Both mark the row's own id    *)
(* first.  When that matches nothing the listener tries the key of a       *)
(* promise item; the catch-up batch always goes on to climb the parents to *)
(* an ancestor that is in flight.                                          *)
(***************************************************************************)
EXTENDS RelayerDB, Faults

CONSTANT TraceDepth \* levels traceFailedAncestor climbs at most

VARIABLE failedTask

ASSUME FailedAssumption ==
  /\ TraceDepth \in Nat
  /\ \A i \in Id : MessageOf(i) \in Message

FailedLabels == {"off", "sync", "rows", "connect", "wait", "direct", "trace",
                 "ancestor", "find", "promise", "cursor"}

(* via: notification or batch; id: the failed row in hand; found: what the   *)
(* last finder found; level, visited, depth: the locals of                   *)
(* traceFailedAncestor (current, visited, depth); rows, lastID: as in        *)
(* syncFailed.                                                               *)
FailedTasks ==
  [pc : FailedLabels, via : {"notify", "sync"}, id : Id \cup {0},
   found : Id \cup {0}, level : SUBSET Id, visited : SUBSET Id,
   depth : Nat, rows : SUBSET Id, lastID : Id \cup {0}]

FailedAt(label) ==
  [pc |-> label, via |-> "notify", id |-> 0, found |-> 0, level |-> {},
   visited |-> {}, depth |-> 0, rows |-> {}, lastID |-> 0]

FailedGoto(label) == failedTask' = FailedAt(label)

(* The batch goes on with its next row. *)
FailedNextRow(lastID) ==
  failedTask' = [FailedAt("rows") EXCEPT
    !.via = "sync", !.rows = failedTask.rows, !.lastID = lastID]

(* Mutant: the cursor passes the row whose mark went wrong. *)
FailedEndBatchPast ==
  failedTask' = IF failedTask.lastID > 0 \/ failedTask.id > 0
                THEN [FailedAt("cursor") EXCEPT !.lastID = Max({failedTask.lastID, failedTask.id})]
                ELSE FailedAt("connect")

(* The batch ends: the cursor is written unless nothing was marked. *)
FailedEndBatch ==
  failedTask' = IF failedTask.lastID > 0
                THEN [FailedAt("cursor") EXCEPT !.lastID = failedTask.lastID]
                ELSE FailedAt("connect")

-----------------------------------------------------------------------------
(* runFailedListener: acquire a connection and LISTEN; an error leads to     *)
(* syncFailed.                                                               *)
FailedConnect ==
  /\ failedTask.pc = "connect"
  /\ \/ NoFault /\ Listen("failed_insert") /\ FailedGoto("wait")
     \/ Fault("error") /\ FailedGoto("sync") /\ UNCHANGED relayerVars
  /\ UNCHANGED storeVars

(* WaitForNotification fails: the connection is gone. *)
FailedLost ==
  /\ failedTask.pc = "wait"
  /\ "failed_insert" \notin listening
  /\ FailedGoto("sync")
  /\ UNCHANGED <<storeVars, relayerVars, budget>>

(* A notification: the failed row is read. *)
FailedNotify ==
  /\ failedTask.pc = "wait"
  /\ Receive("failed_insert")
  /\ \/ /\ NoFault
        /\ failedTask' = [FailedAt("direct") EXCEPT !.id = Received("failed_insert")]
     \/ Fault("error") /\ UNCHANGED failedTask
  /\ UNCHANGED storeVars

(* Mutant: an item without a transfer of its own is not traced. *)
AfterDirectOwnOnly(matched) ==
  IF failedTask.via = "sync"
  THEN IF Parents[failedTask.id] = {} \/ ~matched
       THEN FailedNextRow(failedTask.id)
       ELSE failedTask' = [failedTask EXCEPT
              !.pc = "trace", !.lastID = failedTask.id,
              !.level = Parents[failedTask.id]]
  ELSE FailedGoto("wait")

(* MarkFailed of the failed row's own id.  The listener stops at a match and *)
(* at an error.  The batch counts the row as read and traces its parents; an *)
(* error breaks the batch off before the row.                                *)
AfterDirect(matched) ==
  IF failedTask.via = "sync"
  THEN IF Parents[failedTask.id] = {}
       THEN FailedNextRow(failedTask.id)
       ELSE failedTask' = [failedTask EXCEPT
              !.pc = "trace", !.lastID = failedTask.id,
              !.level = Parents[failedTask.id]]
  ELSE IF ~matched /\ ParseItemFields(Item[failedTask.id]) # {}
  THEN failedTask' = [failedTask EXCEPT !.pc = "find"]
  ELSE FailedGoto("wait")

FailedDirect ==
  /\ failedTask.pc = "direct"
  /\ LET mark == MarkFailed(failedTask.id, MessageOf(failedTask.id), NoTx) IN
       \/ NoFault /\ mark /\ AfterDirect(Matches(failedTask.id))
       \/ /\ Fault("error")
          /\ mark \/ UNCHANGED transfers
          /\ IF failedTask.via = "sync" THEN FailedEndBatch ELSE FailedGoto("wait")
  /\ UNCHANGED <<cursors, relayerVars>>

(* handleFailedNotification's fallback: a transfer with the timeout and the  *)
(* channel of the failed item.                                               *)
FailedFind ==
  /\ failedTask.pc = "find"
  /\ \/ /\ NoFault
        /\ \E f \in ParseItemFields(Item[failedTask.id]) :
             \E i \in FindByTimeoutAndChannel(f.timeout, f.channel) :
               IF i # 0 THEN failedTask' = [failedTask EXCEPT !.pc = "promise", !.found = i]
                        ELSE FailedGoto("wait")
     \/ Fault("error") /\ FailedGoto("wait")
  /\ UNCHANGED <<storeVars, relayerVars>>

FailedPromise ==
  /\ failedTask.pc = "promise"
  /\ \E f \in ParseItemFields(Item[failedTask.id]) :
       LET mark == MarkFailed(failedTask.found, MessageOf(failedTask.id), f.tx)
       IN  \/ NoFault /\ mark
           \/ Fault("error") /\ (mark \/ UNCHANGED transfers)
  /\ FailedGoto("wait")
  /\ UNCHANGED <<cursors, relayerVars>>

(* Mutant: only the parents are looked at. *)
ClimbNoFurther(skipped) == failedTask' = [failedTask EXCEPT !.depth = @ + 1, !.level = {}]

(* One level of traceFailedAncestor: an ancestor in flight ends the climb;   *)
(* without one it goes on with the parents of the done rows of this level,   *)
(* whose queries are skipped when they fail.  0, the row itself and an error *)
(* all mean "next row".                                                      *)
Climb(skipped) ==
  failedTask' = [failedTask EXCEPT
    !.depth = @ + 1,
    !.visited = @ \cup failedTask.level,
    !.level = UNION {Parents[p] : p \in
                {q \in failedTask.level \ (failedTask.visited \cup skipped) :
                   place[q] = "done"}}]

FailedTrace ==
  /\ failedTask.pc = "trace"
  /\ IF failedTask.depth = TraceDepth \/ failedTask.level = {}
     THEN NoFault /\ FailedNextRow(failedTask.lastID)
     ELSE \/ \E i \in FindAncestor(failedTask.level) :
               IF i = 0
               THEN \/ NoFault /\ Climb({})
                    \/ Fault("error") /\ \E q \in failedTask.level : Climb({q})
               ELSE /\ NoFault
                    /\ IF i = failedTask.id
                       THEN FailedNextRow(failedTask.lastID)
                       ELSE failedTask' = [failedTask EXCEPT
                              !.pc = "ancestor", !.found = i, !.level = {},
                              !.visited = {}, !.depth = 0]
          \/ Fault("error") /\ FailedNextRow(failedTask.lastID)
  /\ UNCHANGED <<storeVars, relayerVars>>

(* MarkFailed of the ancestor. *)
FailedAncestor ==
  /\ failedTask.pc = "ancestor"
  /\ LET mark == MarkFailed(failedTask.found, MessageOf(failedTask.id), NoTx)
     IN  \/ NoFault /\ mark
         \/ Fault("error") /\ (mark \/ UNCHANGED transfers)
  /\ FailedNextRow(failedTask.lastID)
  /\ UNCHANGED <<cursors, relayerVars>>

(* syncFailed: GetCursor and the batch, two statements taken as one step:    *)
(* only this goroutine writes the cursor it reads.                           *)
FailedSync ==
  /\ failedTask.pc = "sync"
  /\ \/ /\ NoFault
        /\ failedTask' = [FailedAt("rows") EXCEPT !.via = "sync",
             !.rows = BatchAfter("failed", GetCursor("failed"))]
     \/ Fault("error") /\ FailedGoto("connect")
  /\ UNCHANGED <<storeVars, relayerVars>>

(* The next row of the batch; reading on may fail. *)
FailedRow ==
  /\ failedTask.pc = "rows"
  /\ \/ \E i \in Id :
          /\ NoFault
          /\ IsNext(i, failedTask.rows)
          /\ failedTask' = [failedTask EXCEPT !.pc = "direct", !.id = i, !.rows = @ \ {i}]
     \/ failedTask.rows = {} /\ NoFault /\ FailedEndBatch
     \/ Fault("error") /\ FailedGoto("connect")
  /\ UNCHANGED <<storeVars, relayerVars>>

FailedSetCursor ==
  /\ failedTask.pc = "cursor"
  /\ \/ NoFault /\ SetCursor("failed", failedTask.lastID)
     \/ Fault("error") /\ (SetCursor("failed", failedTask.lastID) \/ UNCHANGED cursors)
  /\ FailedGoto("connect")
  /\ UNCHANGED <<transfers, relayerVars>>

FailedStep ==
  \/ FailedConnect \/ FailedLost \/ FailedNotify
  \/ FailedDirect \/ FailedFind \/ FailedPromise
  \/ FailedTrace \/ FailedAncestor
  \/ FailedSync \/ FailedRow \/ FailedSetCursor

=============================================================================
