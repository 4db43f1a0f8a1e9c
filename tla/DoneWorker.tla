----------------------------- MODULE DoneWorker -----------------------------
(***************************************************************************)
(* The goroutine listenDone (listener.go) with syncDone (sync.go): it      *)
(* settles transfers from done rows.  A done row is a list of jobs: the    *)
(* ack fields of the item and its packet timeouts.  Every job is a SELECT  *)
(* that finds the transfer and an UPDATE of the row found, two statements  *)
(* other goroutines may come between.                                      *)
(***************************************************************************)
EXTENDS RelayerDB, Faults

CONSTANTS
  Grace,     \* how far before the oldest in-flight transfer syncDone looks
  TimedOut,  \* err_msg of a packet timeout
  AckError   \* err_msg of an acknowledgement that is an error

VARIABLE doneTask

ASSUME DoneAssumption == Grace \in Nat /\ {TimedOut, AckError} \subseteq Message

DoneLabels == {"off", "sync", "scan", "rows", "connect", "wait", "find", "apply"}

(* via: notification or scan; id: the done row in hand; jobs: what is left   *)
(* to do for it; found: the bridge id the job's SELECT found; rows: rows of  *)
(* the scan not read yet; since: lower bound of the scan.                    *)
DoneTasks ==
  [pc : DoneLabels, via : {"notify", "sync"}, id : Id \cup {0}, jobs : SUBSET Nat,
   found : Id \cup {0}, rows : SUBSET Id, since : Int]

DoneAt(label) ==
  [pc |-> label, via |-> "notify", id |-> 0, jobs |-> {}, found |-> 0,
   rows |-> {}, since |-> 0]

DoneGoto(label) == doneTask' = DoneAt(label)

(* What an item asks for: its acknowledgement fields are job 0, the timeout  *)
(* at position k is job k.  No item has both, so the listener and the scan,  *)
(* which take the two in different order, go through the same jobs.          *)
Jobs(i) ==
  {0 : f \in AckFields(Item[i])} \cup ParsePacketTimeouts(Item[i])

TimeoutFields(e) ==
  [event_type |-> "packet_timeout", timeout |-> e.timeout, channel |-> e.channel,
   hash |-> NoHash, tx |-> NoTx, ack_success |-> FALSE]

JobFields(i, k) ==
  IF k = 0 THEN AckFields(Item[i]) ELSE {TimeoutFields(Item[i].entries[k])}

(* The fields of the job in hand, the first one left. *)
DoneJob ==
  UNION {JobFields(doneTask.id, k) : k \in {n \in doneTask.jobs : IsNext(n, doneTask.jobs)}}

(* Where the goroutine goes with the jobs left of the row in hand. *)
DoneProceed(i, jobs) ==
  doneTask' =
    IF jobs # {}
    THEN [doneTask EXCEPT !.pc = "find", !.id = i, !.jobs = jobs, !.found = 0,
                          !.rows = @ \ {i}]
    ELSE IF doneTask.via = "sync"
    THEN [doneTask EXCEPT !.pc = "rows", !.id = 0, !.jobs = {}, !.found = 0,
                          !.rows = @ \ {i}]
    ELSE DoneAt("wait")

DoneNextJob ==
  DoneProceed(doneTask.id, {n \in doneTask.jobs : ~IsNext(n, doneTask.jobs)})

-----------------------------------------------------------------------------
(* runDoneListener: acquire a connection and LISTEN; an error leads to       *)
(* syncDone.                                                                 *)
DoneConnect ==
  /\ doneTask.pc = "connect"
  /\ \/ NoFault /\ Listen("done_insert") /\ DoneGoto("wait")
     \/ Fault("error") /\ DoneGoto("sync") /\ UNCHANGED relayerVars
  /\ UNCHANGED storeVars

(* Mutant: reconnection without a catch-up. *)
DoneLostOnly ==
  /\ doneTask.pc = "wait"
  /\ "done_insert" \notin listening
  /\ DoneGoto("connect")
  /\ UNCHANGED <<storeVars, relayerVars, budget>>

(* WaitForNotification fails: the connection is gone. *)
DoneLost ==
  /\ doneTask.pc = "wait"
  /\ "done_insert" \notin listening
  /\ DoneGoto("sync")
  /\ UNCHANGED <<storeVars, relayerVars, budget>>

(* A notification: the done row is read; it is still there, but the query    *)
(* may fail.                                                                 *)
DoneNotify ==
  /\ doneTask.pc = "wait"
  /\ Receive("done_insert")
  /\ LET i == Received("done_insert") IN
       \/ NoFault /\ DoneProceed(i, Jobs(i))
       \/ Fault("error") /\ UNCHANGED doneTask
  /\ UNCHANGED storeVars

FindFor(job) ==
  IF job.event_type = "packet_timeout"
  THEN FindByTimeoutAndChannel(job.timeout, job.channel)
  ELSE FindByPacketHash(job.hash)

(* The job's SELECT; no row, or an error, ends the job. *)
DoneFind ==
  /\ doneTask.pc = "find"
  /\ \/ /\ NoFault
        /\ \E job \in DoneJob : \E i \in FindFor(job) :
             IF i # 0
             THEN doneTask' = [doneTask EXCEPT !.pc = "apply", !.found = i]
             ELSE DoneNextJob
     \/ Fault("error") /\ DoneNextJob
  /\ UNCHANGED <<storeVars, relayerVars>>

(* Mutant: a packet_recv taken for completion. *)
ApplyJobRecvIsDone(job, found, createdAt) ==
  CASE job.event_type = "packet_recv" -> MarkDone(found, createdAt, job.tx)
    [] job.event_type = "write_ack" /\ job.ack_success ->
         MarkDone(found, createdAt, job.tx)
    [] job.event_type = "write_ack" /\ ~job.ack_success ->
         MarkFailed(found, AckError, job.tx)
    [] job.event_type = "packet_timeout" -> MarkFailed(found, TimedOut, NoTx)

(* The job's UPDATE: SetTxIn by packet hash for a packet_recv, MarkDone or   *)
(* MarkFailed of the row found for a write_ack (markWriteAckResult), and     *)
(* MarkFailed for a timeout (markPacketTimeoutFailed).                       *)
ApplyJob(job, found, createdAt) ==
  CASE job.event_type = "packet_recv" -> SetTxIn(job.hash, job.tx)
    [] job.event_type = "write_ack" /\ job.ack_success ->
         MarkDone(found, createdAt, job.tx)
    [] job.event_type = "write_ack" /\ ~job.ack_success ->
         MarkFailed(found, AckError, job.tx)
    [] job.event_type = "packet_timeout" -> MarkFailed(found, TimedOut, NoTx)

DoneApply ==
  /\ doneTask.pc = "apply"
  /\ \E job \in DoneJob :
       LET apply == ApplyJob(job, doneTask.found, at[doneTask.id].done)
       IN  \/ NoFault /\ apply
           \/ Fault("error") /\ (apply \/ UNCHANGED transfers)
  /\ DoneNextJob
  /\ UNCHANGED <<cursors, relayerVars>>

(* syncDone: GetInFlightCreatedAt; with nothing in flight there is nothing   *)
(* to scan for.                                                              *)
DoneSync ==
  /\ doneTask.pc = "sync"
  /\ \/ /\ NoFault
        /\ IF GetInFlightCreatedAt = {}
           THEN DoneGoto("connect")
           ELSE doneTask' = [DoneAt("scan") EXCEPT
                  !.via = "sync", !.since = Min(GetInFlightCreatedAt) - Grace]
     \/ Fault("error") /\ DoneGoto("connect")
  /\ UNCHANGED <<storeVars, relayerVars>>

(* The scan of done. *)
DoneScan ==
  /\ doneTask.pc = "scan"
  /\ \/ /\ NoFault
        /\ doneTask' = [doneTask EXCEPT !.pc = "rows", !.since = 0,
             !.rows = {i \in InTable("done") : /\ PassesScan(Item[i])
                                               /\ at[i].done >= doneTask.since}]
     \/ Fault("error") /\ DoneGoto("connect")
  /\ UNCHANGED <<storeVars, relayerVars>>

(* The next row of the scan, in no particular order; reading on may fail. *)
DoneRow ==
  /\ doneTask.pc = "rows"
  /\ \/ \E i \in doneTask.rows : NoFault /\ DoneProceed(i, Jobs(i))
     \/ doneTask.rows = {} /\ NoFault /\ DoneGoto("connect")
     \/ Fault("error") /\ DoneGoto("connect")
  /\ UNCHANGED <<storeVars, relayerVars>>

DoneStep ==
  \/ DoneConnect \/ DoneLost \/ DoneNotify
  \/ DoneFind \/ DoneApply
  \/ DoneSync \/ DoneScan \/ DoneRow

=============================================================================
