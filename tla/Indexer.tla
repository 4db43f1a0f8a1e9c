------------------------------ MODULE Indexer -------------------------------
(***************************************************************************)
(* The indexer process (internal/indexer/indexer.go): start-up, the poll   *)
(* loop, and the three listener goroutines of QueueWorker, DoneWorker and  *)
(* FailedWorker, over its own database (BridgeDB) and the relayer's        *)
(* (RelayerDB).                                                            *)
(*                                                                         *)
(* At start-up Run calls syncQueue, syncDone and syncFailed itself, one    *)
(* after the other, before it starts a goroutine.  The model lends each    *)
(* call to the goroutine it belongs to and starts the next when it ends.   *)
(***************************************************************************)
EXTENDS QueueWorker, DoneWorker, FailedWorker

VARIABLE mainTask \* the goroutine of Run: its label and the ids poll has read

tasks == <<mainTask, queueTask, doneTask, failedTask>>

vars == <<storeVars, relayerVars, budget, tasks>>

BootLabels == {"dedupe", "syncQueue", "syncDone", "syncFailed"}
PollLabels == {"tick", "pollQueue", "pollMark"}

Booting == mainTask.pc \in BootLabels

MainTasks == [pc : BootLabels \cup PollLabels, ids : SUBSET Id]

MainGoto(label) == mainTask' = [pc |-> label, ids |-> {}]

-----------------------------------------------------------------------------
(* Start-up *)

(* DedupeByPacketHash; an error is logged and the start goes on. *)
Dedupe ==
  /\ mainTask.pc = "dedupe"
  /\ \/ NoFault /\ DedupeByPacketHash
     \/ Fault("error") /\ (DedupeByPacketHash \/ UNCHANGED transfers)
  /\ MainGoto("syncQueue")
  /\ QueueGoto("sync")
  /\ UNCHANGED <<cursors, relayerVars, doneTask, failedTask>>

BootDone ==
  /\ mainTask.pc = "syncQueue"
  /\ queueTask.pc = "connect"
  /\ MainGoto("syncDone")
  /\ DoneGoto("sync")
  /\ UNCHANGED <<storeVars, relayerVars, budget, queueTask, failedTask>>

BootFailed ==
  /\ mainTask.pc = "syncDone"
  /\ doneTask.pc = "connect"
  /\ MainGoto("syncFailed")
  /\ FailedGoto("sync")
  /\ UNCHANGED <<storeVars, relayerVars, budget, queueTask, doneTask>>

(* The goroutines start, and so does the poll ticker. *)
StartListeners ==
  /\ mainTask.pc = "syncFailed"
  /\ failedTask.pc = "connect"
  /\ MainGoto("tick")
  /\ UNCHANGED <<storeVars, relayerVars, budget, queueTask, doneTask, failedTask>>

-----------------------------------------------------------------------------
(* poll: syncProcessing *)

(* GetDetectedIDs *)
PollDetected ==
  /\ mainTask.pc = "tick"
  /\ \/ /\ NoFault
        /\ IF GetDetectedIDs = {} THEN MainGoto("tick")
           ELSE mainTask' = [pc |-> "pollQueue", ids |-> GetDetectedIDs]
     \/ Fault("error") /\ UNCHANGED mainTask
  /\ UNCHANGED <<storeVars, relayerVars, queueTask, doneTask, failedTask>>

(* Mutant: the ids that are still in the queue are taken for gone. *)
PollQueueInverted ==
  /\ mainTask.pc = "pollQueue"
  /\ LET gone == mainTask.ids \cap InTable("queue") IN
       \/ /\ NoFault
          /\ IF gone = {} THEN MainGoto("tick")
                          ELSE mainTask' = [pc |-> "pollMark", ids |-> gone]
       \/ Fault("error") /\ MainGoto("tick")
  /\ UNCHANGED <<storeVars, relayerVars, queueTask, doneTask, failedTask>>

(* Which of them have left queue *)
PollQueue ==
  /\ mainTask.pc = "pollQueue"
  /\ LET gone == mainTask.ids \ InTable("queue") IN
       \/ /\ NoFault
          /\ IF gone = {} THEN MainGoto("tick")
                          ELSE mainTask' = [pc |-> "pollMark", ids |-> gone]
       \/ Fault("error") /\ MainGoto("tick")
  /\ UNCHANGED <<storeVars, relayerVars, queueTask, doneTask, failedTask>>

PollMark ==
  /\ mainTask.pc = "pollMark"
  /\ LET mark == MarkProcessing(mainTask.ids) IN
       \/ NoFault /\ mark
       \/ Fault("error") /\ (mark \/ UNCHANGED transfers)
  /\ MainGoto("tick")
  /\ UNCHANGED <<cursors, relayerVars, queueTask, doneTask, failedTask>>

MainStep ==
  \/ Dedupe \/ BootDone \/ BootFailed \/ StartListeners
  \/ PollDetected \/ PollQueue \/ PollMark

-----------------------------------------------------------------------------
(* The goroutines: LISTEN is reached only once they are started. *)

QueueTurn ==
  /\ queueTask.pc = "connect" => ~Booting
  /\ QueueStep
  /\ UNCHANGED <<mainTask, doneTask, failedTask>>

DoneTurn ==
  /\ doneTask.pc = "connect" => ~Booting
  /\ DoneStep
  /\ UNCHANGED <<mainTask, queueTask, failedTask>>

FailedTurn ==
  /\ failedTask.pc = "connect" => ~Booting
  /\ FailedStep
  /\ UNCHANGED <<mainTask, queueTask, doneTask>>

-----------------------------------------------------------------------------
(* The world around it *)

RelayerTurn == RelayerStep /\ UNCHANGED <<storeVars, budget, tasks>>

(* A listening connection breaks. *)
ConnectionLost ==
  /\ \E c \in listening : Unlisten({c})
  /\ Fault("disconnect")
  /\ UNCHANGED <<storeVars, tasks>>

(* The process stops anywhere and is started again: only the databases       *)
(* survive.                                                                  *)
Crash ==
  /\ Fault("crash")
  /\ Unlisten(NotifyChannels)
  /\ MainGoto("dedupe")
  /\ QueueGoto("off") /\ DoneGoto("off") /\ FailedGoto("off")
  /\ UNCHANGED storeVars

Init ==
  /\ StoreInit
  /\ RelayerInit
  /\ FaultsInit
  /\ mainTask = [pc |-> "dedupe", ids |-> {}]
  /\ queueTask = QueueAt("off")
  /\ doneTask = DoneAt("off")
  /\ failedTask = FailedAt("off")

Next ==
  \/ MainStep \/ QueueTurn \/ DoneTurn \/ FailedTurn
  \/ RelayerTurn \/ ConnectionLost \/ Crash

Spec == Init /\ [][Next]_vars

(* Goroutines are scheduled and their statements return (or fail); the poll  *)
(* ticker keeps ticking.  The relayer owes nothing.                          *)
Fairness ==
  /\ WF_vars(MainStep) /\ WF_vars(QueueTurn)
  /\ WF_vars(DoneTurn) /\ WF_vars(FailedTurn)

FairSpec == Spec /\ Fairness

=============================================================================
