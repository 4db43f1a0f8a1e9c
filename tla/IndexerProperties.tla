------------------------- MODULE IndexerProperties --------------------------
(***************************************************************************)
(* What the indexer's table owes to the relayer's tables, to the packets   *)
(* and to its own past.                                                    *)
(***************************************************************************)
EXTENDS Indexer

TypeOK ==
  /\ StoreTypeOK
  /\ RelayerTypeOK
  /\ FaultsTypeOK
  /\ mainTask \in MainTasks
  /\ queueTask \in QueueTasks
  /\ doneTask \in DoneTasks
  /\ failedTask \in FailedTasks

-----------------------------------------------------------------------------
(* One row per packet *)

(* Once start-up has deduplicated, no packet hash has two rows, although     *)
(* Insert looks for an existing row and writes in two statements             *)
(* (bridge.go:88-122), notifications repeat what a catch-up reads, and the   *)
(* relayer may emit the same packet under a new id.                          *)
UniqueHash ==
  mainTask.pc # "dedupe" =>
    \A i, j \in DOMAIN transfers : HashOf(i) = HashOf(j) => i = j

(* A row that appears is the only one of its packet, even while duplicates   *)
(* of other packets are left from an older indexer or from a deduplication   *)
(* that failed (indexer.go:55): the SELECT of Insert is still true when its  *)
(* INSERT runs (bridge.go:88-122), whatever ran in between.                  *)
NewRowIsOnlyOne ==
  [][\A i \in DOMAIN transfers' \ DOMAIN transfers, j \in DOMAIN transfers' :
       j # i => transfers'[j].bridge.packet_hash # transfers'[i].bridge.packet_hash]_vars

-----------------------------------------------------------------------------
(* Every status has its evidence *)

Inherited(i, status) == i \in DOMAIN Rows0 /\ Rows0[i].status = status

AckOf(i, d, success) ==
  /\ place[d] = "done"
  /\ \E f \in AckFields(Item[d]) :
       /\ f.event_type = "write_ack"
       /\ f.ack_success = success
       /\ f.hash = HashOf(i)

(* A transfer is done only if the done table holds a successful              *)
(* acknowledgement of this very packet, and its completion time is that      *)
(* row's: the row was found by hash in one statement and marked by id in     *)
(* another (listener.go:137-147, 180-192).                                   *)
DoneHasAck ==
  \A i \in DOMAIN transfers :
    transfers[i].status = Done /\ ~Inherited(i, Done) =>
      \E d \in Id : AckOf(i, d, TRUE) /\ transfers[i].done_at = at[d].done

IsAncestor(a, i) ==
  \A S \in SUBSET Id :
    Parents[i] \subseteq S /\ (\A s \in S : Parents[s] \subseteq S) => a \in S

KeyMatches(i, timeout, channel) ==
  /\ transfers[i].bridge.timeout_timestamp = timeout
  /\ transfers[i].bridge.src_channel_id = channel

RelayFailure(i, f) ==
  /\ place[f] = "failed"
  /\ transfers[i].err_msg = MessageOf(f)
  /\ \/ f = i
     \/ IsAncestor(i, f)
     \/ \E k \in ParseItemFields(Item[f]) : KeyMatches(i, k.timeout, k.channel)

TimeoutSubmitted(i, d) ==
  /\ place[d] = "done"
  /\ transfers[i].err_msg = TimedOut
  /\ \E k \in ParsePacketTimeouts(Item[d]) :
       LET pt == Item[d].entries[k] IN KeyMatches(i, pt.timeout, pt.channel)

(* A transfer is failed only for a reason the relayer's tables show: an      *)
(* error acknowledgement of the packet, a submitted timeout with its key, or *)
(* a failed row that is its own, a descendant's, or a promise with its key - *)
(* and err_msg is that reason's (listener.go:158-204, 264-300,               *)
(* sync.go:169-199).                                                         *)
FailedHasCause ==
  \A i \in DOMAIN transfers :
    transfers[i].status = Failed /\ ~Inherited(i, Failed) =>
      \E r \in Id :
        \/ RelayFailure(i, r)
        \/ TimeoutSubmitted(i, r)
        \/ AckOf(i, r, FALSE) /\ transfers[i].err_msg = AckError

(* tx_in is reported by a packet_recv or a write_ack of the packet ... *)
OwnTx(i) ==
  \E d \in Id : /\ place[d] = "done"
                /\ \E f \in AckFields(Item[d]) :
                     f.hash = HashOf(i) /\ f.tx = transfers[i].tx_in

(* ... or by the failed item, of this key, the transfer failed with. *)
FailedTx(i) ==
  /\ transfers[i].status = Failed
  /\ \E r \in Id : /\ place[r] = "failed"
                   /\ transfers[i].err_msg = MessageOf(r)
                   /\ \E f \in ParseItemFields(Item[r]) :
                        /\ KeyMatches(i, f.timeout, f.channel)
                        /\ f.tx = transfers[i].tx_in

(* What a transfer shows as its receive transaction was reported by a done   *)
(* row of its own packet, found by hash and written in another statement, or *)
(* it came with the failed item the transfer failed with, matched by timeout *)
(* and channel (listener.go:136-147, 180-204, 279-291).  The second is a     *)
(* send transaction when a gno packet_send is emitted again and given up.    *)
TxInHasSource ==
  \A i \in DOMAIN transfers :
    transfers[i].tx_in # NULL /\ i \notin DOMAIN Rows0 => OwnTx(i) \/ FailedTx(i)

(* A transfer is shown as processing only when its item has left the queue,  *)
(* although the detected ids, the queue and the update are three statements  *)
(* (sync.go:58-94).                                                          *)
ProcessingHasLeftQueue ==
  \A i \in DOMAIN transfers :
    transfers[i].status = Processing /\ ~Inherited(i, Processing) => place[i] # "queue"

-----------------------------------------------------------------------------
(* Cursors: nothing behind a cursor is forgotten *)

Tracked(hash) == \E i \in DOMAIN transfers : HashOf(i) = hash

(* Nothing is left to insert of item i. *)
IsKnown(i) == \A b \in Parse(Item[i]) : Tracked(b.packet_hash)

(* When queue rows become visible in the order of their ids, every packet    *)
(* still waiting in queue at or below the queue cursor is tracked: an insert *)
(* that fails keeps the cursor back (sync.go:30-54).                         *)
QueueCursorSound ==
  \A i \in Id :
    place[i] = "queue" /\ i <= cursors["queue"] => IsKnown(i)

FailedCursorSound(i) ==
  place[i] = "failed" /\ i <= cursors["failed"] /\ i \in DOMAIN transfers =>
    transfers[i].status \in Terminal

(* When rows enter failed in the order of their ids, a transfer that is      *)
(* tracked before its item fails is settled from the moment the failed       *)
(* cursor reaches the row: a mark that fails keeps the cursor back, whatever *)
(* errors and crashes the batch meets (sync.go:177-184, 204-206), and no row *)
(* reappears behind it.  A packet inserted only after its item has failed    *)
(* may stay in flight behind the cursor, so nothing is said of it.           *)
KnownFailureSettles ==
  \A i \in Id :
    [](IsKnown(i) /\ place[i] \in {"unborn", "queue"} => []FailedCursorSound(i))

-----------------------------------------------------------------------------
(* Progress *)

IsDetected(i) == i \in DOMAIN transfers /\ transfers[i].status = Detected

(* A transfer whose item has left the queue does not stay detected: the poll *)
(* runs for ever (indexer.go:77-88) and finds it, on this side of a crash or *)
(* on the other.                                                             *)
DetectedDrains ==
  \A i \in Id : (IsDetected(i) /\ place[i] # "queue") ~> ~IsDetected(i)

InFlightPacket(hash) ==
  \E i \in DOMAIN transfers : HashOf(i) = hash /\ InFlight(i)

Acks(i, hash) ==
  \E f \in AckFields(Item[i]) : f.event_type = "write_ack" /\ f.hash = hash

Announced(i) == i \in {pending["done_insert"][k] : k \in DOMAIN pending["done_insert"]}

(* The done row d is not older than the window of a scan for transfer i. *)
InWindow(d, i) == at[d].done + Grace >= transfers[i].created_at

(* An acknowledgement announced to the listener while its packet is tracked  *)
(* settles it, even if the connection breaks or the process crashes before   *)
(* it is handled: the catch-up on reconnection and on start finds the row    *)
(* again, since it starts Grace before the oldest transfer in flight         *)
(* (listener.go:86-95, indexer.go:64-66, sync.go:102-114).  Stated for rows  *)
(* of done inside that window - one that was indexed more than a minute      *)
(* before its packet's queue row is not found again - and for statements     *)
(* that do not fail: one that does drops the event.                          *)
AnnouncedAckSettles ==
  \A d \in Id : \A h \in Hash :
    (/\ Announced(d) /\ Acks(d, h)
     /\ \E i \in DOMAIN transfers : HashOf(i) = h /\ InFlight(i) /\ InWindow(d, i))
      ~> ~InFlightPacket(h)

(* The failure of an item reaches the transfer it descends from once a       *)
(* catch-up has read the failed row: the cursor is written after the         *)
(* ancestor is marked, so a crash in between repeats the row                 *)
(* (sync.go:169-207).  Stated for an item with one tracked ancestor in       *)
(* flight, since FindAncestor picks one.                                     *)
OnlyOrigin(i, f) ==
  /\ i \in DOMAIN transfers /\ InFlight(i)
  /\ IsAncestor(i, f)
  /\ \A j \in DOMAIN transfers \ {i} : IsAncestor(j, f) => ~InFlight(j)

FailureReachesOrigin ==
  \A i, f \in Id :
    (failedTask.pc = "rows" /\ f \in failedTask.rows /\ OnlyOrigin(i, f))
      ~> ~(i \in DOMAIN transfers /\ InFlight(i))

(* Nobody the failed item f descends from is in flight but i, and no row of  *)
(* them is still to come.                                                    *)
KnownLineage(i, f) ==
  \A a \in Id : IsAncestor(a, f) => IsKnown(a) /\ (a # i => ~Matches(a))

(* The climb misses nobody and the cursor waits for it: a transfer that is   *)
(* the only one in flight among the ancestors of an item that has not failed *)
(* yet is settled before the failed cursor reaches the item's row, whichever *)
(* way the climb takes through the parents and wherever the process stops    *)
(* (sync.go:169-242).  Stated for lineages no longer than the climb, rows    *)
(* that enter failed in the order of their ids, and a climb whose statements *)
(* do not fail.                                                              *)
OriginSettlesFirst ==
  \A f \in Id : \A i \in {a \in Id : IsAncestor(a, f)} :
    [](KnownLineage(i, f) /\ place[f] \in {"unborn", "queue"} =>
         [](place[f] = "failed" /\ f <= cursors["failed"] => ~Matches(i)))

-----------------------------------------------------------------------------
(* The lifecycle of a packet *)

PhaseNames == [s \in Status |->
  CASE s = Detected -> "detected" [] s = Processing -> "processing"
    [] s = Done -> "done" [] s = Failed -> "failed"]

BestStatus(hash) ==
  LET rows == {i \in DOMAIN transfers : HashOf(i) = hash}
  IN  transfers[CHOOSE i \in rows : \A j \in rows : Rank(i) <= Rank(j)].status

Phase == [h \in Hash |-> IF Tracked(h) THEN PhaseNames[BestStatus(h)] ELSE "untracked"]

Receipts == {h \in Hash : \E i \in DOMAIN transfers :
                            HashOf(i) = h /\ transfers[i].tx_in # NULL}

Lifecycle == INSTANCE TransferLifecycle
  WITH Packet <- Hash, phase <- Phase, receipt <- Receipts

(* All the statements of the four goroutines, their failures and crashes are *)
(* steps of the life of a packet, or are invisible.                          *)
FollowsLifecycle == Lifecycle!LifecycleSpec

=============================================================================
