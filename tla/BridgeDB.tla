------------------------------ MODULE BridgeDB ------------------------------
(***************************************************************************)
(* The indexer's own database (internal/db/bridge.go): the transfers table *)
(* and the indexer_cursors table.  Every SQL statement is an action or an  *)
(* operator on the state, atomic as PostgreSQL makes it; what a Go method  *)
(* does in two statements is left to its caller in two steps.              *)
(*                                                                         *)
(* StoreSpec is the store under ANY client: statements in any order, with  *)
(* any arguments.  What it promises does not depend on the indexer.        *)
(***************************************************************************)
EXTENDS Integers, Parser

CONSTANTS
  Id,      \* row ids, shared with the relayer's queue, done and failed tables
  Time,    \* values of created_at and done_at
  Message, \* texts stored in err_msg
  NULL,    \* SQL NULL
  Rows0    \* the transfers table at the beginning, rows of an older indexer included

VARIABLES
  transfers, \* id -> row, for the rows of table transfers
  cursors    \* cursor name -> last id, 0 when the row is absent

storeVars == <<transfers, cursors>>

(* BridgeStatus *)
Detected   == 0
Processing == 1
Done       == 2
Failed     == 3
Status     == {Detected, Processing, Done, Failed}

CursorNames == {"queue", "failed"}

(* A row: what Parse read off an event, and what became of the transfer. *)
Row == [bridge     : Bridge,
        status     : Status,
        created_at : Time,
        done_at    : Time \cup {NULL},
        err_msg    : Message \cup {NULL},
        tx_in      : TxHash \cup {NULL}]

(* Mutant: created_at left out of the INSERT. *)
NewRowUndated(bridge, createdAt) ==
  [bridge |-> bridge, status |-> Detected, created_at |-> NULL,
   done_at |-> NULL, err_msg |-> NULL, tx_in |-> NULL]

NewRow(bridge, createdAt) ==
  [bridge |-> bridge, status |-> Detected, created_at |-> createdAt,
   done_at |-> NULL, err_msg |-> NULL, tx_in |-> NULL]

ColumnsOK(row) ==
  /\ row.status = Done <=> row.done_at # NULL
  /\ row.status = Failed <=> row.err_msg # NULL
  /\ row.tx_in # NoTx

ASSUME StoreAssumption ==
  /\ Id \subseteq Nat \ {0}
  /\ NULL \notin Time /\ NULL \notin Message /\ NULL \notin TxHash
  /\ DOMAIN Rows0 \subseteq Id
  /\ Rows0 = [i \in DOMAIN Rows0 |-> Rows0[i]]
  /\ \A i \in DOMAIN Rows0 : Rows0[i] \in Row

HashOf(i) == transfers[i].bridge.packet_hash

Terminal == {Done, Failed}

InFlight(i) == transfers[i].status < Done

-----------------------------------------------------------------------------
(* Reads.  A finder is the set of ids its LIMIT 1 may pick; 0 is "no row". *)

OrNone(ids) == IF ids = {} THEN {0} ELSE ids

(* Lowest wins: done, failed, processing, detected. *)
StatusPriority(s) ==
  CASE s = Done -> 0 [] s = Failed -> 1 [] s = Processing -> 2 [] OTHER -> 3

(* Mutant: Insert without its SELECT. *)
ExistingForNobody(hash) == {0}

(* The first statement of Insert. *)
ExistingFor(hash) == OrNone({i \in DOMAIN transfers : HashOf(i) = hash})

(* Mutant: matched by channel only. *)
FindByChannel(timeout, channel) ==
  OrNone({i \in DOMAIN transfers :
            transfers[i].bridge.src_channel_id = channel /\ InFlight(i)})

FindByTimeoutAndChannel(timeout, channel) ==
  OrNone({i \in DOMAIN transfers :
            /\ transfers[i].bridge.timeout_timestamp = timeout
            /\ transfers[i].bridge.src_channel_id = channel
            /\ InFlight(i)})

(* Mutant: any row that has not failed. *)
FindByNoHash(hash) == OrNone({i \in DOMAIN transfers : transfers[i].status < Failed})

FindByPacketHash(hash) ==
  OrNone({i \in DOMAIN transfers : HashOf(i) = hash /\ transfers[i].status < Failed})

FindAncestor(ids) == OrNone({i \in DOMAIN transfers : i \in ids /\ InFlight(i)})

GetDetectedIDs == {i \in DOMAIN transfers : transfers[i].status = Detected}

GetInFlightCreatedAt ==
  {transfers[i].created_at : i \in {j \in DOMAIN transfers : InFlight(j)}}

GetCursor(name) == cursors[name]

-----------------------------------------------------------------------------
(* Writes *)

(* INSERT ... ON CONFLICT (id) DO NOTHING *)
InsertRow(id, row) ==
  transfers' = [i \in DOMAIN transfers \cup {id} |->
                  IF i \in DOMAIN transfers THEN transfers[i] ELSE row]

Outranks(s, t) == StatusPriority(s) < StatusPriority(t)

(* The second statement of Insert, after its SELECT answered "existing" (0   *)
(* for no row).                                                              *)
InsertWrite(id, row, existing) ==
  IF existing = 0 THEN InsertRow(id, row)
  ELSE transfers' = [i \in DOMAIN transfers |->
         IF i = existing THEN [transfers[i] EXCEPT !.status = row.status]
                         ELSE transfers[i]]

(* It runs only when there is no row or the new one outranks what the SELECT *)
(* saw of it.  Rows come detected, which outranks nothing.                   *)
InsertWrites(existing, existingStatus) ==
  existing = 0 \/ Outranks(Detected, existingStatus)

(* Mutant: the oldest row is kept, whatever its status. *)
RanksBeforeById(i, j) == i < j /\ HashOf(i) = HashOf(j)

(* Row i ranks before row j among the rows of one packet hash. *)
RanksBefore(i, j) ==
  /\ i # j
  /\ HashOf(i) = HashOf(j)
  /\ \/ StatusPriority(transfers[i].status) < StatusPriority(transfers[j].status)
     \/ StatusPriority(transfers[i].status) = StatusPriority(transfers[j].status) /\ i < j

DedupeByPacketHash ==
  transfers' =
    [i \in {j \in DOMAIN transfers : \A k \in DOMAIN transfers : ~RanksBefore(k, j)}
       |-> transfers[i]]

(* Mutants: no guard on the status, and a status counted up. *)
MarkProcessingAlways(ids) ==
  transfers' = [i \in DOMAIN transfers |->
    IF i \in ids THEN [transfers[i] EXCEPT !.status = Processing] ELSE transfers[i]]
MarkProcessingNext(ids) ==
  transfers' = [i \in DOMAIN transfers |->
    IF i \in ids THEN [transfers[i] EXCEPT !.status = @ + 1] ELSE transfers[i]]

MarkProcessing(ids) ==
  transfers' = [i \in DOMAIN transfers |->
    IF i \in ids /\ transfers[i].status = Detected
    THEN [transfers[i] EXCEPT !.status = Processing]
    ELSE transfers[i]]

(* COALESCE(tx_in, NULLIF(tx, '')) *)
TxInOr(old, tx) == IF old # NULL THEN old ELSE IF tx = NoTx THEN NULL ELSE tx

(* MarkDone and MarkFailed report whether they matched a row. *)
Matches(id) == id \in DOMAIN transfers /\ InFlight(id)

MarkDone(id, doneAt, tx) ==
  transfers' = [i \in DOMAIN transfers |->
    IF i = id /\ InFlight(i)
    THEN [transfers[i] EXCEPT !.status = Done, !.done_at = doneAt,
                              !.tx_in = TxInOr(transfers[i].tx_in, tx)]
    ELSE transfers[i]]

(* Mutant: no guard on the status. *)
MarkFailedAlways(id, errMsg, tx) ==
  transfers' = [i \in DOMAIN transfers |->
    IF i = id
    THEN [transfers[i] EXCEPT !.status = Failed, !.err_msg = errMsg,
                              !.tx_in = TxInOr(transfers[i].tx_in, tx)]
    ELSE transfers[i]]

MarkFailed(id, errMsg, tx) ==
  transfers' = [i \in DOMAIN transfers |->
    IF i = id /\ InFlight(i)
    THEN [transfers[i] EXCEPT !.status = Failed, !.err_msg = errMsg,
                              !.tx_in = TxInOr(transfers[i].tx_in, tx)]
    ELSE transfers[i]]

(* Mutants: the empty hash written, and an earlier hash overwritten. *)
SetTxInEmpty(hash, tx) ==
  transfers' = [i \in DOMAIN transfers |->
    IF HashOf(i) = hash /\ transfers[i].tx_in = NULL
    THEN [transfers[i] EXCEPT !.tx_in = tx] ELSE transfers[i]]
SetTxInAlways(hash, tx) ==
  transfers' = [i \in DOMAIN transfers |->
    IF tx # NoTx /\ HashOf(i) = hash
    THEN [transfers[i] EXCEPT !.tx_in = tx] ELSE transfers[i]]

SetTxIn(hash, tx) ==
  transfers' = [i \in DOMAIN transfers |->
    IF tx # NoTx /\ HashOf(i) = hash /\ transfers[i].tx_in = NULL
    THEN [transfers[i] EXCEPT !.tx_in = tx]
    ELSE transfers[i]]

SetCursor(name, id) == cursors' = [cursors EXCEPT ![name] = id]

-----------------------------------------------------------------------------
(* The store under any client. *)

StoreInit ==
  /\ transfers = Rows0
  /\ cursors = [n \in CursorNames |-> 0]

WriteTransfers ==
  \/ \E id \in Id, b \in Bridge, t \in Time, e \in Id \cup {0}, s \in Status :
       InsertWrites(e, s) /\ InsertWrite(id, NewRow(b, t), e)
  \/ DedupeByPacketHash
  \/ \E ids \in SUBSET Id : MarkProcessing(ids)
  \/ \E id \in Id, t \in Time, tx \in TxHash : MarkDone(id, t, tx)
  \/ \E id \in Id, m \in Message, tx \in TxHash : MarkFailed(id, m, tx)
  \/ \E h \in Hash \cup {NoHash}, tx \in TxHash : SetTxIn(h, tx)

StoreNext ==
  \/ WriteTransfers /\ UNCHANGED cursors
  \/ \E n \in CursorNames, id \in Id : SetCursor(n, id) /\ UNCHANGED transfers

StoreSpec == StoreInit /\ [][StoreNext]_storeVars

-----------------------------------------------------------------------------
(* What the store promises *)

StoreTypeOK ==
  /\ DOMAIN transfers \subseteq Id
  /\ \A i \in DOMAIN transfers : transfers[i] \in Row
  /\ transfers = [i \in DOMAIN transfers |-> transfers[i]]
  /\ cursors \in [CursorNames -> Id \cup {0}]

(* The columns a status brings agree with it: done_at is set exactly on done *)
(* rows, err_msg exactly on failed ones, and tx_in is never the empty string *)
(* (bridge.go:163-202): a reader of the API sees no failed transfer with a   *)
(* completion time, and no row whose tx_in can not be corrected any more.    *)
(* An older indexer may have left other rows: migration 002 gives the        *)
(* failed rows it finds no err_msg.                                          *)
ColumnsAgree ==
  \A i \in DOMAIN transfers :
    (i \in DOMAIN Rows0 => ColumnsOK(Rows0[i])) => ColumnsOK(transfers[i])

RowStaysTerminal(i) ==
  transfers[i].status \in Terminal =>
    /\ transfers'[i].status = transfers[i].status
    /\ transfers'[i].done_at = transfers[i].done_at
    /\ transfers'[i].err_msg = transfers[i].err_msg

(* "the bridge already reached a terminal state (done or failed), which must *)
(* never be overwritten" (bridge.go:161-162, 191-192): as long as the row    *)
(* exists its status, completion time and error stay.                        *)
TerminalIsFinal ==
  [][\A i \in DOMAIN transfers \cap DOMAIN transfers' : RowStaysTerminal(i)]_storeVars

RowKeepsTxIn(i) ==
  transfers[i].tx_in # NULL => transfers'[i].tx_in = transfers[i].tx_in

(* "never overwrites an existing value" (bridge.go:178-181): of all that     *)
(* report a receive transaction for a row, the first one stays.              *)
TxInWriteOnce ==
  [][\A i \in DOMAIN transfers \cap DOMAIN transfers' : RowKeepsTxIn(i)]_storeVars

Rank(i) == StatusPriority(transfers[i].status)

PacketKeepsRank(i) ==
  \E j \in DOMAIN transfers' :
    /\ transfers'[j].bridge.packet_hash = HashOf(i)
    /\ StatusPriority(transfers'[j].status) <= Rank(i)

(* No statement, DedupeByPacketHash's DELETE included, makes a tracked packet *)
(* disappear or leaves it with a worse status than it had: for every row     *)
(* there is afterwards a row of the same packet that ranks at least as high. *)
OutcomeSurvives ==
  [][\A i \in DOMAIN transfers : PacketKeepsRank(i)]_storeVars

=============================================================================
