----------------------------- MODULE RelayerDB ------------------------------
(***************************************************************************)
(* The relayer's database (Voyager), seen from the indexer: it only reads  *)
(* its queue, done and failed tables and listens on the three channels the *)
(* triggers of cmd/setup-trigger notify.  The relayer itself is external.  *)
(*                                                                         *)
(* An item is inserted into queue under a fresh id and moves, under the    *)
(* same id, to done or to failed.  Parents[i] are the done rows whose      *)
(* completion produced item i.                                             *)
(***************************************************************************)
EXTENDS BridgeDB

CONSTANTS
  Item,     \* [Id -> Items], the document stored under each id
  Parents,  \* [Id -> SUBSET Id], column "parents"
  Place0,   \* [Id -> Places], the tables when the indexer first starts
  MayFail,  \* the ids whose processing may fail
  InOrder,  \* the tables whose rows become visible in the order of their ids
  BatchSize, \* IndexerConfig.BatchSize, the LIMIT of a catch-up read
  MaxTime   \* bound of the clock

VARIABLES
  place,     \* id -> the table the row is in
  at,        \* id -> table -> created_at of the row it has or had there
  now,       \* the clock
  listening, \* the channels an indexer connection LISTENs on
  pending    \* channel -> ids notified and not yet received

relayerVars == <<place, at, now, listening, pending>>

Places == {"unborn", "queue", "done", "failed"}

(* Table name -> channel; only queue, done and failed have triggers. *)
triggers == [queue |-> "queue_insert", done |-> "done_insert", failed |-> "failed_insert"]

NotifyChannels == {triggers[t] : t \in DOMAIN triggers}

ASSUME RelayerAssumption ==
  /\ Item \in [Id -> Items]
  /\ Parents \in [Id -> SUBSET Id]
  /\ \A i \in Id : \A p \in Parents[i] : p < i
  /\ Place0 \in [Id -> Places]
  /\ \A i \in Id : Place0[i] # "unborn" => \A p \in Parents[i] : Place0[p] = "done"
  /\ \A i \in DOMAIN Rows0 : Place0[i] # "unborn"
  /\ MayFail \subseteq Id
  /\ InOrder \subseteq {"queue", "failed"}
  /\ BatchSize \in Nat \ {0}
  /\ MaxTime \in Nat /\ 0..MaxTime \subseteq Time /\ Time \subseteq Nat

(* WHERE of the trigger function: only done filters. *)
TriggerFires(table, i) == table = "done" => PassesTrigger(Item[i])

(* INSERT into a table: the row appears and its trigger notifies whoever    *)
(* listens at that moment.                                                  *)
InsertInto(table, i) ==
  /\ place' = [place EXCEPT ![i] = table]
  /\ at' = [at EXCEPT ![i][table] = now]
  /\ pending' = [c \in NotifyChannels |->
       IF c = triggers[table] /\ c \in listening /\ TriggerFires(table, i)
       THEN Append(pending[c], i) ELSE pending[c]]
  /\ UNCHANGED <<now, listening>>

Enqueue(i) ==
  /\ place[i] = "unborn"
  /\ \A p \in Parents[i] : place[p] = "done"
  /\ "queue" \in InOrder => \A j \in Id : j < i => place[j] # "unborn"
  /\ InsertInto("queue", i)

Complete(i) ==
  /\ place[i] = "queue"
  /\ InsertInto("done", i)

Fail(i) ==
  /\ place[i] = "queue"
  /\ i \in MayFail
  /\ "failed" \in InOrder => \A j \in Id : j > i => place[j] # "failed"
  /\ InsertInto("failed", i)

Tick ==
  /\ now < MaxTime
  /\ now' = now + 1
  /\ UNCHANGED <<place, at, listening, pending>>

(* message column of a failed row *)
MessageOf(i) == <<"relay", i>>

-----------------------------------------------------------------------------
(* What the indexer does with it *)

InTable(table) == {i \in Id : place[i] = table}

(* WHERE id > cursor ORDER BY id LIMIT BatchSize; the rows are read in the *)
(* order of their ids.                                                      *)
BatchAfter(table, cursor) ==
  LET beyond == {i \in InTable(table) : i > cursor}
  IN  {i \in beyond : Cardinality({j \in beyond : j < i}) < BatchSize}

IsNext(i, S) == i \in S /\ \A j \in S : i <= j

(* LISTEN on a fresh connection: nothing notified earlier is delivered. *)
Listen(c) ==
  /\ listening' = listening \cup {c}
  /\ UNCHANGED <<place, at, now, pending>>

(* The listening connection breaks; what it had not delivered is lost. *)
Unlisten(cs) ==
  /\ listening' = listening \ cs
  /\ pending' = [c \in NotifyChannels |-> IF c \in cs THEN <<>> ELSE pending[c]]
  /\ UNCHANGED <<place, at, now>>

Received(c) == Head(pending[c])

(* WaitForNotification *)
Receive(c) ==
  /\ c \in listening
  /\ pending[c] # <<>>
  /\ pending' = [pending EXCEPT ![c] = Tail(@)]
  /\ UNCHANGED <<place, at, now, listening>>

RelayerInit ==
  /\ place = Place0
  /\ at = [i \in Id |-> [t \in DOMAIN triggers |-> 0]]
  /\ now = 0
  /\ listening = {}
  /\ pending = [c \in NotifyChannels |-> <<>>]

RelayerStep ==
  \/ \E i \in Id : Enqueue(i) \/ Complete(i) \/ Fail(i)
  \/ Tick

RelayerTypeOK ==
  /\ place \in [Id -> Places]
  /\ at \in [Id -> [DOMAIN triggers -> 0..MaxTime]]
  /\ now \in 0..MaxTime
  /\ listening \subseteq NotifyChannels
  /\ pending \in [NotifyChannels -> Seq(Id)]

=============================================================================
