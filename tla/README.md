# A formal model of the relayer indexer

The service indexes cross-chain transfers. A relayer (Voyager) keeps its work
items in three PostgreSQL tables: `queue`, `done` and `failed`. The indexer
listens to inserts into them, reads them again when it starts or reconnects,
and keeps one row per packet in its own table `transfers`, which the HTTP API
serves. Most of what is hard in this program is in the indexer: four
goroutines that share two databases without a transaction, notifications that
are lost with a connection, catch-ups with and without a cursor, and a process
that may stop between any two statements. The modules here model it statement by
statement, and beside it the connections its goroutines hold, the API's
summary cache and paged history, and the decoder of packet payloads.

## 1. Inventory

| Component | Source | State | Operations | Correct when |
|---|---|---|---|---|
| Item parser | `internal/indexer/parser.go` | none | `Parse`, `ParseItemFields`, `ParsePacketTimeouts` | a transfer is looked for under the keys it was recorded under; a packet gets one route |
| Bridge database | `internal/db/bridge.go`, `migrations/` | tables `transfers`, `indexer_cursors` | `Insert`, `DedupeByPacketHash`, `MarkProcessing/Done/Failed`, `SetTxIn`, `SetCursor`, finders | outcomes and receive transactions are never overwritten, columns agree with the status, deduplication loses no outcome |
| Triggers | `cmd/setup-trigger/main.go` | functions and triggers in the relayer's database | install | whatever a handler acts on is notified |
| Queue worker | `listener.go:11-79`, `sync.go:14-56` | LISTEN connection, cursor `queue` | `listenQueue`, `runListener`, `syncQueue` | a packet waiting in `queue` behind the cursor is tracked; one row per packet |
| Done worker | `listener.go:81-204`, `sync.go:96-151` | LISTEN connection | `listenDone`, `runDoneListener`, `syncDone` | done means acknowledged, failed means refunded or an error acknowledgement; an announced acknowledgement takes effect |
| Failed worker | `listener.go:206-308`, `sync.go:153-242` | LISTEN connection, cursor `failed` | `listenFailed`, `handleFailedNotification`, `syncFailed`, `traceFailedAncestor` | the failure reaches the transfer it belongs to, and the cursor passes nothing unhandled |
| Start-up and poll | `indexer.go`, `sync.go:58-94` | the ticker | `Run`, `poll`, `syncProcessing` | processing means the item left the queue; detected is not for ever |
| API reads | `db/bridge.go:323-443` | none | `List`, `CountRecentByStatus`, `GetByPacketHash`, `Count` | a client that pages through the history misses nothing |
| Summary cache | `server/ttlcache.go` | entries with an expiry, loads under way | `getOrLoad` | one load for concurrent misses, nothing served past its time, answers never older than earlier ones |
| HTTP handlers, router | `server/handler.go`, `server.go` | none | five GET routes | answers what the one read returns |
| Connection pool | `db/pool.go`, used by the indexer | connections held and waited for | acquire, release | no deadlock, no connection lost |
| Process, configuration | `cmd/server/main.go`, `config.go` | the context | start, stop on a signal | every goroutine of the indexer ends |
| ZKGM ABI decoder | `tools/ethabi`, `parser.go:396-438` | none | `Decode`, `DecodeAck`, `DecodeZkgmPacket`, `DecodeTokenOrder` | decodes what was encoded, ends with a value or an error |
| Seed tool | `cmd/seed` | none | inserts dummy rows | - |

How they interact. The relayer inserts an item into `queue` and moves it, under
the same id, to `done` or `failed`; the triggers notify each insert (into `done`
only when the item's text mentions an event of interest). `Run` deduplicates,
runs the three catch-ups one after the other, starts the three listeners and
polls. A listener gets an id, reads the row from the relayer's database, parses
the item and calls the bridge database; when its connection breaks it runs its
catch-up and connects again. All goroutines write `transfers`; none holds a lock
or a transaction over two statements.

Hard behaviours: find-then-update in two statements; a poll that reads two
databases and writes one; events of a packet in any order; rows that move while
they are handled; the gap between a catch-up and LISTEN; a crash between an
update and its cursor; an error in the middle of a batch; replays of rows that
were handled before.

## 2. The modules

    Parser            what an item says                       parser.go
      BridgeDB        the indexer's own tables                bridge.go, migrations
        RelayerDB     the relayer's tables, notifications     external; triggers of setup-trigger
          QueueWorker   (with Faults)                         listenQueue, syncQueue
          DoneWorker    (with Faults)                         listenDone, syncDone
          FailedWorker  (with Faults)                         listenFailed, syncFailed
            Indexer     Run, poll, crash, all of the above    indexer.go, syncProcessing
              IndexerProperties   invariants, refinement, progress
                Claims            sentences of the docs the code contradicts
                  MCIndexer       the instances for TLC
    TransferLifecycle the abstract specification: the life of a packet
        HistoryReader   a client that pages through the history   List, CountRecentByStatus, History
    AbiWords          machine integers, words, single reads   decode.go
      AbiDecoder        what a payload says                     tools/ethabi
    ItemReader        the parser asked about any item         parser.go
    SummaryService    the abstract summary: a published count, not too old
      SummaryCache    the cache that implements it            ttlcache.go, RecentSummary
    RelayerPool       connections held and waited for         pool.go, indexer.go, listener.go, sync.go
    MCBridgeDB, MCParser, MCHistory   instances for TLC

    ParserProofs        filter, keys and routes of any item (about ItemReader);
                        offsets and bytes values of any data (about AbiWords)
    BridgeDBProofs      the store under any client
      IndexerProofs       types of the whole system; it implements the store
        EvidenceProofs      statuses, messages and receipts have their evidence
          PacketProofs        one row per packet, the cursors, the climb, the lifecycle
      HistoryProofs       what pages and summaries show
    SummaryCacheProofs  the cache implements the service
    RelayerPoolProofs   the pool never deadlocks

**Parser.** An item is a record of what the parser branches on: the kind of
message, whether it decodes, the chain that ends the plugin's name, the event,
hash, channel, timeout, transaction, the acknowledgement's tag and the entries
of a batch. A function that returns `(nil, err)` or `nil` is a set with at most
one element, since all callers treat both alike. A transaction hash is a digest
with its rendering, so that the hex to base64 conversion of gno hashes
(`formatTxHash`) is visible. `FirstRoute` keeps the order of `channel_chains`.

**ItemReader.** A machine that holds any item of a given set (`Inbox`), so that what
must hold of one item is an invariant TLC checks over the items of `MCParser` and the
proofs state for all.

**BridgeDB.** `transfers` is a function from the ids present to rows; a row has
the packet's key columns, status, `created_at`, `done_at`, `err_msg` and `tx_in`,
NULL being a value. Each method that is one SQL statement is one action; the
WHERE clause is the condition under which a row changes. `Insert` is a finder
(`ExistingFor`) and a write (`InsertWrite`), because another goroutine may run
between its SELECT and its INSERT. `LIMIT 1` without ORDER BY is a choice.
`StoreSpec` is the store under any client that calls anything in any order: it
is what the theorems are about.

**RelayerDB.** `place` says which table an id is in, `at` when it got there;
`pending[c]` are the notifications on a listening connection. Inserting notifies
only those that LISTEN at that moment. Which items exist is a constant (`Item`);
the relayer enqueues, completes and fails them in any order, except that a child
(`Parents`) comes after the done rows it descends from. `InOrder` restricts it
to id order where a property needs that.

**Workers.** A worker's state is a record: `pc` names the point between two
statements, the rest are the Go locals alive there. One action runs from one
statement's answer to the next statement. Every statement may return an error
(`Fault("error")`); an UPDATE or INSERT that returns one may have been applied.
What the code does after the error (log and go on, end the batch, end the
catch-up) is part of the action. Reconnection's five-second pause is left out:
the relayer may take any number of steps anyway. Two exceptions to one action per
statement: the reads of `done` for the parents of one level of
`traceFailedAncestor` are one action with the level's lookup, since the rows of `done`
never change and only their presence matters; and a catch-up with a cursor reads
the cursor and the batch behind it in one action, since no other goroutine
writes that cursor. A done row is a set of jobs,
numbered: 0 is the acknowledgement or timeout of the item itself, n the n-th
entry of its batch; they are taken in ascending order.

**Indexer.** `Dedupe`, the three catch-ups in turn, `StartListeners`, then the
poll in three statements (`PollDetected`, `PollQueue`, `PollMark`). The
catch-ups of `Run` are lent to the workers that own them: a worker runs before
`StartListeners` only inside its catch-up. `ConnectionLost` breaks a listening
connection; `Crash` stops the process anywhere and starts it again with empty
locals.

**TransferLifecycle.** The promise to a reader of the API: a packet goes from
untracked to detected to processing to done or failed, never back, and a receive
transaction is never taken away. `IndexerProperties` maps the rows of a packet
to a phase (its best row) and `FollowsLifecycle` says `Indexer` implements it.

**HistoryReader.** Adds to the store under any client a reader of `GET /history` or
of one wallet's `GET /wallet/{sender_address}`: `Begin` and one `NextPage` per
request, each a query of its own, with writes of any kind in between. A query with
`ORDER BY created_at` is the set of answers that sort so: rows of one time come in
either order. A wallet's query is the same over fewer rows: a row's addresses are
written once, from the item its id names, so they belong to the id (`PartiesOf`).
`due` is what the client still has to be shown of the rows that were there when it
began. When a row is deleted or two rows share a `created_at` the offsets of two
queries do not compare, and the client begins again.

**AbiWords, AbiDecoder.** Data is a sequence of words, since every position the decoder
reads is aligned; a bytes value is its length and the words it is padded to. The
sizes of words, machine integers and bytes are constants, so that conversion to
`int` and addition wrap at a size TLC reaches. A call returns a value, an error or a
panic; `Collect` keeps what the first component that is no value ended with. The
functions are those of `decode.go`: `BytesAt`, `StaticAt` and `Follow` (an offset) in
`AbiWords`, the ones that recurse (`TupleAt`, `ArrayAt`) in `AbiDecoder`. `EncodeTuple` is the encoder of the package's own tests, which the round
trips use.

**SummaryCache.** One record per HTTP request says where its `getOrLoad` is:
before `sf.Do`, waiting, or leading the load at one of its steps. A count is told
by the time it was taken at. `QueryFails` stands for the database and for the
leader's client leaving alike. `Finish` answers all who wait in the step that frees the
key, as `sf.Do` does under its lock: what a caller does with the result afterwards
touches no shared state. `SummaryService` is what the handler promises
without a cache: per limit one published count that only later ones replace, and
answers that are that count, of a bounded age, or an error.

**RelayerPool.** For each goroutine where it is, and how many connections of the
relayer's pool it holds; `queue` is the order in which waiters are served. A
listener holds one and takes a second for each row it reads; a catch-up of `failed`
holds the one of its rows while it climbs on another. pgxpool is external; its
promise is first come, first served, and that a cancelled or failed wait
returns. What the statements read is left out (it is in the workers).

## 3. What the runs show

Every property of a passing run has a mutant in `PROJECT.json`: a plausible bug
in a named definition under which the same run finds the property violated.

| Run | Instance | Shows |
|---|---|---|
| `ParserItems` | all combinations of message, event, chain, hash rendering, acknowledgement; batches of up to two entries; two routes | `PassesFilter`: no item the handlers act on is held back by the trigger's filter, nor by that of `syncDone`'s query (two lists, `TriggerWords` and `ScanWords`). `AgreesOnChains`: a packet gets the same route whether first seen by its send or its receive. `SameKeys`: `Parse` and `ParseItemFields` agree on hash, timeout, channel and transaction. Over encoded acknowledgements, packets with orders of both versions and nested arrays, and over arbitrary payloads of up to four words: `DecodesEncoded`, `ReadsWhatWasSent`, `DecodeAnswers` |
| `StoreAnyClient` | two rows, two times, two hashes (one empty), two renderings of one transaction, any call in any order | `StoreTypeOK`, `ColumnsAgree`, `TerminalIsFinal`, `TxInWriteOnce`, `OutcomeSurvives` |
| `HistoryPages` | three rows with three creation times, pages of one or two, either order, of all or of one wallet, any writes between two pages | `ReaderTypeOK`, `HistoryComplete`: no row that was there at the beginning is missed; `RecentIsFirstPage`: the recent summary counts the first page |
| `SummaryCache` | three requests, two limits, a clock of four ticks, TTL and lag of one | `SummaryTypeOK` (one leader per load), `NoNeedlessLoad`, `NeverGoesBack`, the refinement `ServesPublished`, `EveryCallAnswered` |
| `RelayerPool` | four goroutines, four connections, one climb per catch-up | `PoolTypeOK` (no connection lost), `SomeoneReleases` (no deadlock), `EveryoneServed`, `StopsOnSignal` |
| `Lifecycle` | send, receive and acknowledgement of one packet in any order, or the packet given up; one error, one crash | `DoneHasAck`, `ProcessingHasLeftQueue`, `NewRowIsOnlyOne` (no second row for a packet seen by its send and its receive), and the refinement `FollowsLifecycle` |
| `Failing` | two packets of gno; one is emitted again as a child of itself and that item given up, so that the listener's fallback and the climb of a catch-up both apply; a refund, an error acknowledgement; one error | `FailedHasCause` (with the right message), `TxInHasSource`: `tx_in` is the packet's own, or came with the failed item the transfer failed with (a send transaction in this story, section 4) |
| `Descent` | a packet emitted twice over duplicate rows, a promise that descends from it by two ways, over two and three generations, and fails; one lost connection, one crash; the climb limited to three levels | `UniqueHash`, `FailureReachesOrigin`, `OriginSettlesFirst` (the failed cursor waits for the origin) |
| `Cursors` | batches of one row, three items, each of which may fail before or after its packet is tracked; one error, one crash | `QueueCursorSound`, `KnownFailureSettles` (a transfer tracked before its item failed is not left behind) |
| `Progress` | a packet and its acknowledgement, a clock of two ticks; one lost connection, one crash | `DetectedDrains`, `AnnouncedAckSettles` (for an acknowledgement inside the scan's window) |

Bounds. `Budget` bounds errors, lost connections and crashes; it is the only
artificial restriction of the indexer's actions, together with `MaxTime`. One of
each is enough to put a fault at every label of every worker. Ids are the items
of a story, two to five: every race of the code is between handlings of one
packet, or of two packets that share a key, and a story holds those. `BatchSize`
is one where the end of a batch matters, otherwise two. `TraceDepth` is 8 as in
the code, and 3 in `Descent`, where the longest way up has exactly three steps.
`MaxTime` is 2 in `Progress`, where the window of `syncDone` (`Grace`, one minute
in the code, one tick here) matters: an acknowledgement may be completed at 0 and its
packet enqueued at 1, inside the window, or at 2, outside it. Without `InWindow`
the property fails there, and with a scan that leaves out the minute it fails
too. Elsewhere time stands still and the window excludes nothing.
`StoreAnyClient` has two times, so that a second `done_at` would show, and one
message: that no `err_msg` is replaced is left to `TerminalRowsAreFinal` (section 5).
`InOrder` is used in `Cursors` only: a cursor over ids that appear out of order
cannot be sound (section 6). In `SummaryCache` the clock stops at `MaxTime`, two
TTLs after the first entry can expire; `Lag` bounds how long a count may be on its way
to the cache or to its callers, which the code does not bound: the age of an
answer is TTL + 2 Lag, and a run with one less finds the violation. `MaxClimbs` bounds
the reads of one climb; a climb holds two connections at the first as at the last.
Four connections are pgxpool's smallest default; with three the run finds a
deadlock. `HistoryPages` has one packet without a hash and no transactions, which no
query there reads. The decoder's words have four bytes of 32 values and integers have
two, so that data of up to 128 words has positions an `int` holds.

Fairness. `FairSpec` assumes weak fairness of the steps of `Run` and of each
worker: the Go scheduler runs every goroutine, a query returns or fails, and the
ticker ticks. Nothing is assumed of the relayer, of faults, or of delivery
beyond a connection that stays up. Of the pool, `Grant` is weakly fair (the
pool serves a waiter when it can), and so is what a goroutine does without waiting for
the outside; `MainStops` is strongly fair because Go's `select` chooses at random
between the ticker and the context. A request's steps are weakly fair. Deadlock is
checked in every run but `RelayerPool`, where all goroutines end after the signal.

## 4. Where the code and its documentation disagree

Two runs end with a violation; each states a sentence of the repository.

| Run | Sentence | Behaviour shown |
|---|---|---|
| `ClaimFailed` | "failed INSERT -> NOTIFY -> failed (3)" (README.md:39) | without any fault: a failed row inserted after the start-up `syncFailed` read and before LISTEN ran is notified to nobody, and the transfer stays in flight |
| `ClaimCatch` | "gone before read (syncDone will catch it)" (listener.go:62) | a packet whose queue row left before it was read is never tracked: `syncDone` inserts nothing |

More disagreements were met that no run states:

- a mark that fails in `syncFailed` ends the batch, and "the next poll picks back
  up" (`sync.go:178-180`); the poll runs `syncProcessing` only, so the row waits for a
  broken connection or a restart;
- refunds of one `submit_multicall` are said to be "matched independently"
  (README.md:44), but a catch-up handles a `packet_timeout` row again and fails the
  next in-flight transfer with the same timeout and channel;
- a late `packet_recv` "must still be able to correct tx_in" (`bridge.go:247-249`), but
  `MarkDone` has set `tx_in` to the acknowledgement's transaction, and `SetTxIn`
  writes over NULL only (this is `TxInWriteOnce`, which is proved);
- `tx_out` is said to be the send transaction (README.md:171), but a packet first
  seen through a `packet_recv` is recorded with that event's hash (`parser.go:381`);
- relay errors are said to carry no transaction hash and leave `tx_in` alone
  (README.md:42), but `handleFailedNotification` finds a transfer by the failed item's
  key and passes the item's own hash (`listener.go:291`): a packet_send of gno emitted
  again under a second id and given up leaves the send transaction in `tx_in`. The
  `Failing` run contains such items; `TxInHasSource` says what does hold;
- a bytes length the data does not hold is an error (`decode_test.go:283-292`); from
  about 2^63 on the padded length, or the end of the value, is a negative `int`, passes
  the check of `decode.go:221` and ends in a panic of `make`. (Within a word of 2^64 the
  padded length wraps to 0 and is refused.) `DecodeAnswers` is stated short of such
  lengths.

## 5. What is proved

Everything below holds for every value of the constants that satisfies the
named assumptions: any number of ids, items, parents, batches of any length, any
rows of an older indexer, any budget of faults. The assumptions are typing
(`ChainsAssumption`, `StoreAssumption`, `DoneAssumption`, `FailedAssumption`,
`BudgetAssumption`) and four facts about the relayer (`RelayerAssumption`): ids
are numbers and a child's id is above its parents'; a row of an older
indexer came from an item that had been enqueued; an item that was enqueued before
the indexer's first start came, like any other, after the done rows it descends from;
the clock is a number.

**The store under any client** (`BridgeDBProofs`, about `StoreSpec`).

- `StoreTypeCorrect`: the tables stay well typed;
- `ColumnsAlwaysAgree`: `done_at` exactly on done rows, `err_msg` exactly on
  failed ones, `tx_in` never the empty string, on every row that did not already
  break this when the indexer started (migration 002 added `err_msg`, so the failed
  rows of an older indexer have none);
- `TerminalRowsAreFinal`: no statement changes the outcome of a settled row;
- `TxInIsWrittenOnce`: a receive transaction on record is never replaced;
- `OutcomesSurvive`: a packet with a row keeps a row at least as good.

Every statement has one of three shapes: it updates rows in place within what a
settled row allows, it adds one new row, or it keeps a subset of the rows
unchanged (deduplication). There is one lemma per statement; the theorems then
talk about the shapes only. For `OutcomesSurvive` the row kept by the
deduplication is the one no other outranks, which exists because ranks and ids
are bounded numbers.

**The running system** (`IndexerProofs`, about `Spec` of `Indexer`).

- `TypeCorrect`: the type invariant. It is not inductive by itself: a label says
  which locals are alive, and a statement is well typed only if they are (the id
  in hand at `find`, the row found at `apply`, the ancestor at a climb).
  `TypeInv` adds that per label, `QueueLocalsOK`, `DoneLocalsOK`, `FailedLocalsOK`.
- `IndexerUsesStore`: `Spec => StoreSpec`. Each goroutine's step is a statement of
  the store with arguments of the right types, or leaves the tables alone.
- Hence the store's theorems hold of the running system:
  `IndexerColumnsAgree`, `IndexerTerminalIsFinal`, `IndexerTxInWriteOnce`,
  `IndexerOutcomeSurvives`. They do not rest on who calls what when, which is the
  point: find-then-update cannot break them.

**The parser** (`ParserProofs`, about `ItemReader` with any `Inbox` of well-formed
items). `FilterHoldsNothingBack`, `KeysAlwaysAgree`, and `RoutesAlwaysAgree` under
`OwnChannels`: no two rows of `channel_chains` share a channel id. A search by channel
alone (`findChainsBySourceChannel`) takes the first row, which is another chain's if two
share an id; the configuration does not check it.

**The decoder's words** (`ParserProofs`, about `AbiWords`), for words and integers of any
size of which an `int` holds a whole number of words (`AbiAssumption`), and any data Go
can hold (`Fits`). `OffsetsDoNotWrap`: conversion to `int` and addition wrap, but an offset
whose position passes the checks is the base plus the offset as written, inside the data.
`BytesAreInside`: a bytes value is read exactly if its padded end is inside the data, and
refused without a panic otherwise, as long as the padded end is an `int`. `ParserItems`
has payloads with lengths on both sides of that limit.

**Evidence** (`EvidenceProofs`).

- `ProcessingIsHonest`: a transfer is shown as processing only if its item has
  left the queue;
- `DoneIsHonest`: a transfer is done only if an acknowledgement of its own packet
  is in the relayer's `done` table;
- `FailedIsHonest`: a transfer is failed only for a cause in the relayer's tables, and
  its `err_msg` is that cause's (all three except for rows an older indexer left in
  that status);
- `ReceiptsHaveSource`: `tx_in` was reported by a done row of the same packet, or came
  with the failed item the transfer failed with.
  It holds of every behaviour: the second case, which the code's own README excludes
  (section 4), is part of the statement and not assumed away.

What a goroutine read in one statement it uses in a later one, so these need what
it still knows in between. `Knowledge` states that: rows come from enqueued items;
ids the poll no longer found in `queue` have left it; the done row in
hand, those of the scan and those announced on the channel are done; the
transfer found for an acknowledgement has its hash; the failed row in hand and those
announced have failed; what a climb looks at and what it found are ancestors of the
failed row; the transfer found for a promise has its key; deduplication runs
before any goroutine has found a row. It stays true because the relayer's rows only
move forward (`TablesMoveForward`), because a transfer keeps its packet and changes in
one of four ways (`SystemRowChanges`), and because every failure and every `tx_in` that
appears in a step was written by a known statement (`AllCaused`). A cause, once in the
relayer's tables, stays there, and a terminal row keeps its message.

**Packets** (`PacketProofs`).

- `NewRowsAreOnlyOnes`: a row that appears is the only one of its packet, without any
  assumption on the rows of an older indexer or on the deduplication;
- `OneRowPerPacket`: after the start-up deduplication no packet has two rows,
  assuming `CleanStart` (there are no duplicates to begin with, or no statement
  fails). Without it the code promises less: the deduplication's error is
  only logged. The inductive invariant is `OneRow`; its extra fact is
  `QueueAloneInserts`: between the SELECT and the INSERT of `Insert` no other
  goroutine inserts, so what the SELECT did not find is still not there.
- `QueueCursorIsSound`, assuming `QueueInOrder` (queue rows become visible in the order
  of their ids, from the start) and `Rows0Own` (a row an older indexer left is that of the
  packet its id names). That the cursor is sound says nothing about a batch half
  read; `QueueSound` says it of the last row counted as read, and that what lies before
  a row of the batch is in the batch, in hand, or accounted for: a batch has no gaps
  (`BatchHasNoGaps`).
- `KnownFailuresSettle`, assuming that items fail in the order of their ids (`"failed"` in
  `InOrder`): a transfer that is tracked while its item is unborn or in `queue` is
  settled before the failed cursor reaches its failed row. `FailedSound(W)` is the counterpart
  of `QueueSound` for the ids in a set W, and needs one fact more about another
  goroutine, `HandTracked`: a row the queue worker holds may fail under its hands, and
  its insert must not bring an unsettled transfer behind the failed cursor. With W
  empty it holds of every behaviour, and it may be widened by an id at the moment that
  one is known (`KnownIsSound`); so no history variable is needed.
  A packet given up before it is inserted is outside the statement: it may be left in
  flight behind the cursor.
- `OriginsSettleFirst`: the one ancestor in flight of an item that is given up is settled
  before the failed cursor reaches the item. This is the safety half of
  `FailureReachesOrigin`. It assumes that items fail in the order of their ids, that every
  item has a height its parents are below and that the climb reaches (`IsHeight`; the
  code climbs eight levels), and that no statement of the climb fails
  (`ClimbUndisturbed`): the code ignores such an error and goes on to the next row
  (`sync.go:186-197`), after which the ancestor stays in flight behind the cursor.
  Errors elsewhere, broken connections and crashes, also in the middle of the climb,
  are allowed. The inductive invariant is
  `OriginSound`: while the ancestor is in flight, the cursor is below the row, and the
  row is still ahead of the batch or the climb is on its way (`Climbing`). Of the climb
  itself it says that `visited` with `level` is closed under parents, that the ancestor is
  not among those visited, and that what the heights say is still to climb fits into
  the levels left; so a climb that ends has found it. Because the relayer gives an
  item out after its parents are done, no ancestor of a failed item is itself
  given up (`AncestorsAreDone`), which keeps the other ways of failing out.
- `LifecycleSteps`: from any table with one row per packet, every step is a step of
  `TransferLifecycle` or a stutter; `ImplementsLifecycle`: started with an empty table the
  indexer implements it. With one row per packet the phase of a packet is the status of
  its row (`PhaseOfRow`), which takes the CHOOSE out of the refinement mapping; what is
  left is one lemma per shape of write. With duplicates the mapping takes the best row, and TLC
  checks it.

**The history** (`HistoryProofs`), for any number of rows, wallets, limits and pages.
`NothingIsMissed` is about positions. In a listing without ties a row stands behind exactly
the rows that sort before it (`PlaceInListing`). `HistoryInv` says that at least
`offset` rows sort before every row still due: a write can only add to them, and a page
shows every row that has fewer than `offset + limit`. A page that is not full then
leaves nothing due. `SummaryIsFirstPage` shows in addition that a finite table has a listing
(each row at the place given by how many sort before it) and that the newest n rows are
one set. `ReaderAssumption` has what this needs: creation times are numbers, and the
table is finite.

**The summary cache** (`SummaryCacheProofs`), for any number of requests and limits,
any TTL and any lag. `SummaryTypeCorrect` is inductive because it says that a call
leads exactly the load registered under its key: two leaders of one key cannot
be. `NoLoadIsNeedless` follows from it, since only the leader stores. For
`SummariesNeverGoBack` and `CacheServesPublished` the inductive invariant is
`CacheInv`, which adds times: a count on its way is no older than Lag and than what is
stored under its key, an entry expires at most TTL + Lag after its count, and a result
on its way is the entry of its key. `CacheServesPublished` then maps each step to one of
`SummaryService`, or to none.

**The pool** (`RelayerPoolProofs`), for every pool of at least four connections
(`PoolAssumption`). The inductive invariant is `PoolInv`: a goroutine holds exactly the
connections its place needs (`PoolTypeCorrect`), those who wait are in the queue once,
and main climbs only before there are listeners. `PoolNeverDeadlocks` is
then arithmetic: if no goroutine is about to release, either main climbs with one
connection and nobody else has any, or main has none and three listeners have at
most one each.

**Only model-checked**: the liveness properties (`DetectedDrains`,
`AnnouncedAckSettles`, `FailureReachesOrigin`, `EveryCallAnswered`, `EveryoneServed`,
`StopsOnSignal`), which need fairness and ENABLED and are out of the prover's reach; the
decoder above its single reads (`DecodesEncoded`, `ReadsWhatWasSent`, `DecodeAnswers`), whose
operators are recursive over the schema and the data: what they compute for every
input is an induction over data.

## 6. What is not covered, and why

Limits of the design that the properties step around, each a hazard in
`PROJECT.json` with a note:

- ids reach `failed` in another order than they were given in `queue`, and ids of
  `queue` become visible in commit order: a cursor may pass an id that appears
  later. `QueueCursorSound`, `KnownFailureSettles` and `OriginSettlesFirst` assume id order;
- a packet given up before its row is inserted stays in flight: the failed cursor
  passes the failed row, the insert comes after. `KnownFailureSettles` is about the others;
- an acknowledgement indexed more than `Grace` before its packet's queue row is
  outside the window of `syncDone` and not found again once its notification is lost;
  `AnnouncedAckSettles` is about the others;
- an acknowledgement handled before its packet is inserted is dropped until a
  catch-up; one catch-up reads one batch; `FindAncestor` marks one of several
  parents in flight; an error while an ancestor is marked does not keep the
  cursor back; a failed start-up deduplication leaves the duplicates;
  deduplication may drop the row that holds `tx_in`.

Two of the API: rows of one `created_at` have no order between pages, and a row deleted
meanwhile shifts the rest, so a client may miss one; a client that leaves fails the
summary of all who wait for the load it leads. One of the process: after a
signal the indexer ends while the HTTP server, which does not see it, serves on.

Not modelled: heights, addresses as text and message texts (nothing branches on
them); `Count` and `GetByPacketHash` (one read each); `setup-trigger`'s steps (three
statements per trigger that stop at the first error and may be run again); TOML,
routing, the wiring of `main`, the seed tool (no behaviour of their own); the pool
to the bridge database (a connection is held for one statement or one loop over
rows, which asks for no other).

## 7. Plan

Done: every component of section 1 that has behaviour, their runs, and the theorems of
section 5, which state every safety property, action property and refinement of the runs
but those of the recursive decoder. What is left is out of the prover's reach (section 5)
or waits for the code: unique `packet_hash`, an error of the climb that ends the batch,
and a check of the padded length before its conversion would each let a hypothesis go
(`CleanStart`, `ClimbUndisturbed`, `Oversized`).
