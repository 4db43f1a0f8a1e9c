--------------------------- MODULE BridgeDBProofs ---------------------------
(***************************************************************************)
(* What the store promises to any client, for every set of ids, packets,   *)
(* times and messages.  One lemma per statement of the store says what the *)
(* statement keeps of every row; the theorems follow from the lemmas.      *)
(***************************************************************************)
EXTENDS BridgeDB, TLAPS, WellFoundedInduction

-----------------------------------------------------------------------------
(* The types of what the parser hands to the store *)

(* A nonempty set of naturals has a least element. *)
LEMMA LeastNatural ==
  ASSUME NEW T, T \subseteq Nat, T # {}
  PROVE  \E x \in T : \A y \in T : x <= y
<1>1. PICK x \in T : \A y \in T : <<y, x>> \notin OpToRel(<, Nat)
  BY WFMin, NatLessThanWellFounded
<1>2. \A y \in T : ~(y < x)
  BY <1>1 DEF OpToRel
<1> QED
  BY <1>2

(* Its minimum is one of its elements. *)
LEMMA MinOfNaturals ==
  ASSUME NEW T, T \subseteq Nat, T # {}
  PROVE  Min(T) \in T
BY LeastNatural DEF Min

(* The rendering of a hash is a hash (parser.go:453-463). *)
LEMMA ItemTxType ==
  ASSUME NEW item \in Items
  PROVE  ItemTx(item) \in TxHash
<1>1. item.tx \in TxHash
  BY DEF Items
<1>2. CASE item.tx = NoTx
  BY <1>1, <1>2 DEF ItemTx, FormatTxHash
<1>3. CASE item.tx # NoTx
  BY <1>1, <1>3 DEF ItemTx, FormatTxHash, TxHash
<1> QED
  BY <1>2, <1>3

(* A route found is a configured one (parser.go:465-481). *)
LEMMA RoutesFound ==
  ASSUME NEW c, NEW ch
  PROVE  FindDstChain(c, ch) \subseteq Routes /\ FindChainsBySourceChannel(ch) \subseteq Routes
<1> DEFINE byBoth    == {k \in DOMAIN Chains : Chains[k].src = c /\ Chains[k].channel = ch}
           byChannel == {k \in DOMAIN Chains : Chains[k].channel = ch}
<1>1. DOMAIN Chains \subseteq Nat /\ \A k \in DOMAIN Chains : Chains[k] \in Routes
  BY ChainsAssumption
<1>2. byBoth # {} => Min(byBoth) \in byBoth
  BY <1>1, MinOfNaturals
<1>3. byChannel # {} => Min(byChannel) \in byChannel
  BY <1>1, MinOfNaturals
<1>4. FindDstChain(c, ch) \subseteq Routes
  BY <1>1, <1>2 DEF FindDstChain, FirstRoute
<1>5. FindChainsBySourceChannel(ch) \subseteq Routes
  BY <1>1, <1>3 DEF FindChainsBySourceChannel, FirstRoute
<1> QED
  BY <1>4, <1>5

-----------------------------------------------------------------------------
(* What queue items become *)

(* Parse returns at most well-typed bridge records (parser.go:26-79). *)
LEMMA ParseType ==
  ASSUME NEW item \in Items
  PROVE  Parse(item) \subseteq Bridge
<1> SUFFICES ASSUME NEW r \in Routes PROVE BuildBridge(item, r) \in Bridge
  BY RoutesFound DEF Parse, ParsePacketSend, ParsePacketRecv
<1>1. item.hash \in Hash \cup {NoHash} /\ item.channel \in Channel /\ item.timeout \in Timeout
  BY DEF Items
<1> QED
  BY <1>1, ItemTxType DEF BuildBridge, Bridge, Routes

-----------------------------------------------------------------------------
(* What done and failed items are matched by *)

(* The fields that reach a statement: hashes, keys and the outcome. *)
FieldsOK(f) ==
  /\ f.hash \in Hash \cup {NoHash}
  /\ f.tx \in TxHash
  /\ f.timeout \in Timeout
  /\ f.channel \in Channel
  /\ f.ack_success \in BOOLEAN

LEMMA ItemFieldsType ==
  ASSUME NEW item \in Items, NEW f \in ParseItemFields(item)
  PROVE  FieldsOK(f)
<1>1. /\ item.hash \in Hash \cup {NoHash}
      /\ item.channel \in Channel /\ item.timeout \in Timeout
      /\ item.entries \in Seq(Entry)
  BY DEF Items
<1>2. NoTx \in TxHash /\ 0 \in Channel /\ 0 \in Timeout
  BY ChainsAssumption DEF TxHash
<1>3. CASE f = WriteAckFields(item)
  BY <1>1, <1>2, <1>3, ItemTxType DEF WriteAckFields, FieldsOK, DecodeAckOutcome
<1>4. CASE f = PacketFields(item)
  BY <1>1, <1>4, ItemTxType DEF PacketFields, FieldsOK
<1>5. CASE f \in PromiseFields(item)
  <2>1. PICK k \in DOMAIN item.entries :
          f = [event_type |-> item.entries[k].type, timeout |-> item.entries[k].timeout,
               channel |-> item.entries[k].channel, hash |-> NoHash, tx |-> NoTx,
               ack_success |-> FALSE]
    BY <1>5 DEF PromiseFields
  <2>2. item.entries[k] \in Entry
    BY <1>1
  <2> QED
    BY <1>2, <2>1, <2>2 DEF FieldsOK, Entry
<1> QED
  BY <1>3, <1>4, <1>5 DEF ParseItemFields

(* A packet_timeout datagram has a key. *)
LEMMA TimeoutEntryType ==
  ASSUME NEW item \in Items, NEW k \in ParsePacketTimeouts(item)
  PROVE  /\ k \in Nat \ {0}
         /\ item.entries[k].timeout \in Timeout /\ item.entries[k].channel \in Channel
<1>1. item.entries \in Seq(Entry) /\ k \in DOMAIN item.entries
  BY DEF Items, ParsePacketTimeouts
<1>2. item.entries[k] \in Entry /\ k \in Nat \ {0}
  BY <1>1
<1> QED
  BY <1>2 DEF Entry

-----------------------------------------------------------------------------
(* Statements on rows *)

(* What a statement that only updates rows keeps of a row. *)
RowStep(i) ==
  /\ transfers'[i] \in Row
  /\ transfers'[i].bridge = transfers[i].bridge
  /\ transfers'[i].created_at = transfers[i].created_at
  /\ ColumnsOK(transfers[i]) => ColumnsOK(transfers'[i])
  /\ RowStaysTerminal(i)
  /\ RowKeepsTxIn(i)
  /\ StatusPriority(transfers'[i].status) <= StatusPriority(transfers[i].status)

(* A statement that updates rows in place. *)
Updates ==
  /\ DOMAIN transfers' = DOMAIN transfers
  /\ transfers' = [i \in DOMAIN transfers |-> transfers'[i]]
  /\ \A i \in DOMAIN transfers : RowStep(i)

(* A statement that adds a row and keeps the others. *)
Adds(id, row) ==
  /\ row \in Row /\ ColumnsOK(row)
  /\ DOMAIN transfers' = DOMAIN transfers \cup {id}
  /\ transfers' = [i \in DOMAIN transfers' |-> transfers'[i]]
  /\ \A i \in DOMAIN transfers : transfers'[i] = transfers[i]
  /\ id \notin DOMAIN transfers => transfers'[id] = row

(* Deduplication removes rows and leaves the others as they are. *)
Keeps ==
  /\ DOMAIN transfers' \subseteq DOMAIN transfers
  /\ transfers' = [i \in DOMAIN transfers' |-> transfers'[i]]
  /\ \A i \in DOMAIN transfers' : transfers'[i] = transfers[i]

-----------------------------------------------------------------------------
(* Statements *)

(* The priorities are the four numbers 0 to 3. *)
LEMMA PriorityType ==
  ASSUME NEW s PROVE StatusPriority(s) \in 0..3
BY DEF StatusPriority

(* Rows come detected, and detected outranks no status: an Insert that found *)
(* a row never writes (bridge.go:116).                                       *)
LEMMA DetectedOutranksNothing ==
  ASSUME NEW s PROVE ~Outranks(Detected, s)
BY PriorityType DEF Outranks, StatusPriority, Detected, Done, Failed, Processing

(* A row that is inserted is well-typed and its columns agree. *)
LEMMA NewRowOK ==
  ASSUME NEW b \in Bridge, NEW t \in Time
  PROVE  NewRow(b, t) \in Row /\ ColumnsOK(NewRow(b, t))
<1>1. NoTx # NULL
  BY StoreAssumption DEF TxHash
<1> QED
  BY <1>1 DEF NewRow, Row, ColumnsOK, Status, Detected, Processing, Done, Failed

(* Insert adds the row, or nothing when the id is taken (bridge.go:97-113). *)
LEMMA InsertAdds ==
  ASSUME StoreTypeOK, NEW id \in Id, NEW b \in Bridge, NEW t \in Time,
         NEW e \in Id \cup {0}, NEW s,
         InsertWrites(e, s), InsertWrite(id, NewRow(b, t), e)
  PROVE  Adds(id, NewRow(b, t))
<1>1. e = 0
  BY DetectedOutranksNothing DEF InsertWrites
<1>2. InsertRow(id, NewRow(b, t))
  BY <1>1 DEF InsertWrite
<1> QED
  BY <1>2, NewRowOK DEF InsertRow, Adds

(* UPDATE ... SET status = processing WHERE status = detected *)
LEMMA MarkProcessingUpdates ==
  ASSUME StoreTypeOK, NEW ids, MarkProcessing(ids)
  PROVE  Updates
<1> SUFFICES ASSUME NEW i \in DOMAIN transfers PROVE RowStep(i)
  BY DEF MarkProcessing, Updates
<1>1. transfers[i] \in Row
  BY DEF StoreTypeOK
<1>2. CASE i \in ids /\ transfers[i].status = Detected
  <2>1. transfers'[i] = [transfers[i] EXCEPT !.status = Processing]
    BY <1>2 DEF MarkProcessing
  <2> QED
    BY <1>1, <1>2, <2>1
    DEF RowStep, Row, ColumnsOK, RowStaysTerminal, RowKeepsTxIn, StatusPriority,
        Terminal, Status, Detected, Processing, Done, Failed
<1>3. CASE ~(i \in ids /\ transfers[i].status = Detected)
  <2>1. transfers'[i] = transfers[i]
    BY <1>3 DEF MarkProcessing
  <2> QED
    BY <1>1, <2>1, PriorityType DEF RowStep, RowStaysTerminal, RowKeepsTxIn
<1> QED
  BY <1>2, <1>3

(* UPDATE ... SET status = done WHERE id = ... AND status < done *)
LEMMA MarkDoneUpdates ==
  ASSUME StoreTypeOK, NEW id, NEW t \in Time, NEW tx \in TxHash, MarkDone(id, t, tx)
  PROVE  Updates
<1> SUFFICES ASSUME NEW i \in DOMAIN transfers PROVE RowStep(i)
  BY DEF MarkDone, Updates
<1>1. transfers[i] \in Row
  BY DEF StoreTypeOK
<1>2. CASE i = id /\ InFlight(i)
  <2> DEFINE in == TxInOr(transfers[i].tx_in, tx)
  <2>1. transfers'[i] = [transfers[i] EXCEPT !.status = Done, !.done_at = t, !.tx_in = in]
    BY <1>2 DEF MarkDone
  <2>2. in \in TxHash \cup {NULL}
    BY <1>1 DEF TxInOr, Row
  <2>3. transfers[i].tx_in # NULL => in = transfers[i].tx_in
    BY DEF TxInOr
  <2>4. transfers[i].tx_in # NoTx => in # NoTx
    BY StoreAssumption DEF TxInOr, TxHash
  <2>5. transfers[i].status \in {Detected, Processing}
    BY <1>1, <1>2 DEF InFlight, Row, Status, Detected, Processing, Done, Failed
  <2> HIDE DEF in
  <2>6. transfers'[i] \in Row
    BY <1>1, <2>1, <2>2 DEF Row, Status
  <2>7. ColumnsOK(transfers[i]) => ColumnsOK(transfers'[i])
    BY <1>1, <2>1, <2>4, <2>5, StoreAssumption
    DEF Row, ColumnsOK, Detected, Processing, Done, Failed
  <2> QED
    BY <1>1, <2>1, <2>3, <2>5, <2>6, <2>7
    DEF Row, RowStep, RowStaysTerminal, RowKeepsTxIn, StatusPriority, Terminal,
        Detected, Processing, Done, Failed
<1>3. CASE ~(i = id /\ InFlight(i))
  <2>1. transfers'[i] = transfers[i]
    BY <1>3 DEF MarkDone
  <2> QED
    BY <1>1, <2>1, PriorityType DEF RowStep, RowStaysTerminal, RowKeepsTxIn
<1> QED
  BY <1>2, <1>3

(* UPDATE ... SET status = failed WHERE id = ... AND status < done *)
LEMMA MarkFailedUpdates ==
  ASSUME StoreTypeOK, NEW id, NEW m \in Message, NEW tx \in TxHash, MarkFailed(id, m, tx)
  PROVE  Updates
<1> SUFFICES ASSUME NEW i \in DOMAIN transfers PROVE RowStep(i)
  BY DEF MarkFailed, Updates
<1>1. transfers[i] \in Row
  BY DEF StoreTypeOK
<1>2. CASE i = id /\ InFlight(i)
  <2> DEFINE in == TxInOr(transfers[i].tx_in, tx)
  <2>1. transfers'[i] = [transfers[i] EXCEPT !.status = Failed, !.err_msg = m, !.tx_in = in]
    BY <1>2 DEF MarkFailed
  <2>2. in \in TxHash \cup {NULL}
    BY <1>1 DEF TxInOr, Row
  <2>3. transfers[i].tx_in # NULL => in = transfers[i].tx_in
    BY DEF TxInOr
  <2>4. transfers[i].tx_in # NoTx => in # NoTx
    BY StoreAssumption DEF TxInOr, TxHash
  <2>5. transfers[i].status \in {Detected, Processing}
    BY <1>1, <1>2 DEF InFlight, Row, Status, Detected, Processing, Done, Failed
  <2> HIDE DEF in
  <2>6. transfers'[i] \in Row
    BY <1>1, <2>1, <2>2 DEF Row, Status
  <2>7. ColumnsOK(transfers[i]) => ColumnsOK(transfers'[i])
    BY <1>1, <2>1, <2>4, <2>5, StoreAssumption
    DEF Row, ColumnsOK, Detected, Processing, Done, Failed
  <2> QED
    BY <1>1, <2>1, <2>3, <2>5, <2>6, <2>7
    DEF Row, RowStep, RowStaysTerminal, RowKeepsTxIn, StatusPriority, Terminal,
        Detected, Processing, Done, Failed
<1>3. CASE ~(i = id /\ InFlight(i))
  <2>1. transfers'[i] = transfers[i]
    BY <1>3 DEF MarkFailed
  <2> QED
    BY <1>1, <2>1, PriorityType DEF RowStep, RowStaysTerminal, RowKeepsTxIn
<1> QED
  BY <1>2, <1>3

(* UPDATE ... SET tx_in WHERE packet_hash = ... AND tx_in IS NULL *)
LEMMA SetTxInUpdates ==
  ASSUME StoreTypeOK, NEW h, NEW tx \in TxHash, SetTxIn(h, tx)
  PROVE  Updates
<1> SUFFICES ASSUME NEW i \in DOMAIN transfers PROVE RowStep(i)
  BY DEF SetTxIn, Updates
<1>1. transfers[i] \in Row
  BY DEF StoreTypeOK
<1>2. CASE tx # NoTx /\ HashOf(i) = h /\ transfers[i].tx_in = NULL
  <2>1. transfers'[i] = [transfers[i] EXCEPT !.tx_in = tx]
    BY <1>2 DEF SetTxIn
  <2> QED
    BY <1>1, <1>2, <2>1, PriorityType
    DEF RowStep, Row, ColumnsOK, RowStaysTerminal, RowKeepsTxIn
<1>3. CASE ~(tx # NoTx /\ HashOf(i) = h /\ transfers[i].tx_in = NULL)
  <2>1. transfers'[i] = transfers[i]
    BY <1>3 DEF SetTxIn
  <2> QED
    BY <1>1, <2>1, PriorityType DEF RowStep, RowStaysTerminal, RowKeepsTxIn
<1> QED
  BY <1>2, <1>3

(* The DELETE of DedupeByPacketHash removes rows and changes none. *)
LEMMA DedupeKeeps ==
  ASSUME StoreTypeOK, DedupeByPacketHash
  PROVE  Keeps
BY DEF DedupeByPacketHash, Keeps

-----------------------------------------------------------------------------
(* Every statement is of one of three shapes. *)
LEMMA WriteShapes ==
  ASSUME StoreTypeOK, WriteTransfers
  PROVE  \/ Updates
         \/ \E id \in Id : \E row \in Row : Adds(id, row)
         \/ DedupeByPacketHash
<1>1. CASE \E id \in Id, b \in Bridge, t \in Time, e \in Id \cup {0}, s \in Status :
             InsertWrites(e, s) /\ InsertWrite(id, NewRow(b, t), e)
  BY <1>1, InsertAdds, NewRowOK
<1>2. CASE DedupeByPacketHash
  BY <1>2
<1>3. CASE \E ids \in SUBSET Id : MarkProcessing(ids)
  BY <1>3, MarkProcessingUpdates
<1>4. CASE \E id \in Id, t \in Time, tx \in TxHash : MarkDone(id, t, tx)
  BY <1>4, MarkDoneUpdates
<1>5. CASE \E id \in Id, m \in Message, tx \in TxHash : MarkFailed(id, m, tx)
  BY <1>5, MarkFailedUpdates
<1>6. CASE \E h \in Hash \cup {NoHash}, tx \in TxHash : SetTxIn(h, tx)
  BY <1>6, SetTxInUpdates
<1> QED
  BY <1>1, <1>2, <1>3, <1>4, <1>5, <1>6 DEF WriteTransfers

(* A statement of any shape keeps the table well-typed and its columns in    *)
(* agreement.                                                                *)
LEMMA WriteKeepsTable ==
  ASSUME StoreTypeOK, WriteTransfers
  PROVE  /\ DOMAIN transfers' \subseteq Id
         /\ \A i \in DOMAIN transfers' : transfers'[i] \in Row
         /\ transfers' = [i \in DOMAIN transfers' |-> transfers'[i]]
         /\ ColumnsAgree => ColumnsAgree'
<1>1. CASE Updates
  BY <1>1 DEF StoreTypeOK, Updates, RowStep, ColumnsAgree
<1>2. ASSUME NEW id \in Id, NEW row \in Row, Adds(id, row)
      PROVE  /\ DOMAIN transfers' \subseteq Id
             /\ \A i \in DOMAIN transfers' : transfers'[i] \in Row
             /\ transfers' = [i \in DOMAIN transfers' |-> transfers'[i]]
             /\ ColumnsAgree => ColumnsAgree'
  BY <1>2 DEF StoreTypeOK, Adds, ColumnsAgree
<1>3. CASE Keeps
  BY <1>3 DEF StoreTypeOK, Keeps, ColumnsAgree
<1> QED
  BY <1>1, <1>2, <1>3, DedupeKeeps, WriteShapes

-----------------------------------------------------------------------------
(* Invariants *)

(* One step of any client keeps the two tables well-typed. *)
LEMMA StoreStepTyped ==
  ASSUME StoreTypeOK, [StoreNext]_storeVars
  PROVE  StoreTypeOK'
<1>1. CASE WriteTransfers /\ UNCHANGED cursors
  BY <1>1, WriteKeepsTable DEF StoreTypeOK
<1>2. CASE \E n \in CursorNames, id \in Id : SetCursor(n, id) /\ UNCHANGED transfers
  BY <1>2 DEF StoreTypeOK, SetCursor
<1>3. CASE UNCHANGED storeVars
  BY <1>3 DEF StoreTypeOK, storeVars
<1> QED
  BY <1>1, <1>2, <1>3 DEF StoreNext

(* The two tables stay well-typed under any client. *)
THEOREM StoreTypeCorrect == StoreSpec => []StoreTypeOK
<1>1. StoreInit => StoreTypeOK
  BY StoreAssumption DEF StoreInit, StoreTypeOK
<1>2. StoreTypeOK /\ [StoreNext]_storeVars => StoreTypeOK'
  BY StoreStepTyped
<1> QED
  BY <1>1, <1>2, PTL DEF StoreSpec

(* Whatever a client does, done_at, err_msg and status agree and tx_in is    *)
(* never the empty string.                                                   *)
THEOREM ColumnsAlwaysAgree == StoreSpec => []ColumnsAgree
<1>1. StoreInit => ColumnsAgree
  BY StoreAssumption DEF StoreInit, ColumnsAgree
<1>2. StoreTypeOK /\ ColumnsAgree /\ [StoreNext]_storeVars => ColumnsAgree'
  <2> SUFFICES ASSUME StoreTypeOK, ColumnsAgree, [StoreNext]_storeVars
               PROVE  ColumnsAgree'
    OBVIOUS
  <2>1. CASE WriteTransfers
    BY <2>1, WriteKeepsTable
  <2>2. CASE UNCHANGED transfers
    BY <2>2 DEF ColumnsAgree
  <2> QED
    BY <2>1, <2>2 DEF StoreNext, storeVars
<1> QED
  BY <1>1, <1>2, StoreTypeCorrect, PTL DEF StoreSpec

-----------------------------------------------------------------------------
(* What no step may do *)

(* A terminal row keeps its status, completion time and error, and a tx_in   *)
(* stays once it is set, under any client.                                   *)
LEMMA WriteKeepsRows ==
  ASSUME StoreTypeOK, WriteTransfers
  PROVE  \A i \in DOMAIN transfers \cap DOMAIN transfers' :
           RowStaysTerminal(i) /\ RowKeepsTxIn(i)
<1>1. CASE Updates
  BY <1>1 DEF Updates, RowStep
<1>2. ASSUME NEW id \in Id, NEW row \in Row, Adds(id, row)
      PROVE  \A i \in DOMAIN transfers \cap DOMAIN transfers' :
               RowStaysTerminal(i) /\ RowKeepsTxIn(i)
  BY <1>2 DEF Adds, RowStaysTerminal, RowKeepsTxIn
<1>3. CASE Keeps
  BY <1>3 DEF Keeps, RowStaysTerminal, RowKeepsTxIn
<1> QED
  BY <1>1, <1>2, <1>3, DedupeKeeps, WriteShapes

(* bridge.go:161-162, 191-192 *)
THEOREM TerminalRowsAreFinal == StoreSpec => TerminalIsFinal
<1>1. StoreTypeOK /\ [StoreNext]_storeVars
        => [\A i \in DOMAIN transfers \cap DOMAIN transfers' :
              RowStaysTerminal(i)]_storeVars
  <2> SUFFICES ASSUME StoreTypeOK, StoreNext
               PROVE  \/ \A i \in DOMAIN transfers \cap DOMAIN transfers' :
                            RowStaysTerminal(i)
                      \/ UNCHANGED storeVars
    OBVIOUS
  <2>1. CASE WriteTransfers
    BY <2>1, WriteKeepsRows
  <2>2. CASE UNCHANGED transfers
    BY <2>2 DEF RowStaysTerminal
  <2> QED
    BY <2>1, <2>2 DEF StoreNext
<1> QED
  BY <1>1, StoreTypeCorrect, PTL DEF StoreSpec, TerminalIsFinal

(* bridge.go:178-181 *)
THEOREM TxInIsWrittenOnce == StoreSpec => TxInWriteOnce
<1>1. StoreTypeOK /\ [StoreNext]_storeVars
        => [\A i \in DOMAIN transfers \cap DOMAIN transfers' :
              RowKeepsTxIn(i)]_storeVars
  <2> SUFFICES ASSUME StoreTypeOK, StoreNext
               PROVE  \/ \A i \in DOMAIN transfers \cap DOMAIN transfers' :
                            RowKeepsTxIn(i)
                      \/ UNCHANGED storeVars
    OBVIOUS
  <2>1. CASE WriteTransfers
    BY <2>1, WriteKeepsRows
  <2>2. CASE UNCHANGED transfers
    BY <2>2 DEF RowKeepsTxIn
  <2> QED
    BY <2>1, <2>2 DEF StoreNext
<1> QED
  BY <1>1, StoreTypeCorrect, PTL DEF StoreSpec, TxInWriteOnce

(* Among the rows of a packet one survives deduplication, and no other has a *)
(* better status: the one with the best status and, among those, the least   *)
(* id.                                                                       *)
LEMMA BestRowSurvives ==
  ASSUME StoreTypeOK, NEW i \in DOMAIN transfers, DedupeByPacketHash
  PROVE  PacketKeepsRank(i)
<1> DEFINE rows  == {j \in DOMAIN transfers : HashOf(j) = HashOf(i)}
           ranks == {Rank(j) : j \in rows}
<1>1. rows # {} /\ ranks # {} /\ ranks \subseteq Nat
  BY PriorityType DEF Rank
<1>2. PICK p \in ranks : \A q \in ranks : p <= q
  BY <1>1, LeastNatural
<1> DEFINE best == {j \in rows : Rank(j) = p}
<1>3. best # {} /\ best \subseteq Nat
  BY <1>2, StoreAssumption DEF StoreTypeOK
<1>4. PICK k \in best : \A j \in best : k <= j
  BY <1>3, LeastNatural
<1>5. ASSUME NEW m \in DOMAIN transfers, RanksBefore(m, k) PROVE FALSE
  <2>1. m \in rows /\ m # k
    BY <1>4, <1>5 DEF RanksBefore
  <2>2. CASE Outranks(transfers[m].status, transfers[k].status)
    BY <1>2, <1>4, <2>1, <2>2, PriorityType DEF Outranks, Rank
  <2>3. CASE Rank(m) = Rank(k) /\ m < k
    <3>1. m \in best
      BY <1>4, <2>1, <2>3
    <3> QED
      BY <1>3, <1>4, <2>3, <3>1
  <2> QED
    BY <1>5, <2>2, <2>3 DEF RanksBefore, Rank, Outranks
<1>6. k \in DOMAIN transfers /\ HashOf(k) = HashOf(i)
  BY <1>4
<1>7. k \in DOMAIN transfers' /\ transfers'[k] = transfers[k]
  BY <1>5, <1>6 DEF DedupeByPacketHash
<1>8. Rank(k) <= Rank(i)
  BY <1>2, <1>4
<1> QED
  BY <1>6, <1>7, <1>8 DEF PacketKeepsRank, HashOf, Rank

LEMMA StepKeepsRanks ==
  ASSUME StoreTypeOK, [StoreNext]_storeVars
  PROVE  \A i \in DOMAIN transfers : PacketKeepsRank(i)
<1> SUFFICES ASSUME NEW i \in DOMAIN transfers
             PROVE  PacketKeepsRank(i)
  OBVIOUS
<1>1. CASE Updates
  BY <1>1 DEF Updates, RowStep, PacketKeepsRank, HashOf, Rank
<1>2. ASSUME i \in DOMAIN transfers', transfers'[i] = transfers[i]
      PROVE  PacketKeepsRank(i)
  BY <1>2, PriorityType DEF PacketKeepsRank, HashOf, Rank
<1>3. ASSUME NEW id \in Id, NEW row \in Row, Adds(id, row)
      PROVE  PacketKeepsRank(i)
  BY <1>2, <1>3 DEF Adds
<1>4. CASE DedupeByPacketHash
  BY <1>4, BestRowSurvives
<1>5. CASE UNCHANGED transfers
  BY <1>2, <1>5
<1> QED
  BY <1>1, <1>3, <1>4, <1>5, WriteShapes DEF StoreNext, storeVars

(* No client can make a tracked packet disappear or its outcome worse;       *)
(* deduplication in particular keeps the best row (bridge.go:124-149).       *)
THEOREM OutcomesSurvive == StoreSpec => OutcomeSurvives
<1>1. StoreTypeOK /\ [StoreNext]_storeVars
        => [\A i \in DOMAIN transfers : PacketKeepsRank(i)]_storeVars
  BY StepKeepsRanks
<1> QED
  BY <1>1, StoreTypeCorrect, PTL DEF StoreSpec, OutcomeSurvives

=============================================================================
