------------------------------- MODULE Parser -------------------------------
(***************************************************************************)
(* What internal/indexer/parser.go reads out of a relayer item.  An item   *)
(* is the JSON document of a row of the relayer's queue, done or failed    *)
(* table.  It is abstracted to the fields the parser branches on; JSON     *)
(* layout, token amounts, addresses and heights are left out.              *)
(*                                                                         *)
(* A Go function that returns (value, error) or a nil pointer is an        *)
(* operator that returns a set with at most one element: every caller      *)
(* treats an error and a nil alike (it logs and goes on).                  *)
(***************************************************************************)
EXTENDS Integers, Sequences, FiniteSetsExt

CONSTANTS
  Chain,      \* chain ids, as they end an event-source plugin's name
  NoChain,    \* the empty chain id: no '/' in the plugin's name, no route
  GnoChain,   \* the chains whose plugin name contains "-gno/"
  Digest,     \* transaction digests
  NoTx,       \* the empty transaction hash
  Hash,       \* packet hashes
  NoHash,     \* the empty packet hash
  Channel,    \* channel ids; 0 is what an absent field unmarshals to
  Timeout,    \* timeout timestamps, 0 likewise
  Chains      \* config.ChannelChain rows: a sequence of [src, dst, channel]

(* A transaction hash is a digest in one of two renderings. *)
TxHash == [digest : Digest, enc : {"hex", "base64"}] \cup {NoTx}

Routes == [src : Chain, dst : Chain, channel : Channel]

ASSUME ChainsAssumption ==
  /\ Chains \in Seq(Routes)
  /\ GnoChain \subseteq Chain
  /\ NoChain \notin Chain
  /\ NoHash \notin Hash
  /\ Channel \subseteq Nat /\ 0 \in Channel
  /\ Timeout \subseteq Nat /\ 0 \in Timeout
  /\ NoTx \notin [digest : Digest, enc : {"hex", "base64"}]

EventMessages == {"make_chain_event", "make_full_event"}
PacketEvents  == {"packet_send", "packet_recv"}

(* A datagram of a submit_multicall, or one entry of a promise's batches. *)
Entry == [type : {"packet_timeout", "packet_send", "other"},
          timeout : Timeout, channel : Channel]

(* "message" is body.Message.Type of a call/plugin item, "promise" for a    *)
(* promise, "other" for anything else; "decodes" tells whether the payload  *)
(* unmarshals into the shape that message announces.                        *)
Items == [message : EventMessages \cup {"submit_multicall", "promise", "other"},
          decodes : BOOLEAN,
          chain   : Chain \cup {NoChain},
          event   : PacketEvents \cup {"write_ack", "other"},
          hash    : Hash \cup {NoHash},
          channel : Channel,
          timeout : Timeout,
          tx      : TxHash,
          ack     : {"missing", "undecodable", "success", "failure"},
          entries : Seq(Entry)]

(* The record Parse makes of an event, and Insert writes. *)
Bridge == [packet_hash : Hash \cup {NoHash}, src_chain_id : Chain, dst_chain_id : Chain,
           src_channel_id : Channel, timeout_timestamp : Timeout, tx_out : TxHash]

-----------------------------------------------------------------------------
(* Helpers *)

(* The hash is shown in hex, or in base64 when the event comes from gno. *)
FormatTxHash(tx, isGno) ==
  IF tx = NoTx \/ ~isGno THEN tx ELSE [tx EXCEPT !.enc = "base64"]

ItemTx(item) == FormatTxHash(item.tx, item.chain \in GnoChain)

(* Only a failure tag that decodes is a failure. *)
DecodeAckOutcome(ack) == ack # "failure"

(* The first configured route that passes the test, if there is one. *)
FirstRoute(Test(_)) ==
  LET hits == {k \in DOMAIN Chains : Test(Chains[k])}
  IN  IF hits = {} THEN {} ELSE {Chains[Min(hits)]}

FindDstChain(chain, channel) ==
  FirstRoute(LAMBDA r : r.src = chain /\ r.channel = channel)

FindChainsBySourceChannel(channel) ==
  FirstRoute(LAMBDA r : r.channel = channel)

-----------------------------------------------------------------------------
(* Parse: the bridge record a queue item starts, if any. *)

ParsePacketSend(item) ==
  IF item.chain = NoChain THEN {} ELSE FindDstChain(item.chain, item.channel)

(* Mutant: the chains swapped, as seen from the destination. *)
ParsePacketRecvSwapped(item) ==
  {[r EXCEPT !.src = r.dst, !.dst = r.src] : r \in FindChainsBySourceChannel(item.channel)}

ParsePacketRecv(item) == FindChainsBySourceChannel(item.channel)

(* tx_out is the hash of the transaction of THIS event, whatever the event. *)
BuildBridge(item, route) ==
  [packet_hash       |-> item.hash,
   src_chain_id      |-> route.src,
   dst_chain_id      |-> route.dst,
   src_channel_id    |-> item.channel,
   timeout_timestamp |-> item.timeout,
   tx_out            |-> ItemTx(item)]

Parse(item) ==
  IF item.message \in EventMessages /\ item.decodes /\ item.event \in PacketEvents
  THEN {BuildBridge(item, r) :
          r \in IF item.event = "packet_send" THEN ParsePacketSend(item)
                                              ELSE ParsePacketRecv(item)}
  ELSE {}

-----------------------------------------------------------------------------
(* ParseItemFields: what a done or failed item is matched by, if anything. *)

WriteAckFields(item) ==
  [event_type |-> "write_ack", timeout |-> 0, channel |-> 0,
   hash |-> item.hash, tx |-> ItemTx(item),
   ack_success |-> DecodeAckOutcome(item.ack)]

(* Mutant: the hash left in hex, whatever the chain. *)
PacketFieldsHex(item) ==
  [event_type |-> item.event, timeout |-> item.timeout, channel |-> item.channel,
   hash |-> item.hash, tx |-> item.tx, ack_success |-> FALSE]

PacketFields(item) ==
  [event_type |-> item.event, timeout |-> item.timeout, channel |-> item.channel,
   hash |-> item.hash, tx |-> ItemTx(item), ack_success |-> FALSE]

(* The first batch entry with a timeout stands for the whole batch. *)
PromiseFields(item) ==
  LET dated == {k \in DOMAIN item.entries : item.entries[k].timeout # 0}
  IN  {[event_type |-> item.entries[k].type, timeout |-> item.entries[k].timeout,
        channel |-> item.entries[k].channel, hash |-> NoHash, tx |-> NoTx,
        ack_success |-> FALSE] : k \in {m \in dated : \A n \in dated : m <= n}}

ParseItemFields(item) ==
  IF ~item.decodes THEN {}
  ELSE IF item.message \in EventMessages /\ item.event = "write_ack"
       THEN {WriteAckFields(item)}
  ELSE IF item.message = "make_chain_event" /\ item.event \in PacketEvents
       THEN {PacketFields(item)}
  ELSE IF item.message = "promise" THEN PromiseFields(item)
  ELSE {}

(* The fields the done handlers act on. *)
AckFields(item) ==
  {f \in ParseItemFields(item) : f.event_type \in {"packet_recv", "write_ack"}}

(* ParsePacketTimeouts: the packet_timeout datagrams of a multicall, by their *)
(* position in it.                                                           *)
ParsePacketTimeouts(item) ==
  {k \in DOMAIN item.entries : /\ item.message = "submit_multicall" /\ item.decodes
                               /\ item.entries[k].type = "packet_timeout"}

-----------------------------------------------------------------------------
(* The words an item's text contains, as far as a filter looks for them. *)
Mentions(item) == {item.event} \cup {item.entries[k].type : k \in DOMAIN item.entries}

(* The LIKE filter of the done_insert trigger. *)
TriggerWords == {"packet_recv", "write_ack", "packet_timeout"}

PassesTrigger(item) == Mentions(item) \cap TriggerWords # {}

(* Mutant: a filter written before timeouts were handled. *)
ScanWordsNoTimeout == {"packet_recv", "write_ack"}

(* The LIKE filter of syncDone's query. *)
ScanWords == {"packet_recv", "write_ack", "packet_timeout"}

PassesScan(item) == Mentions(item) \cap ScanWords # {}

-----------------------------------------------------------------------------
(* Properties of one item. *)

(* Nothing the done handlers act on is held back by the trigger's filter     *)
(* (cmd/setup-trigger/main.go:35) or by syncDone's WHERE clause              *)
(* (sync.go:111), two lists kept apart.                                      *)
FilterCoversHandlers(item) ==
  AckFields(item) # {} \/ ParsePacketTimeouts(item) # {} =>
    PassesTrigger(item) /\ PassesScan(item)

(* A packet first seen through its packet_recv gets the same route as one    *)
(* first seen through its packet_send, though the first looks its channel up *)
(* without a chain (parser.go:359 and 350), when source channels are not     *)
(* shared between configured chains.                                         *)
SendAndRecvAgree(item) ==
  \A send \in Parse([item EXCEPT !.event = "packet_send"]),
     recv \in Parse([item EXCEPT !.event = "packet_recv"]) :
    /\ send.src_chain_id = recv.src_chain_id
    /\ send.dst_chain_id = recv.dst_chain_id

(* Parse and ParseItemFields read the same event separately: what a transfer *)
(* is recorded under is what the event is later matched by.                  *)
KeysAgree(item) ==
  \A b \in Parse(item), f \in ParseItemFields(item) :
    /\ f.hash = b.packet_hash
    /\ f.timeout = b.timeout_timestamp
    /\ f.channel = b.src_channel_id
    /\ f.tx = b.tx_out

=============================================================================
