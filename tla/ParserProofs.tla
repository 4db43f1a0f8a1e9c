---------------------------- MODULE ParserProofs ----------------------------
(***************************************************************************)
(* What the parser's functions owe to each other, for every item and every *)
(* configuration of chains and channels; and what the decoder's single     *)
(* reads return, for every data and every size of machine integers.        *)
(***************************************************************************)
EXTENDS ItemReader, AbiWords, TLAPS

(* Every item read is a well-formed item. *)
LEMMA ReadsItems ==
  ReaderSpec => [](item \in Items)
<1>1. item \in Inbox => item \in Items
  BY InboxAssumption
<1>2. item \in Inbox /\ [ReadItem]_item => (item \in Inbox)'
  BY DEF ReadItem
<1> QED
  BY <1>1, <1>2, PTL DEF ReaderSpec

-----------------------------------------------------------------------------
(* The filter *)

(* A batch entry is neither a receipt nor an acknowledgement, so what the    *)
(* done handlers take up of an item is named by its event                    *)
(* (parser.go:173-208).                                                      *)
LEMMA HandledByEvent ==
  ASSUME NEW i \in Items, AckFields(i) # {}
  PROVE  i.event \in {"packet_recv", "write_ack"}
<1>1. PICK f \in ParseItemFields(i) : f.event_type \in {"packet_recv", "write_ack"}
  BY DEF AckFields
<1>2. CASE i.event = "write_ack"
  BY <1>2
<1>3. CASE f = PacketFields(i)
  BY <1>1, <1>3 DEF PacketFields
<1>4. CASE f \in PromiseFields(i)
  <2>1. PICK k \in DOMAIN i.entries : f.event_type = i.entries[k].type
    BY <1>4 DEF PromiseFields
  <2>2. i.entries[k] \in Entry
    BY <2>1 DEF Items
  <2> QED
    BY <1>1, <2>1, <2>2 DEF Entry
<1> QED
  BY <1>1, <1>2, <1>3, <1>4 DEF ParseItemFields

(* The trigger's filter (cmd/setup-trigger/main.go:35) and syncDone's WHERE  *)
(* clause (sync.go:111) hold back nothing the done handlers act on.          *)
THEOREM FilterHoldsNothingBack ==
  ReaderSpec => []PassesFilter
<1>1. ASSUME NEW i \in Items
      PROVE  FilterCoversHandlers(i)
  <2>1. AckFields(i) # {} => i.event \in Mentions(i) \cap TriggerWords \cap ScanWords
    BY HandledByEvent DEF Mentions, TriggerWords, ScanWords
  <2>2. \A k \in ParsePacketTimeouts(i) :
          i.entries[k].type \in Mentions(i) \cap TriggerWords \cap ScanWords
    BY DEF ParsePacketTimeouts, Mentions, TriggerWords, ScanWords
  <2> QED
    BY <2>1, <2>2 DEF FilterCoversHandlers, PassesTrigger, PassesScan
<1>2. item \in Items => PassesFilter
  BY <1>1 DEF PassesFilter
<1> QED
  BY <1>2, ReadsItems, PTL

-----------------------------------------------------------------------------
(* Keys *)

(* Parse and ParseItemFields read the same event separately, and agree on    *)
(* the hash, the timeout, the channel and the transaction: a transfer is     *)
(* later matched by what it was recorded under (parser.go:173-183, 367-385). *)
THEOREM KeysAlwaysAgree ==
  ReaderSpec => []SameKeys
<1>1. ASSUME NEW i \in Items, NEW b \in Parse(i), NEW f \in ParseItemFields(i)
      PROVE  /\ f.hash = b.packet_hash
             /\ f.timeout = b.timeout_timestamp
             /\ f.channel = b.src_channel_id
             /\ f.tx = b.tx_out
  <2>1. i.message \in EventMessages /\ i.event \in PacketEvents
    BY DEF Parse
  <2>2. i.message # "promise" /\ i.event # "write_ack"
    BY <2>1 DEF EventMessages, PacketEvents
  <2>3. f = PacketFields(i)
    BY <2>2 DEF ParseItemFields
  <2>4. PICK r : b = BuildBridge(i, r)
    BY DEF Parse
  <2> QED
    BY <2>3, <2>4 DEF PacketFields, BuildBridge
<1>2. item \in Items => SameKeys
  BY <1>1 DEF SameKeys, KeysAgree
<1> QED
  BY <1>2, ReadsItems, PTL

-----------------------------------------------------------------------------
(* Routes *)

(* No two configured chains give their channels the same id: what a search   *)
(* by channel alone relies on (parser.go:474-481).                           *)
OwnChannels ==
  \A j, k \in DOMAIN Chains : Chains[j].channel = Chains[k].channel => j = k

(* The only route that passes a test is the one found. *)
LEMMA OnlyRoute ==
  ASSUME NEW k \in DOMAIN Chains
  PROVE  Min({k}) = k
<1>1. k \in Nat
  BY ChainsAssumption
<1> QED
  BY <1>1 DEF Min

(* A packet gets the same route whether it is first seen through its         *)
(* packet_send, looked up by chain and channel, or through its packet_recv,  *)
(* looked up by channel (parser.go:344-365), unless two chains share a       *)
(* channel id.                                                               *)
THEOREM RoutesAlwaysAgree ==
  ASSUME OwnChannels
  PROVE  ReaderSpec => []AgreesOnChains
<1>1. ASSUME NEW c, NEW ch, NEW s \in FindDstChain(c, ch), NEW r \in FindChainsBySourceChannel(ch)
      PROVE  s = r
  <2> DEFINE byBoth    == {k \in DOMAIN Chains : Chains[k].src = c /\ Chains[k].channel = ch}
             byChannel == {k \in DOMAIN Chains : Chains[k].channel = ch}
  <2>1. byBoth # {}
    BY DEF FindDstChain, FirstRoute
  <2>2. PICK k \in DOMAIN Chains : k \in byBoth
    BY <2>1
  <2>3. byBoth = {k} /\ byChannel = {k}
    BY <2>2 DEF OwnChannels
  <2>4. s = Chains[k]
    BY <2>3, OnlyRoute DEF FindDstChain, FirstRoute
  <2>5. r = Chains[k]
    BY <2>3, OnlyRoute DEF FindChainsBySourceChannel, FirstRoute
  <2> QED
    BY <2>4, <2>5
<1>2. ASSUME NEW i \in Items,
             NEW send \in Parse([i EXCEPT !.event = "packet_send"]),
             NEW recv \in Parse([i EXCEPT !.event = "packet_recv"])
      PROVE  /\ send.src_chain_id = recv.src_chain_id
             /\ send.dst_chain_id = recv.dst_chain_id
  <2> DEFINE x == [i EXCEPT !.event = "packet_send"]
             y == [i EXCEPT !.event = "packet_recv"]
  <2>1. /\ x.event = "packet_send" /\ x.channel = i.channel
        /\ y.event = "packet_recv" /\ y.channel = i.channel
    BY DEF Items
  <2>2. PICK s \in FindDstChain(x.chain, i.channel) : send = BuildBridge(x, s)
    BY <2>1 DEF Parse, ParsePacketSend
  <2>3. PICK r \in FindChainsBySourceChannel(i.channel) : recv = BuildBridge(y, r)
    BY <2>1 DEF Parse, ParsePacketRecv
  <2>4. s = r
    BY <1>1
  <2> QED
    BY <2>2, <2>3, <2>4 DEF BuildBridge
<1>3. item \in Items => AgreesOnChains
  BY <1>2 DEF AgreesOnChains, SendAndRecvAgree
<1> QED
  BY <1>3, ReadsItems, PTL

-----------------------------------------------------------------------------
(* The words of ABI data *)

(* Where the words of the data stand. *)
Positions(data) == {k * WordSize : k \in 0..(Len(data) - 1)}

(* Data that Go can hold. *)
Fits(data) == Size(data) < UInts \div 2

LEMMA RemainderIsBelow ==
  ASSUME NEW n \in Nat \ {0}, NEW u \in Int
  PROVE  u % n \in 0..(n - 1)
OBVIOUS

LEMMA RemainderOfSmall ==
  ASSUME NEW n \in Nat \ {0}, NEW u \in 0..(n - 1)
  PROVE  u % n = u
OBVIOUS

LEMMA RemainderOfNegative ==
  ASSUME NEW n \in Nat \ {0}, NEW u \in Int, 0 - n <= u, u < 0
  PROVE  u % n = u + n
OBVIOUS

LEMMA MonotoneWords ==
  ASSUME NEW a \in Nat, NEW b \in Nat, a < b
  PROVE  a * WordSize + WordSize <= b * WordSize
<1>1. PICK d \in Nat : b = a + 1 + d
  <2>1. b - a - 1 \in Nat /\ b = a + 1 + (b - a - 1)
    OBVIOUS
  <2> QED
    BY <2>1
<1>2. b * WordSize = a * WordSize + WordSize + d * WordSize
  BY <1>1, AbiAssumption
<1>3. d * WordSize \in Nat /\ a * WordSize \in Nat
  BY AbiAssumption
<1> QED
  BY <1>2, <1>3, AbiAssumption

(* An int holds a whole number of words. *)
LEMMA HalfIsWords ==
  /\ WordSize \in Nat \ {0} /\ UInts \in Nat \ {0} /\ UInts \div 2 \in Nat
  /\ UInts = 2 * (UInts \div 2)
  /\ \E k \in Nat : UInts \div 2 = k * WordSize
<1>1. PICK k \in Nat : k > 0 /\ UInts = 2 * (k * WordSize)
  BY AbiAssumption
<1>2. k * WordSize \in Nat /\ WordSize \in Nat \ {0}
  BY AbiAssumption
<1>3. UInts \div 2 = k * WordSize
  BY <1>1, <1>2
<1> QED
  BY <1>1, <1>2, <1>3, AbiAssumption

LEMMA WordsFit ==
  ASSUME NEW data \in Seq(Nat), Fits(data)
  PROVE  Size(data) \in Nat /\ Size(data) + WordSize <= UInts \div 2
<1>1. PICK k \in Nat : UInts \div 2 = k * WordSize
  BY HalfIsWords
<1>2. Len(data) \in Nat /\ Size(data) \in Nat /\ WordSize \in Nat
  BY AbiAssumption DEF Size
<1>3. Len(data) < k
  <2> SUFFICES ASSUME k <= Len(data)
               PROVE  FALSE
    BY <1>2
  <2>1. k * WordSize <= Len(data) * WordSize
    <3>1. CASE k = Len(data)
      BY <3>1, <1>2
    <3>2. CASE k < Len(data)
      BY <3>2, <1>2, MonotoneWords
    <3> QED
      BY <3>1, <3>2, <1>2
  <2> QED
    BY <1>1, <1>2, <2>1 DEF Fits, Size
<1> QED
  BY <1>1, <1>2, <1>3, MonotoneWords DEF Size

LEMMA WordIsRead ==
  ASSUME NEW data \in Seq(Nat), NEW pos \in Positions(data)
  PROVE  WordAt(data, pos) \in Nat /\ pos \in Nat /\ pos + WordSize <= Size(data)
<1>1. PICK k \in 0..(Len(data) - 1) : pos = k * WordSize
  BY DEF Positions
<1>2. WordSize \in Nat \ {0} /\ Len(data) \in Nat
  BY AbiAssumption
<1>3. pos \div WordSize = k
  BY <1>1, <1>2
<1>4. k + 1 \in DOMAIN data
  BY <1>2
<1>5. pos \in Nat
  BY <1>1, <1>2
<1>6. pos + WordSize <= Size(data)
  <2>1. k * WordSize + WordSize <= Len(data) * WordSize
    BY ONLY k \in Nat, Len(data) \in Nat, k < Len(data), MonotoneWords
  <2> QED
    BY <1>1, <2>1 DEF Size
<1>7. data[k + 1] \in Nat
  BY <1>4
<1> QED
  BY <1>3, <1>5, <1>6, <1>7 DEF WordAt

(* roundUp32 rounds up, unless the result is no uint64. *)
LEMMA RoundsUp ==
  ASSUME NEW u \in Nat, u + WordSize <= UInts
  PROVE  RoundUp32(u) \in u..(u + WordSize - 1)
<1>1. WordSize \in Nat \ {0} /\ UInts \in Nat \ {0}
  BY HalfIsWords
<1>2. u % WordSize \in 0..(WordSize - 1)
  BY <1>1, RemainderIsBelow
<1>3. CASE u % WordSize = 0
  BY <1>1, <1>3 DEF RoundUp32
<1>4. CASE u % WordSize # 0
  <2>1. u + WordSize - (u % WordSize) \in u..(u + WordSize - 1)
    BY <1>1, <1>2, <1>4
  <2>2. (u + WordSize - (u % WordSize)) % UInts = u + WordSize - (u % WordSize)
    BY <1>1, <2>1, RemainderOfSmall
  <2> QED
    BY <1>4, <2>1, <2>2 DEF RoundUp32
<1> QED
  BY <1>3, <1>4

(* An offset is a uint64 that Go converts to an int and adds to the base     *)
(* (decode.go:54-55, 183-184), both of which wrap.  The bounds of the sum    *)
(* make up for it: a position that passes them is the base and the offset as *)
(* written, and inside the data.                                             *)
THEOREM OffsetsDoNotWrap ==
  ASSUME NEW data \in Seq(Nat), Fits(data),
         NEW base \in 0..Size(data), NEW cursor \in Positions(data)
  PROVE  \A pos \in Follow(data, base, cursor) :
           pos = base + WordAt(data, cursor) /\ pos <= Size(data)
<1> DEFINE offset == WordAt(data, cursor)
           half == UInts \div 2
<1>1. /\ offset \in Nat /\ base \in Nat /\ Size(data) \in Nat /\ half \in Nat
      /\ UInts = 2 * half /\ UInts \in Nat \ {0} /\ base < half /\ Size(data) < half
  BY WordsFit, WordIsRead, HalfIsWords DEF Fits
<1> SUFFICES ASSUME NEW pos \in Follow(data, base, cursor)
             PROVE  pos = base + offset /\ pos <= Size(data)
  OBVIOUS
<1>2. /\ offset < UInts
      /\ pos = AddInt(base, ToInt(offset)) /\ pos \in base..Size(data)
  BY DEF Follow, IsUint64
<1> HIDE DEF offset, half
<1>3. CASE offset < half
  <2>1. ToInt(offset) = offset
    BY <1>3 DEF ToInt, half
  <2> DEFINE sum == base + offset
  <2>2. sum \in Nat /\ sum < UInts /\ sum \in 0..(UInts - 1) /\ sum - UInts < base
    BY <1>1, <1>3
  <2>3. pos = ToInt(sum % UInts)
    BY <1>2, <2>1 DEF AddInt
  <2> HIDE DEF sum
  <2>4. sum % UInts = sum
    BY <1>1, <2>2, RemainderOfSmall
  <2>5. pos = sum \/ pos = sum - UInts
    BY <2>3, <2>4 DEF ToInt
  <2>6. pos = sum /\ pos <= Size(data)
    BY <1>1, <1>2, <2>2, <2>5
  <2> QED
    BY <2>6 DEF sum
<1>4. CASE offset >= half
  <2>1. ToInt(offset) = offset - UInts
    BY <1>1, <1>4 DEF ToInt, half
  <2> DEFINE sum == base + (offset - UInts)
  <2>2. sum \in Int /\ 0 - half <= sum /\ sum < half /\ sum < base
    BY <1>1, <1>2, <1>4
  <2>3. pos = ToInt(sum % UInts)
    BY <1>2, <2>1 DEF AddInt
  <2> HIDE DEF sum
  <2>4. CASE sum >= 0
    <3>1. sum % UInts = sum
      BY <1>1, <2>2, <2>4, RemainderOfSmall
    <3> QED
      BY <1>1, <1>2, <2>2, <2>3, <3>1 DEF ToInt, half
  <2>5. CASE sum < 0
    <3>1. sum \in Int /\ 0 - UInts <= sum /\ sum < 0
      BY <1>1, <2>2, <2>5
    <3> DEFINE n == UInts
    <3> HIDE DEF n
    <3>3. n \in Nat \ {0} /\ 0 - n <= sum
      BY <1>1, <3>1 DEF n
    <3>4. sum % n = sum + n
      BY <3>1, <3>3, RemainderOfNegative
    <3>5. sum % UInts = sum + UInts
      BY <3>4 DEF n
    <3>2. pos = sum
      BY <1>1, <2>2, <2>3, <2>5, <3>5 DEF ToInt, half
    <3> QED
      BY <1>1, <1>2, <2>2, <3>2
  <2> QED
    BY <2>2, <2>4, <2>5
<1> QED
  BY <1>1, <1>3, <1>4

(* A bytes value is read if its padded end is inside the data and refused    *)
(* otherwise, and the read does not panic (decode.go:211-227): for every     *)
(* length whose padded end is an int.  A longer one is what the ParserItems  *)
(* run shows to panic.                                                       *)
THEOREM BytesAreInside ==
  ASSUME NEW data \in Seq(Nat), Fits(data), NEW pos \in Positions(data),
         WordAt(data, pos) + Size(data) + WordSize <= UInts \div 2
  PROVE  LET length == WordAt(data, pos)
             start  == pos + WordSize
         IN  BytesAt(data, pos) = IF start + RoundUp32(length) <= Size(data)
                                  THEN Val(Slice(data, start, length)) ELSE Err
<1> DEFINE length == WordAt(data, pos)
           start  == pos + WordSize
           half   == UInts \div 2
           padded == RoundUp32(length)
<1>1. /\ length \in Nat /\ start \in Nat /\ Size(data) \in Nat /\ half \in Nat
      /\ UInts = 2 * half /\ UInts \in Nat \ {0} /\ start <= Size(data)
      /\ WordSize \in Nat \ {0}
  BY WordsFit, WordIsRead, HalfIsWords
<1>2. length + Size(data) + WordSize <= half
  OBVIOUS
<1>3. padded \in length..(length + WordSize - 1)
  BY <1>1, <1>2, RoundsUp
<1>4. ~(pos + WordSize > Size(data) \/ ~IsUint64(WordAt(data, pos)))
  BY <1>1, <1>2 DEF IsUint64
<1>5. BytesAt(data, pos) = IF AddInt(start, ToInt(padded)) > Size(data) \/ padded < length
                           THEN Err ELSE CopyOut(data, start, ToInt(length))
  BY <1>4 DEF BytesAt
<1> HIDE DEF length, start, half, padded
<1>6. ToInt(padded) = padded /\ ToInt(length) = length
  BY <1>1, <1>2, <1>3 DEF ToInt, half
<1>7. AddInt(start, padded) = start + padded
  <2> DEFINE sum == start + padded
  <2>1. sum \in 0..(UInts - 1) /\ sum < half
    BY <1>1, <1>2, <1>3
  <2> HIDE DEF sum
  <2>2. sum % UInts = sum
    BY <1>1, <2>1, RemainderOfSmall
  <2>3. ToInt(sum % UInts) = sum
    BY <2>1, <2>2 DEF ToInt, half
  <2> QED
    BY <2>3 DEF AddInt, sum
<1>8. BytesAt(data, pos) = IF start + padded > Size(data)
                           THEN Err ELSE CopyOut(data, start, length)
  BY <1>1, <1>3, <1>5, <1>6, <1>7
<1>9. start + padded <= Size(data) => CopyOut(data, start, length) = Val(Slice(data, start, length))
  BY <1>1, <1>3 DEF CopyOut
<1>10. BytesAt(data, pos) = IF start + padded <= Size(data)
                            THEN Val(Slice(data, start, length)) ELSE Err
  BY <1>1, <1>3, <1>8, <1>9
<1> QED
  BY <1>10 DEF length, start, padded

=============================================================================
