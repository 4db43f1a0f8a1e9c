------------------------------ MODULE MCParser ------------------------------
(***************************************************************************)
(* Every item the parser tells apart, over two routes and two batch        *)
(* entries, and encoded payloads of each schema, as the states of a        *)
(* machine that reads one after another.                                   *)
(***************************************************************************)
EXTENDS ItemReader, AbiDecoder

VARIABLE
  payload   \* the payload being decoded: its schema, its text, and the values
            \* it is the encoding of ({} when it is not made by the encoder)

Routes2 == <<[src |-> "gno", dst |-> "evm", channel |-> 1],
             [src |-> "evm", dst |-> "gno", channel |-> 2]>>

MCChain  == {"gno", "evm"}
MCGno    == {"gno"}
MCDigest == {"d"}
MCHash   == {"h"}

SomeEntries ==
  LET E == [type : {"packet_timeout", "packet_send"}, timeout : {0, 7}, channel : {1}]
  IN  UNION {[1..n -> E] : n \in 0..2}

(* The chain of an event of the packet: its source for a packet_send, its    *)
(* destination otherwise; or a plugin without a chain.                       *)
SomeItems ==
  [message : EventMessages \cup {"submit_multicall", "promise", "other"},
   decodes : BOOLEAN,
   chain   : Chain \cup {NoChain},
   event   : PacketEvents \cup {"write_ack", "other"},
   hash    : Hash,
   channel : {1, 2, 3},
   timeout : {7},
   tx      : {NoTx, [digest |-> "d", enc |-> "hex"]},
   ack     : {"missing", "undecodable", "success", "failure"},
   entries : {<<>>}]
  \cup
  [message : {"submit_multicall", "promise", "other"},
   decodes : BOOLEAN, chain : {NoChain}, event : {"other"}, hash : {NoHash},
   channel : {0}, timeout : {0}, tx : {NoTx}, ack : {"missing"},
   entries : SomeEntries]

Unread == CHOOSE i \in SomeItems : i.message = "other" /\ i.event = "other"

(* Contents of no word, of a part of one, of a whole one and of two. *)
Content(n) == [len |-> n, words |-> Slice(<<2 * Base^3 + n, 5 * Base^3>>, 0, n).words]

Encoded(schema, vals) ==
  [schema |-> schema, hex |-> TRUE, data |-> EncodeTuple(schema, vals), of |-> {vals}]

Acks == {Encoded(AckSchema, <<tag, Content(n)>>) : tag \in 0..2, n \in 0..5}

OrdersV1 ==
  {<<Content(a), Content(5), Content(b), amount, Content(1), Content(0), 6, 0, Content(c), 9>> :
     a, b, c \in {0, 3, 4}, amount \in {0, 7}}

OrdersV2 ==
  {<<Content(a), Content(5), Content(b), amount, Content(c), 9, 1, Content(2)>> :
     a, b, c \in {0, 3, 4}, amount \in {0, 7}}

(* The operand of an instruction is itself an encoding. *)
Packet(version, opcode, operand) ==
  Encoded(ZkgmPacketSchema,
    <<8, 0, <<version, opcode, [len |-> Size(operand), words |-> operand]>>>>)

Packets ==
  {Packet(1, OpcodeTokenOrder, EncodeTuple(TokenOrderV1Schema, o)) : o \in OrdersV1} \cup
  {Packet(2, OpcodeTokenOrder, EncodeTuple(TokenOrderV2Schema, o)) : o \in OrdersV2}

Lists ==
  {Encoded(<<Array(UInt8), UInt64, Array(Bytes)>>, <<small, 40, lists>>) :
     small \in {<<>>, <<1>>, <<1, 2>>},
     lists \in {<<>>, <<Content(3)>>, <<Content(0), Content(5)>>}}

(* Words of every kind a decoder branches on: no value, lengths and offsets *)
(* aligned and not, inside and outside, and wider than a uint64.            *)
SomeWords == {0, 1, 4, 5, 8, 12, 64, UInts, UInts + 8}

(* The same, and what is negative or overflows as an int, at once or when it *)
(* is padded or a position is added to it.                                   *)
AllWords == SomeWords \cup {UInts \div 2 - 16, UInts \div 2 - 13, UInts \div 2 - 2,
                            UInts \div 2, UInts - 4}

Raw(schema, words, most) ==
  {[schema |-> schema, hex |-> h, data |-> d, of |-> {}] :
     h \in BOOLEAN, d \in UNION {[1..n -> words] : n \in 0..most}}

NoPayload == [schema |-> <<>>, hex |-> TRUE, data |-> <<>>, of |-> {}]

Init == item = Unread /\ payload = NoPayload

(* Any item or payload is read next; two reads are told apart by a return to *)
(* Unread and NoPayload.                                                     *)
ReadAnItem == ReadItem /\ UNCHANGED payload

ReadAck    == payload' \in Acks /\ UNCHANGED item
ReadPacket == payload' \in Packets /\ UNCHANGED item
ReadList   == payload' \in Lists /\ UNCHANGED item
ReadRaw    == /\ \/ payload' \in Raw(AckSchema, AllWords, 3)
                 \/ payload' \in Raw(<<Array(UInt8), Bytes>>, SomeWords, 4)
                 \/ payload' \in Raw(<<Array(Bytes)>>, SomeWords, 4)
              /\ UNCHANGED item

Return == item' = Unread /\ payload' = NoPayload

Next == IF item = Unread /\ payload = NoPayload
        THEN ReadAnItem \/ ReadAck \/ ReadPacket \/ ReadList \/ ReadRaw
        ELSE Return

Spec == Init /\ [][Next]_<<item, payload>>

(* What the encoder makes of a tuple decodes to that tuple: offsets are      *)
(* counted from the tuple or array they stand in (decode.go:54, 183).        *)
DecodesEncoded ==
  \A vals \in payload.of : Decode(payload.schema, payload.data) = Val(vals)

(* A transfer shows the fields its packet's token order was encoded from,    *)
(* for either version of the order, an operand decoded out of a decoded      *)
(* bytes value (parser.go:396-420, zkgm.go:181-226); and an acknowledgement  *)
(* is a failure exactly when it was encoded with tag 0 (parser.go:427-438).  *)
ReadsWhatWasSent ==
  \A vals \in payload.of :
    /\ payload.schema = AckSchema =>
         AckOf(payload) = (IF vals[1] = 0 THEN "failure" ELSE "success")
    /\ payload.schema = ZkgmPacketSchema =>
         LET shown == DecodePacketData(payload)
         IN  /\ shown.kind = "value"
             /\ \/ /\ vals[3][1] = 1
                   /\ \E o \in OrdersV1 :
                        /\ vals[3][3].words = EncodeTuple(TokenOrderV1Schema, o)
                        /\ shown.v = [sender |-> o[1], receiver |-> o[2], base_token |-> o[3],
                                      base_amount |-> o[4], quote_token |-> o[9],
                                      quote_amount |-> o[10]]
                \/ /\ vals[3][1] = 2
                   /\ \E o \in OrdersV2 :
                        /\ vals[3][3].words = EncodeTuple(TokenOrderV2Schema, o)
                        /\ shown.v = [sender |-> o[1], receiver |-> o[2], base_token |-> o[3],
                                      base_amount |-> o[4], quote_token |-> o[5],
                                      quote_amount |-> o[6]]

(* Lengths whose end, once padded, no int can hold. *)
Oversized(data) ==
  \E k \in DOMAIN data :
    IsUint64(data[k]) /\ data[k] + Size(data) + WordSize > UInts \div 2

(* Decoding answers with a value or an error, whatever the words are, short  *)
(* of a length no int can hold: no check of a length, an offset or a head is *)
(* missing before the slice or the allocation it guards (decode.go:45-226).  *)
DecodeAnswers ==
  Oversized(payload.data) \/ DecodeText(payload.schema, payload).kind # "panic"

=============================================================================
