----------------------------- MODULE AbiDecoder -----------------------------
(***************************************************************************)
(* internal/tools/ethabi: the ABI decoder that reads a packet's transfer   *)
(* order and an acknowledgement's tag, and the two functions of            *)
(* internal/indexer/parser.go that use it.                                 *)
(*                                                                         *)
(* AbiWords has the data and the reads of a value in it.  Schemas are well *)
(* formed and their tuples are not empty (ErrInvalidSchema and             *)
(* ErrUnsupportedType answer to schemas the program never builds); a       *)
(* string is the bytes it is read from.                                    *)
(***************************************************************************)
EXTENDS AbiWords, SequencesExt

CONSTANT MaxDepth   \* maxDecodeDepth

ASSUME DepthAssumption == MaxDepth \in Nat

(* A field of a schema. *)
Static(max)    == [type |-> "static", max |-> max]
Bytes          == [type |-> "bytes"]
Struct(fields) == [type |-> "struct", sub |-> fields]
Array(elem)    == [type |-> "array", elem |-> elem]

UInt8   == Static(Base - 1)
UInt64  == Static(Base^IntBytes - 1)
UInt256 == Static(Base^WordSize - 1)      \* and bytes32

(* A value when they all are, else what the first that is not ended with. *)
Collect(outcomes) ==
  LET ended == {i \in DOMAIN outcomes : outcomes[i].kind # "value"}
  IN  IF ended = {} THEN Val([i \in DOMAIN outcomes |-> outcomes[i].v])
                    ELSE outcomes[Min(ended)]

-----------------------------------------------------------------------------
(* decode.go *)

RECURSIVE IsDynamic(_)
IsDynamic(f) ==
  \/ f.type \in {"bytes", "array"}
  \/ f.type = "struct" /\ \E k \in DOMAIN f.sub : IsDynamic(f.sub[k])

(* What a field takes in its tuple's head: an offset, or staticHeadSize. *)
RECURSIVE HeadSize(_)
HeadSize(f) ==
  IF f.type # "struct" \/ IsDynamic(f) THEN WordSize
  ELSE FoldFunction(LAMBDA sub, sum : HeadSize(sub) + sum, 0, f.sub)

RECURSIVE ValueAt(_, _, _, _)

(* A component of a tuple or array: in place, or where its offset points. *)
ComponentAt(f, data, base, cursor, depth) ==
  IF IsDynamic(f)
  THEN LET at == Follow(data, base, cursor)
       IN  IF at = {} THEN Err ELSE ValueAt(f, data, CHOOSE pos \in at : TRUE, depth)
  ELSE ValueAt(f, data, cursor, depth)

TupleAt(fields, data, start, depth) ==
  LET cursor[i \in 1..Len(fields) + 1] ==
        IF i = 1 THEN start ELSE cursor[i - 1] + HeadSize(fields[i - 1])
  IN  IF depth >= MaxDepth THEN Err
      ELSE Collect([i \in DOMAIN fields |->
             IF cursor[i + 1] > Size(data) THEN Err
             ELSE ComponentAt(fields[i], data, start, cursor[i], depth + 1)])

ArrayAt(elem, data, pos, depth) ==
  IF \/ depth >= MaxDepth
     \/ pos + WordSize > Size(data)
     \/ WordAt(data, pos) > (Size(data) - pos) \div WordSize
  THEN Err
  ELSE LET n    == WordAt(data, pos)
           head == pos + WordSize
       IN  IF head + n * HeadSize(elem) > Size(data) THEN Err
           ELSE Collect([i \in 1..n |->
                  ComponentAt(elem, data, head, head + (i - 1) * HeadSize(elem), depth + 1)])

ValueAt(f, data, pos, depth) ==
  CASE f.type = "static" -> StaticAt(f, data, pos)
    [] f.type = "bytes"  -> BytesAt(data, pos)
    [] f.type = "struct" -> TupleAt(f.sub, data, pos, depth)
    [] f.type = "array"  -> ArrayAt(f.elem, data, pos, depth)

Decode(schema, data) == TupleAt(schema, data, 0, 0)

-----------------------------------------------------------------------------
(* zkgm.go.  A text is [hex, data]: whether it is hex, and padTo32 of it. *)

InstructionSchema == <<UInt8, UInt8, Bytes>>

ZkgmPacketSchema == <<UInt256, UInt256, Struct(InstructionSchema)>>

TokenOrderV1Schema ==
  <<Bytes, Bytes, Bytes, UInt256, Bytes, Bytes, UInt8, UInt256, Bytes, UInt256>>

TokenOrderV2Schema == <<Bytes, Bytes, Bytes, UInt256, Bytes, UInt256, UInt8, Bytes>>

AckSchema == <<UInt256, Bytes>>

DecodeText(schema, text) == IF text.hex THEN Decode(schema, text.data) ELSE Err

DecodeAck(text) == DecodeText(AckSchema, text)

ParseInstruction(vals) == [version |-> vals[1], opcode |-> vals[2], operand |-> vals[3]]

OpcodeTokenOrder == 3

TokenOrder(vals, quote, amount) ==
  [sender |-> vals[1], receiver |-> vals[2], base_token |-> vals[3],
   base_amount |-> vals[4], quote_token |-> vals[quote], quote_amount |-> vals[amount]]

(* Mutant: the quote read at version 2's place. *)
TokenOrderV1AsV2(vals) == TokenOrder(vals, 5, 6)

TokenOrderV1(vals) == TokenOrder(vals, 9, 10)

TokenOrderV2(vals) == TokenOrder(vals, 5, 6)

DecodeTokenOrder(instruction) ==
  LET order(schema) == Decode(schema, instruction.operand.words)
      v1 == order(TokenOrderV1Schema)
      v2 == order(TokenOrderV2Schema)
  IN  CASE instruction.version = 1 -> IF v1.kind = "value" THEN Val(TokenOrderV1(v1.v)) ELSE v1
        [] instruction.version = 2 -> IF v2.kind = "value" THEN Val(TokenOrderV2(v2.v)) ELSE v2
        [] OTHER -> Err

(* decodePacketData: the order written into the transfer.  The caller drops *)
(* the error, so an error and a packet without an order are alike.          *)
DecodePacketData(text) ==
  LET packet      == DecodeText(ZkgmPacketSchema, text)
      instruction == ParseInstruction(packet.v[3])
  IN  CASE packet.kind # "value" -> packet
        [] packet.kind = "value" /\ instruction.opcode = OpcodeTokenOrder ->
             DecodeTokenOrder(instruction)
        [] OTHER -> Err

(* What decodeAckOutcome tells apart: Parser's abstraction of an item's ack. *)
AckOf(text) ==
  LET ack == DecodeAck(text)
  IN  CASE text.hex /\ text.data = <<>> -> "missing"
        [] ack.kind # "value" -> "undecodable"
        [] OTHER -> IF ack.v[1] # 0 THEN "success" ELSE "failure"

-----------------------------------------------------------------------------
(* The encoder the package's tests decode against. *)

RECURSIVE EncodeTuple(_, _)
EncodeTuple(fields, vals) ==
  LET body(i) ==
        LET f == fields[i] IN
        CASE f.type = "static" -> <<vals[i]>>
          [] f.type = "bytes"  -> <<vals[i].len>> \o vals[i].words
          [] f.type = "struct" -> EncodeTuple(f.sub, vals[i])
          [] f.type = "array"  ->
               <<Len(vals[i])>> \o EncodeTuple([k \in DOMAIN vals[i] |-> f.elem], vals[i])
      tails == [i \in DOMAIN fields |-> IF IsDynamic(fields[i]) THEN body(i) ELSE <<>>]
      offset(i) == Len(fields) * WordSize + Size(FlattenSeq(SubSeq(tails, 1, i - 1)))
      heads == [i \in DOMAIN fields |-> IF IsDynamic(fields[i]) THEN <<offset(i)>> ELSE body(i)]
  IN  FlattenSeq(heads) \o FlattenSeq(tails)

=============================================================================
