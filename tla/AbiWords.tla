------------------------------ MODULE AbiWords ------------------------------
(***************************************************************************)
(* internal/tools/ethabi/decode.go: the words of ABI data, Go's integers,  *)
(* and the reads that stand alone: a static value, an offset, a bytes      *)
(* value.                                                                  *)
(*                                                                         *)
(* Data is a sequence of words, positions in it are byte positions: every  *)
(* read of decode.go is of a whole aligned word, since a start is aligned  *)
(* and an offset that is not is refused.  A bytes value is its length and  *)
(* the words it is padded to.  Go's 32-byte words, 8-byte int and 256      *)
(* values of a byte are the constants WordSize, IntBytes and Base; uint64  *)
(* to int conversion and int addition wrap, as they do in Go.  The "end"   *)
(* the functions pass around is len(data) in every call.                   *)
(***************************************************************************)
EXTENDS Integers, Sequences

CONSTANTS
  WordSize,   \* wordSize: bytes of a word
  Base,       \* values of a byte
  IntBytes    \* bytes of a uint64 or an int

UInts == Base^IntBytes

(* 2^64 is a multiple of twice a word. *)
ASSUME AbiAssumption ==
  /\ WordSize \in Nat /\ Base \in Nat /\ IntBytes \in Nat
  /\ 1 < Base /\ 0 < IntBytes /\ IntBytes < WordSize
  /\ UInts \in Nat
  /\ \E k \in 1..UInts : UInts = 2 * (k * WordSize)

(* What a call returns: a value, an error, or a panic that unwinds it. *)
Val(v) == [kind |-> "value", v |-> v]
Err    == [kind |-> "error"]
Panic  == [kind |-> "panic"]

-----------------------------------------------------------------------------
(* Machine integers and words *)

ToInt(u) == IF u < UInts \div 2 THEN u ELSE u - UInts

AddInt(a, b) == ToInt((a + b) % UInts)

RoundUp32(u) == IF u % WordSize = 0 THEN u ELSE (u + WordSize - (u % WordSize)) % UInts

Size(data) == Len(data) * WordSize

WordAt(data, pos) == data[pos \div WordSize + 1]

(* decodeWordUint64 fails on a word that is wider than a uint64. *)
IsUint64(word) == word < UInts

(* The first length bytes from start on; padTo32 of them is .words. *)
Slice(data, start, length) ==
  LET n     == RoundUp32(length) \div WordSize
      first == start \div WordSize
      cut   == Base^(RoundUp32(length) - length)
  IN  [len   |-> length,
       words |-> [i \in 1..n |-> IF i < n THEN data[first + i]
                                 ELSE data[first + i] - (data[first + i] % cut)]]

-----------------------------------------------------------------------------
(* Reads *)

(* Mutant: an offset counted from the start of the data. *)
FollowFromZero(data, base, cursor) ==
  LET offset == WordAt(data, cursor)
  IN  IF IsUint64(offset) /\ ToInt(offset) \in base..Size(data) /\ offset % WordSize = 0
      THEN {ToInt(offset)} ELSE {}

(* Where the offset at cursor, counted from base, points to, if it may. *)
Follow(data, base, cursor) ==
  LET offset == WordAt(data, cursor)
      pos    == AddInt(base, ToInt(offset))
  IN  IF IsUint64(offset) /\ pos \in base..Size(data) /\ offset % WordSize = 0
      THEN {pos} ELSE {}

StaticAt(f, data, pos) ==
  IF pos + WordSize > Size(data) \/ WordAt(data, pos) > f.max
  THEN Err ELSE Val(WordAt(data, pos))

(* make and the slice expression panic on a length they cannot have. *)
CopyOut(data, start, length) ==
  IF length < 0 \/ start + length > Size(data) THEN Panic
  ELSE Val(Slice(data, start, length))

(* Mutant: the padded length is not compared with the data. *)
BytesAtUnbounded(data, pos) ==
  IF pos + WordSize > Size(data) \/ ~IsUint64(WordAt(data, pos)) THEN Err
  ELSE CopyOut(data, pos + WordSize, ToInt(WordAt(data, pos)))

BytesAt(data, pos) ==
  IF pos + WordSize > Size(data) \/ ~IsUint64(WordAt(data, pos)) THEN Err
  ELSE LET length == WordAt(data, pos)
           padded == RoundUp32(length)
           start  == pos + WordSize
       IN  IF AddInt(start, ToInt(padded)) > Size(data) \/ padded < length
           THEN Err ELSE CopyOut(data, start, ToInt(length))

=============================================================================
