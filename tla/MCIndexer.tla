----------------------------- MODULE MCIndexer ------------------------------
(***************************************************************************)
(* Instances of Indexer for TLC: two chains, packets from evm to gno on    *)
(* channel 2, and one definition per story the relayer's tables may tell.  *)
(***************************************************************************)
EXTENDS Claims

MCChain  == {"evm", "gno"}
MCGno    == {"gno"}
MCHash   == {"h1", "h2"}
MCDigest == {"send1", "send2", "recv1", "ack1", "ack2"}
MCRoutes == <<[src |-> "gno", dst |-> "evm", channel |-> 1],
              [src |-> "evm", dst |-> "gno", channel |-> 2]>>

MCMessage(ids) == {MessageOf(i) : i \in ids} \cup {TimedOut, AckError}

-----------------------------------------------------------------------------
(* Items *)

Blank ==
  [message |-> "other", decodes |-> TRUE, chain |-> NoChain, event |-> "other",
   hash |-> NoHash, channel |-> 0, timeout |-> 0, tx |-> NoTx, ack |-> "missing",
   entries |-> <<>>]

Hex(digest) == [digest |-> digest, enc |-> "hex"]

Send(h, digest) ==
  [Blank EXCEPT !.message = "make_full_event", !.event = "packet_send", !.chain = "evm",
                !.hash = h, !.channel = 2, !.timeout = 7, !.tx = Hex(digest)]

Recv(h, digest) ==
  [Send(h, digest) EXCEPT !.message = "make_chain_event", !.event = "packet_recv",
                          !.chain = "gno"]

Ack(h, digest, ack) ==
  [Blank EXCEPT !.message = "make_chain_event", !.event = "write_ack", !.chain = "gno",
                !.hash = h, !.channel = 3, !.tx = Hex(digest), !.ack = ack]

Promise ==
  [Blank EXCEPT !.message = "promise",
                !.entries = <<[type |-> "packet_send", timeout |-> 7, channel |-> 2]>>]

Chatter == Blank

NoParents(n) == [i \in 1..n |-> {}]
Unborn(n)    == [i \in 1..n |-> "unborn"]

(* Id is 1..2, ... or 1..5. *)
NoParents2 == NoParents(2)
NoParents3 == NoParents(3)
Unborn2    == Unborn(2)
Unborn3    == Unborn(3)
MCMessage2 == MCMessage(1..2)
MCMessage3 == MCMessage(1..3)
MCMessage4 == MCMessage(1..4)
MCMessage5 == MCMessage(1..5)

NoRows == <<>>

Faultless == [error |-> 0, disconnect |-> 0, crash |-> 0]
OneError  == [error |-> 1, disconnect |-> 0, crash |-> 0]
OneLoss   == [error |-> 0, disconnect |-> 1, crash |-> 0]
ErrorAndCrash == [error |-> 1, disconnect |-> 0, crash |-> 1]
LossAndCrash == [error |-> 0, disconnect |-> 1, crash |-> 1]
OneOfEach == [error |-> 1, disconnect |-> 1, crash |-> 1]

-----------------------------------------------------------------------------
(* A packet, its receipt and its acknowledgement. *)
AckStory == <<Send("h1", "send1"), Recv("h1", "recv1"), Ack("h1", "ack1", "success")>>

(* A packet and its acknowledgement, whose item is in queue from the start: it *)
(* is completed before the packet's item comes, long before it, or after.     *)
PairStory == <<Send("h1", "send1"), Ack("h1", "ack1", "success")>>
PairPlace == <<"unborn", "queue">>

(* Two packets of gno that fail.  The first is emitted again, as a child of   *)
(* itself, and that item is given up: its own id matches nothing, its key     *)
(* does.  Or the first is refunded, or the item of an error acknowledgement   *)
(* of the second comes.                                                       *)
GnoSend(h, digest, timeout) ==
  [Send(h, digest) EXCEPT !.message = "make_chain_event", !.chain = "gno",
                          !.channel = 1, !.timeout = timeout]

GnoRefund ==
  [Blank EXCEPT !.message = "submit_multicall",
                !.entries = <<[type |-> "packet_timeout", timeout |-> 7, channel |-> 1]>>]

FailStory == <<GnoSend("h1", "send1", 7), GnoSend("h1", "send1", 7),
               GnoSend("h2", "send2", 9), GnoRefund, Ack("h2", "ack2", "failure")>>
FailParents == [i \in 1..5 |-> IF i = 2 THEN {1} ELSE {}]
FailPlace   == [i \in 1..5 |-> IF i \in {1, 3} THEN "queue" ELSE "unborn"]

(* Rows of an older indexer *)
OldRow(item, status) ==
  LET b == CHOOSE x \in Parse(item) : TRUE
  IN  [NewRow(b, 0) EXCEPT !.status = status]

(* A packet emitted twice, the second time as a child of the first, what     *)
(* came of it, and a promise that descends from all of them and is given up. *)
(* An indexer that did not look for an existing row has left a row for each. *)
DescentStory   == <<Send("h1", "send1"), Send("h1", "send1"), Chatter, Promise>>
DescentParents == <<{}, {1}, {2}, {2, 3}>>
DescentPlace   == <<"done", "queue", "unborn", "unborn">>
TwoOldRows     == [i \in {1, 2} |-> OldRow(DescentStory[i],
                                           IF i = 1 THEN Processing ELSE Detected)]

(* A known packet that is given up, alone and with a promise, and a packet   *)
(* that comes later.                                                         *)
GivenUpStory   == <<Send("h1", "send1"), Promise, Send("h2", "send2")>>
GivenUpParents == [i \in 1..3 |-> IF i = 2 THEN {1} ELSE {}]
KnownPlace     == [i \in 1..3 |-> IF i = 1 THEN "queue" ELSE "unborn"]
KnownRow       == [i \in {1} |-> OldRow(Send("h1", "send1"), Detected)]

-----------------------------------------------------------------------------
(* Stories of Claims *)

(* One packet, known from the start and given up. *)
OneStory   == <<Send("h1", "send1"), Chatter>>
OnePlace   == [i \in 1..2 |-> IF i = 1 THEN "queue" ELSE "unborn"]

=============================================================================
