------------------------- MODULE TransferLifecycle --------------------------
(***************************************************************************)
(* What the indexer promises about a packet, whatever rows, cursors and    *)
(* goroutines it takes: a packet is tracked once, moves forward through    *)
(* the statuses of bridge.go:23-28, and stays where it was settled.        *)
(***************************************************************************)
CONSTANT Packet

VARIABLES
  phase,   \* packet -> its status, "untracked" before it is seen
  receipt  \* the packets with a receive transaction on record

lifecycleVars == <<phase, receipt>>

Settled == {"done", "failed"}

LifecycleInit ==
  /\ phase = [p \in Packet |-> "untracked"]
  /\ receipt = {}

Move(p, from, to) ==
  /\ phase[p] \in from
  /\ phase' = [phase EXCEPT ![p] = to]

Detect(p) == Move(p, {"untracked"}, "detected") /\ UNCHANGED receipt

(* poll finds that several packets have left the queue *)
Process(ps) ==
  /\ \A p \in ps : phase[p] = "detected"
  /\ phase' = [p \in Packet |-> IF p \in ps THEN "processing" ELSE phase[p]]
  /\ UNCHANGED receipt

(* An outcome may bring the receive transaction along. *)
Settle(p) ==
  /\ \E s \in Settled : Move(p, {"detected", "processing"}, s)
  /\ receipt' \in {receipt, receipt \cup {p}}

(* A receive transaction is recorded for a tracked packet, a settled one too *)
Receive(p) ==
  /\ phase[p] # "untracked"
  /\ receipt' = receipt \cup {p}
  /\ UNCHANGED phase

LifecycleNext ==
  \/ \E p \in Packet : Detect(p) \/ Settle(p) \/ Receive(p)
  \/ \E ps \in SUBSET Packet : Process(ps)

LifecycleSpec == LifecycleInit /\ [][LifecycleNext]_lifecycleVars

=============================================================================
