------------------------------- MODULE Claims -------------------------------
(***************************************************************************)
(* What a comment or the README says of the indexer and the code does not  *)
(* do.  Each formula states the sentence it quotes; a run shows the        *)
(* behaviour that contradicts it.                                          *)
(***************************************************************************)
EXTENDS IndexerProperties

(* "queue id=%d gone before read (syncDone will catch it)" (listener.go:62): *)
(* a packet whose queue row was gone before it was read is tracked after a   *)
(* syncDone that runs with the row in done.  syncDone only updates transfers *)
(* that exist; nothing inserts the packet any more.                          *)
SyncDoneCatchesIt ==
  \A i \in Id :
    (place[i] = "done" /\ doneTask.pc = "sync" /\ ~Booting) ~>
      \A b \in Parse(Item[i]) : Tracked(b.packet_hash)

(* "failed INSERT -> NOTIFY -> failed (3) + err_msg stored" (README.md:39):  *)
(* the transfer of a failed row is failed in the end.  A row inserted after  *)
(* the catch-up has read and before LISTEN runs is notified to nobody.       *)
FailedInsertFails ==
  \A i \in Id :
    (place[i] = "failed" /\ i \in DOMAIN transfers /\ ~Booting)
      ~> (i \in DOMAIN transfers => transfers[i].status \in Terminal)

=============================================================================
