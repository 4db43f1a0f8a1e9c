----------------------------- MODULE ItemReader -----------------------------
(***************************************************************************)
(* The parser at work: items of the relayer's tables are read one after    *)
(* another, in any order, and every function of the parser is asked about  *)
(* the one in hand.  The parser keeps no state of its own.                 *)
(***************************************************************************)
EXTENDS Parser

CONSTANT Inbox  \* the items there are to read

VARIABLE item   \* the item being read

ASSUME InboxAssumption == Inbox \subseteq Items

ReadItem == item' \in Inbox

ReaderSpec == item \in Inbox /\ [][ReadItem]_item

(* Nothing the done handlers act on is held back by the trigger's filter     *)
(* (cmd/setup-trigger/main.go:35, sync.go:111): FilterCoversHandlers of      *)
(* every item.                                                               *)
PassesFilter == FilterCoversHandlers(item)

(* The two ways of finding a packet's route give the same one                *)
(* (parser.go:344-365): SendAndRecvAgree of every item.                      *)
AgreesOnChains == SendAndRecvAgree(item)

(* What a transfer is recorded under is what its event is matched by         *)
(* (parser.go:173-183, 367-385): KeysAgree of every item.                    *)
SameKeys == KeysAgree(item)

=============================================================================
