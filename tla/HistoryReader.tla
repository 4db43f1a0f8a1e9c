--------------------------- MODULE HistoryReader ----------------------------
(***************************************************************************)
(* A client of GET /history or GET /wallet (internal/server/handler.go,    *)
(* db.List) that reads page by page while the store is written: each page  *)
(* is a query of its own, and between two of them rows come and change.    *)
(*                                                                         *)
(* A row has the id of the item it was read from, and no statement changes *)
(* its from_address and to_address: the addresses of a row are those of    *)
(* its id.                                                                 *)
(***************************************************************************)
EXTENDS BridgeDB

CONSTANTS
  Address,      \* addresses of wallets
  Everyone,     \* the empty address: no WHERE clause
  PartiesOf,    \* id -> the addresses its transfer goes from and to
  Asked,        \* values of ?limit=; 0 is an absent or unreadable one
  MaxLimit,     \* 100
  DefaultLimit  \* 20

VARIABLE reader \* the client: what it asks for and what it still waits for

apiVars == <<transfers, cursors, reader>>

ASSUME ReaderAssumption ==
  /\ Everyone \notin Address /\ PartiesOf \in [Id -> SUBSET Address]
  /\ Time \subseteq Int /\ IsFiniteSet(DOMAIN Rows0)
  /\ Asked \subseteq Nat /\ MaxLimit \in Nat /\ DefaultLimit \in Nat \ {0}

Orders == {"asc", "desc"}

(* Mutant: the limit taken as it is asked for. *)
PaginationAsAsked(asked) == asked

(* parsePagination *)
Pagination(asked) == IF asked = 0 \/ asked > MaxLimit THEN DefaultLimit ELSE asked

Reader == [pc : {"idle", "reading", "ended"}, address : Address \cup {Everyone},
           order : Orders, limit : Nat \ {0}, offset : Nat, due : SUBSET Id]

-----------------------------------------------------------------------------
(* Queries *)

(* Mutant: sorted by a column that changes. *)
SortedByStatus(i, j, order) ==
  IF order = "asc" THEN transfers[i].status <= transfers[j].status
                   ELSE transfers[i].status >= transfers[j].status

(* ORDER BY created_at: rows of one time may come in either order. *)
Sorted(i, j, order) ==
  IF order = "asc" THEN transfers[i].created_at <= transfers[j].created_at
                   ELSE transfers[i].created_at >= transfers[j].created_at

(* WHERE from_address = address OR to_address = address *)
Of(address) ==
  {i \in DOMAIN transfers : address = Everyone \/ address \in PartiesOf[i]}

Listings(address, order) ==
  LET n == Cardinality(Of(address))
  IN  {l \in [1..n -> Of(address)] :
         \A a, b \in 1..n : a < b => l[a] # l[b] /\ Sorted(l[a], l[b], order)}

(* The pages List may answer with. *)
List(address, order, limit, offset) ==
  {SubSeq(l, offset + 1, Min({offset + limit, Len(l)})) : l \in Listings(address, order)}

(* Mutant: the oldest rows counted. *)
RecentOldest(limit) ==
  {ids \in SUBSET DOMAIN transfers :
     /\ Cardinality(ids) = Min({limit, Cardinality(DOMAIN transfers)})
     /\ \A i \in ids, j \in DOMAIN transfers \ ids :
          transfers[i].created_at <= transfers[j].created_at}

(* The subquery of CountRecentByStatus: any limit rows no other is newer than. *)
Recent(limit) ==
  {ids \in SUBSET DOMAIN transfers :
     /\ Cardinality(ids) = Min({limit, Cardinality(DOMAIN transfers)})
     /\ \A i \in ids, j \in DOMAIN transfers \ ids :
          transfers[i].created_at >= transfers[j].created_at}

(* The counts it answers with, by status. *)
CountRecentByStatus(limit) ==
  {[s \in Status |-> Cardinality({i \in ids : transfers[i].status = s})] : ids \in Recent(limit)}

-----------------------------------------------------------------------------
(* The client: it asks for the next page, at the limit the answer names,     *)
(* until one is not full.  "due" are the rows that were there when it began  *)
(* and that no page has shown.  A reading is followed while no row is        *)
(* deleted and no two rows have one created_at: past that the offsets of two *)
(* queries do not compare, and the client is taken to begin again.           *)

NoTies(table) ==
  \A i, j \in DOMAIN table : i # j => table[i].created_at # table[j].created_at

Idle == [pc |-> "idle", address |-> Everyone, order |-> "asc", limit |-> DefaultLimit,
         offset |-> 0, due |-> {}]

Begin ==
  /\ reader.pc = "idle" /\ NoTies(transfers)
  /\ \E address \in Address \cup {Everyone}, asked \in Asked, order \in Orders :
       reader' = [pc |-> "reading", address |-> address, order |-> order,
                  limit |-> Pagination(asked), offset |-> 0, due |-> Of(address)]
  /\ UNCHANGED storeVars

NextPage ==
  /\ reader.pc = "reading"
  /\ \E page \in List(reader.address, reader.order, reader.limit, reader.offset) :
       reader' = [reader EXCEPT !.due = @ \ {page[k] : k \in DOMAIN page},
                                !.offset = @ + Len(page),
                                !.pc = IF Len(page) < reader.limit THEN "ended" ELSE "reading"]
  /\ UNCHANGED storeVars

Write ==
  /\ WriteTransfers /\ UNCHANGED cursors
  /\ reader' = IF DOMAIN transfers \subseteq DOMAIN transfers' /\ NoTies(transfers')
               THEN reader ELSE Idle

ApiInit == StoreInit /\ reader = Idle

ApiNext == Begin \/ NextPage \/ Write

ApiSpec == ApiInit /\ [][ApiNext]_apiVars

-----------------------------------------------------------------------------

ReaderTypeOK == reader \in Reader

(* A client that pages through the history, or that of a wallet, while       *)
(* transfers are recorded and change misses none that was there when it      *)
(* began, in either order and at any limit (bridge.go:332-370), as long as   *)
(* no row is deleted and no two have one created_at: a row keeps its place   *)
(* behind those listed before it, so what is inserted meanwhile only moves   *)
(* it to a later page.                                                       *)
HistoryComplete == reader.pc = "ended" => reader.due = {}

(* The recent summary of n rows counts what the first page of n rows shows   *)
(* (bridge.go:399-417, 341-352), when no two rows have one created_at: the   *)
(* two queries sort alike, and every status has its count.                   *)
RecentIsFirstPage ==
  NoTies(transfers) =>
    \A n \in 1..(Cardinality(DOMAIN transfers) + 1) :
      CountRecentByStatus(n) =
        {[s \in Status |-> Cardinality({k \in DOMAIN page : transfers[page[k]].status = s})] :
           page \in List(Everyone, "desc", n, 0)}

=============================================================================
