---------------------------- MODULE HistoryProofs ----------------------------
(***************************************************************************)
(* What a reader of the history is owed, for every table, limit and page.  *)
(* The argument is one of positions: in a listing without ties a row       *)
(* stands behind exactly the rows that sort before it, and a write can     *)
(* only add to those.                                                      *)
(***************************************************************************)
EXTENDS HistoryReader, BridgeDBProofs, FiniteSetTheorems, SequenceTheorems

-----------------------------------------------------------------------------
(* Listings *)

(* The rows of the address that are listed before row d. *)
Ahead(d, address, order) == {i \in Of(address) : i # d /\ Sorted(i, d, order)}

TableFinite == IsFiniteSet(DOMAIN transfers)

LEMMA OfFinite ==
  ASSUME TableFinite, NEW address
  PROVE  /\ IsFiniteSet(Of(address)) /\ Cardinality(Of(address)) \in Nat
         /\ \A S \in SUBSET Of(address) :
              /\ IsFiniteSet(S) /\ Cardinality(S) \in Nat
              /\ Cardinality(S) <= Cardinality(Of(address))
<1>1. Of(address) \in SUBSET DOMAIN transfers
  BY DEF Of
<1>2. IsFiniteSet(Of(address))
  BY <1>1, FS_Subset DEF TableFinite
<1> QED
  BY <1>2, FS_Subset, FS_CardinalityType

(* Without ties two rows sort one way. *)
LEMMA SortedOneWay ==
  ASSUME StoreTypeOK, NoTies(transfers), NEW order \in Orders,
         NEW i \in DOMAIN transfers, NEW j \in DOMAIN transfers, i # j
  PROVE  Sorted(i, j, order) <=> ~Sorted(j, i, order)
<1>1. transfers[i].created_at \in Int /\ transfers[j].created_at \in Int
  BY ReaderAssumption DEF StoreTypeOK, Row
<1>2. transfers[i].created_at # transfers[j].created_at
  BY DEF NoTies
<1> QED
  BY <1>1, <1>2 DEF Sorted, Orders

LEMMA SortedTransitive ==
  ASSUME StoreTypeOK, NEW order, NEW i \in DOMAIN transfers,
         NEW j \in DOMAIN transfers, NEW k \in DOMAIN transfers,
         Sorted(i, j, order), Sorted(j, k, order)
  PROVE  Sorted(i, k, order)
<1>1. /\ transfers[i].created_at \in Int /\ transfers[j].created_at \in Int
      /\ transfers[k].created_at \in Int
  BY ReaderAssumption DEF StoreTypeOK, Row
<1> QED
  BY <1>1 DEF Sorted

(* A listing has every row of the address, once. *)
LEMMA ListingHasAll ==
  ASSUME TableFinite, NEW address, NEW order, NEW l \in Listings(address, order),
         NEW n, n = Cardinality(Of(address))
  PROVE  /\ n \in Nat /\ l \in [1..n -> Of(address)] /\ Len(l) = n /\ l \in Seq(Of(address))
         /\ \A p, q \in 1..n : p < q => l[p] # l[q] /\ Sorted(l[p], l[q], order)
         /\ \A p, q \in 1..n : l[p] = l[q] => p = q
         /\ \A d \in Of(address) : \E p \in 1..n : l[p] = d
<1>1. n \in Nat /\ IsFiniteSet(Of(address))
  BY OfFinite
<1>2. /\ l \in [1..n -> Of(address)]
      /\ \A p, q \in 1..n : p < q => l[p] # l[q] /\ Sorted(l[p], l[q], order)
  BY DEF Listings
<1>3. \A p, q \in 1..n : l[p] = l[q] => p = q
  <2> SUFFICES ASSUME NEW p \in 1..n, NEW q \in 1..n, l[p] = l[q], p # q
               PROVE  FALSE
    OBVIOUS
  <2>1. p < q \/ q < p
    BY <1>1
  <2> QED
    BY <1>2, <2>1
<1>4. l \in Injection(1..n, Of(address))
  BY <1>2, <1>3 DEF Injection, IsInjective
<1>5. Cardinality(1..n) = n
  BY <1>1, FS_Interval
<1>6. l \in Surjection(1..n, Of(address))
  BY <1>1, <1>4, <1>5, FS_Injection
<1>7. \A d \in Of(address) : \E p \in 1..n : l[p] = d
  BY <1>6 DEF Surjection
<1> QED
  BY <1>1, <1>2, <1>3, <1>7

(* A row's place in a listing is one more than the rows that sort before it. *)
LEMMA PlaceInListing ==
  ASSUME StoreTypeOK, TableFinite, NoTies(transfers),
         NEW address, NEW order \in Orders, NEW l \in Listings(address, order),
         NEW p \in 1..Cardinality(Of(address))
  PROVE  /\ Ahead(l[p], address, order) = {l[q] : q \in 1..(p - 1)}
         /\ Cardinality(Ahead(l[p], address, order)) = p - 1
<1> DEFINE n == Cardinality(Of(address))
           A == Ahead(l[p], address, order)
<1>1. /\ n \in Nat /\ l \in [1..n -> Of(address)]
      /\ \A a, b \in 1..n : a < b => l[a] # l[b] /\ Sorted(l[a], l[b], order)
      /\ \A a, b \in 1..n : l[a] = l[b] => a = b
      /\ \A d \in Of(address) : \E a \in 1..n : l[a] = d
  BY ListingHasAll
<1>2. Of(address) \subseteq DOMAIN transfers
  BY DEF Of
<1> HIDE DEF n
<1>3. p \in 1..n /\ p - 1 \in Nat /\ 1..(p - 1) \subseteq 1..n
  BY <1>1 DEF n
<1>4. ASSUME NEW q \in 1..(p - 1)
      PROVE  l[q] \in A
  <2>1. q \in 1..n /\ q < p
    BY <1>1, <1>3
  <2> QED
    BY <1>1, <1>3, <2>1 DEF Ahead
<1>5. ASSUME NEW i \in A
      PROVE  \E q \in 1..(p - 1) : l[q] = i
  <2>1. i \in Of(address) /\ i # l[p] /\ Sorted(i, l[p], order)
    BY DEF Ahead
  <2>2. PICK q \in 1..n : l[q] = i
    BY <1>1, <2>1
  <2>3. ~(p < q)
    <3> SUFFICES ASSUME p < q PROVE FALSE
      OBVIOUS
    <3>1. Sorted(l[p], i, order)
      BY <1>1, <1>3, <2>2
    <3>2. l[p] \in DOMAIN transfers /\ i \in DOMAIN transfers
      BY <1>1, <1>2, <1>3, <2>1
    <3> QED
      BY <2>1, <3>1, <3>2, SortedOneWay
  <2>4. q # p
    BY <2>1, <2>2
  <2>5. q \in 1..(p - 1)
    BY <1>1, <1>3, <2>3, <2>4
  <2> QED
    BY <2>2, <2>5
<1>6. A = {l[q] : q \in 1..(p - 1)}
  BY <1>4, <1>5
<1>7. Cardinality(A) = p - 1
  <2> DEFINE f == [q \in 1..(p - 1) |-> l[q]]
  <2>1. f \in [1..(p - 1) -> A]
    BY <1>4
  <2>2. f \in Surjection(1..(p - 1), A)
    BY <1>5, <2>1 DEF Surjection
  <2>3. f \in Injection(1..(p - 1), A)
    BY <1>1, <1>3, <2>1 DEF Injection, IsInjective
  <2>4. ExistsBijection(1..(p - 1), A)
    BY <2>2, <2>3 DEF ExistsBijection, Bijection
  <2> QED
    BY <1>3, <2>4, FS_CountingElements
<1> QED
  BY <1>6, <1>7

LEMMA MinOfTwo ==
  ASSUME NEW a \in Nat, NEW b \in Nat
  PROVE  Min({a, b}) = IF a <= b THEN a ELSE b
<1> DEFINE m == IF a <= b THEN a ELSE b
<1>1. m \in {a, b} /\ \A y \in {a, b} : m =< y
  OBVIOUS
<1>2. \A x \in {a, b} : (\A y \in {a, b} : x =< y) => x = m
  OBVIOUS
<1> HIDE DEF m
<1>3. Min({a, b}) = m
  BY <1>1, <1>2 DEF Min
<1> QED
  BY <1>3 DEF m

LEMMA Slice ==
  ASSUME NEW S, NEW s, NEW a \in Int, NEW m \in Int, \A i \in a..m : s[i] \in S
  PROVE  /\ DOMAIN SubSeq(s, a, m) = 1..Len(SubSeq(s, a, m))
         /\ Len(SubSeq(s, a, m)) = IF a <= m THEN m - a + 1 ELSE 0
         /\ \A k \in 1..(m - a + 1) : SubSeq(s, a, m)[k] = s[a + k - 1]
<1>1. SubSeq(s, a, m) \in Seq(S)
  OBVIOUS
<1>2. Len(SubSeq(s, a, m)) = IF a <= m THEN m - a + 1 ELSE 0
  OBVIOUS
<1>3. \A k \in 1..(m - a + 1) : SubSeq(s, a, m)[k] = s[a + k - 1]
  OBVIOUS
<1>4. DOMAIN SubSeq(s, a, m) = 1..Len(SubSeq(s, a, m))
  BY <1>1
<1> QED
  BY <1>2, <1>3, <1>4, Zenon

(* A page: the rows of a listing from one place to another, n in all. *)
IsPageOf(page, l, n, limit, offset) ==
  /\ Len(page) = IF offset + limit <= n THEN limit
                 ELSE IF offset <= n THEN n - offset ELSE 0
  /\ DOMAIN page = 1..Len(page)
  /\ \A k \in 1..Len(page) : page[k] = l[offset + k] /\ offset + k \in 1..n

LEMMA PageOfListing ==
  ASSUME TableFinite, NEW address, NEW order, NEW l \in Listings(address, order),
         NEW limit \in Nat, NEW offset \in Nat, NEW n, n = Cardinality(Of(address)),
         NEW page, page = SubSeq(l, offset + 1, Min({offset + limit, Len(l)}))
  PROVE  IsPageOf(page, l, n, limit, offset)
<1>1. n \in Nat /\ l \in [1..n -> Of(address)] /\ Len(l) = n
  BY ListingHasAll
<1>2. PICK m \in Nat : /\ m = IF offset + limit <= n THEN offset + limit ELSE n
                       /\ page = SubSeq(l, offset + 1, m)
  <2> DEFINE m == Min({offset + limit, n})
  <2>1. m = IF offset + limit <= n THEN offset + limit ELSE n
    BY <1>1, MinOfTwo
  <2>2. page = SubSeq(l, offset + 1, m)
    BY <1>1
  <2>3. m \in Nat
    BY <1>1, <2>1
  <2> HIDE DEF m
  <2> QED
    BY <2>1, <2>2, <2>3
<1>3. PICK a \in Nat : a = offset + 1
  OBVIOUS
<1>4. a \in Int /\ m \in Int /\ m <= n /\ a >= 1
  BY <1>1, <1>2, <1>3
<1>5. \A i \in a..m : i \in 1..n
  BY <1>1, <1>4
<1>6. \A i \in a..m : l[i] \in Of(address)
  BY <1>1, <1>5
<1>7. page = SubSeq(l, a, m)
  BY <1>2, <1>3
<1>8. /\ DOMAIN page = 1..Len(page)
      /\ Len(page) = IF a <= m THEN m - a + 1 ELSE 0
      /\ \A k \in 1..(m - a + 1) : page[k] = l[a + k - 1]
  <2> DEFINE slice == SubSeq(l, a, m)
  <2>1. /\ DOMAIN slice = 1..Len(slice)
        /\ Len(slice) = IF a <= m THEN m - a + 1 ELSE 0
        /\ \A k \in 1..(m - a + 1) : slice[k] = l[a + k - 1]
    BY <1>4, <1>6, Slice
  <2>2. page = slice
    BY <1>7
  <2> HIDE DEF slice
  <2> QED
    BY <2>1, <2>2
<1>9. PICK len : len = Len(page)
  OBVIOUS
<1>10. len = IF offset + limit <= n THEN limit
             ELSE IF offset <= n THEN n - offset ELSE 0
  BY <1>1, <1>2, <1>3, <1>8, <1>9
<1>11. ASSUME NEW k \in 1..len
       PROVE  page[k] = l[offset + k] /\ offset + k \in 1..n
  <2>1. k \in 1..(m - a + 1)
    BY <1>4, <1>8, <1>9
  <2>2. page[k] = l[a + k - 1]
    BY <1>8, <2>1
  <2>3. a + k - 1 = offset + k
    BY <1>3, <2>1
  <2>4. offset + k \in 1..n
    BY <1>1, <1>2, <1>3, <2>1
  <2> QED
    BY <2>2, <2>3, <2>4
<1> QED
  BY <1>8, <1>9, <1>10, <1>11 DEF IsPageOf

-----------------------------------------------------------------------------
(* The reader *)

(* Every row that is still due stands behind all that has been shown. *)
ReadsOn ==
  reader.pc = "reading" =>
    /\ NoTies(transfers)
    /\ reader.due \subseteq Of(reader.address)
    /\ reader.offset <= Cardinality(Of(reader.address))
    /\ \A d \in reader.due :
         reader.offset <= Cardinality(Ahead(d, reader.address, reader.order))

HistoryInv == StoreTypeOK /\ TableFinite /\ ReaderTypeOK /\ ReadsOn /\ HistoryComplete

LEMMA IdleOK ==
  ASSUME reader' = Idle
  PROVE  ReaderTypeOK' /\ ReadsOn' /\ HistoryComplete'
BY ReaderAssumption DEF Idle, ReaderTypeOK, Reader, Orders, ReadsOn, HistoryComplete

LEMMA PaginationType ==
  ASSUME NEW asked \in Asked
  PROVE  Pagination(asked) \in Nat \ {0}
BY ReaderAssumption DEF Pagination

LEMMA BeginKeeps ==
  ASSUME HistoryInv, Begin
  PROVE  HistoryInv'
<1>1. PICK address \in Address \cup {Everyone}, asked \in Asked, order \in Orders :
        reader' = [pc |-> "reading", address |-> address, order |-> order,
                   limit |-> Pagination(asked), offset |-> 0, due |-> Of(address)]
  BY DEF Begin
<1>2. StoreTypeOK' /\ TableFinite' /\ NoTies(transfers)' /\ Of(address)' = Of(address)
  BY DEF Begin, HistoryInv, storeVars, StoreTypeOK, TableFinite, NoTies, Of, Row
<1>3. Of(address) \subseteq Id
  BY DEF Of, HistoryInv, StoreTypeOK
<1>4. ReaderTypeOK' /\ HistoryComplete'
  BY <1>1, <1>3, PaginationType DEF ReaderTypeOK, Reader, HistoryComplete
<1>5. 0 <= Cardinality(Of(address))
  BY OfFinite DEF HistoryInv
<1>6. ASSUME NEW d \in Of(address)
      PROVE  0 <= Cardinality(Ahead(d, address, order))
  <2>1. Ahead(d, address, order) \in SUBSET Of(address)
    BY DEF Ahead
  <2> QED
    BY <2>1, OfFinite DEF HistoryInv
<1>7. \A d : Ahead(d, address, order)' = Ahead(d, address, order)
  BY DEF Begin, storeVars, Ahead, Of, Sorted
<1>8. ReadsOn'
  BY <1>1, <1>2, <1>5, <1>6, <1>7 DEF ReadsOn
<1> QED
  BY <1>2, <1>4, <1>8 DEF HistoryInv

LEMMA NextPageKeeps ==
  ASSUME HistoryInv, NextPage
  PROVE  HistoryInv'
<1>1. PICK address \in Address \cup {Everyone}, order \in Orders, limit \in Nat \ {0},
           offset \in Nat, due \in SUBSET Id :
        /\ reader = [pc |-> "reading", address |-> address, order |-> order,
                     limit |-> limit, offset |-> offset, due |-> due]
  BY DEF NextPage, HistoryInv, ReaderTypeOK, Reader
<1>2. /\ NoTies(transfers) /\ due \subseteq Of(address)
      /\ offset <= Cardinality(Of(address))
      /\ \A d \in due : offset <= Cardinality(Ahead(d, address, order))
  BY <1>1 DEF HistoryInv, ReadsOn
<1>3. PICK page \in List(address, order, limit, offset) :
        reader' = [reader EXCEPT
          !.due = @ \ {page[k] : k \in DOMAIN page},
          !.offset = @ + Len(page),
          !.pc = IF Len(page) < reader.limit THEN "ended" ELSE "reading"]
  BY <1>1 DEF NextPage
<1>4. PICK l \in Listings(address, order) :
        page = SubSeq(l, offset + 1, Min({offset + limit, Len(l)}))
  BY <1>3 DEF List
<1>5. PICK n : n = Cardinality(Of(address))
  OBVIOUS
<1>6. PICK shown : shown = {page[k] : k \in DOMAIN page}
  OBVIOUS
<1>7. reader' = [pc |-> IF Len(page) < limit THEN "ended" ELSE "reading",
                 address |-> address, order |-> order, limit |-> limit,
                 offset |-> offset + Len(page), due |-> due \ shown]
  BY <1>1, <1>3, <1>6
<1>8. /\ n \in Nat /\ l \in [1..n -> Of(address)]
      /\ \A d \in Of(address) : \E p \in 1..n : l[p] = d
  BY <1>5, ListingHasAll DEF HistoryInv
<1>9. /\ Len(page) = IF offset + limit <= n THEN limit ELSE n - offset
      /\ DOMAIN page = 1..Len(page)
      /\ \A k \in 1..Len(page) : page[k] = l[offset + k] /\ offset + k \in 1..n
  <2>1. IsPageOf(page, l, n, limit, offset)
    BY <1>4, <1>5, PageOfListing DEF HistoryInv
  <2>2. offset <= n
    BY <1>2, <1>5
  <2> QED
    BY <2>1, <2>2 DEF IsPageOf
<1>10. PICK len \in Nat : len = Len(page) /\ offset + len <= n
  BY <1>2, <1>5, <1>8, <1>9
(* Of the rows that were due the next page shows those at its places. *)
<1>11. ASSUME NEW d \in due \ shown
       PROVE  /\ offset + limit <= n
              /\ offset + limit <= Cardinality(Ahead(d, address, order))
  <2>1. PICK p \in 1..n : l[p] = d
    BY <1>2, <1>8
  <2>2. Cardinality(Ahead(d, address, order)) = p - 1
    BY <1>2, <1>5, <2>1, PlaceInListing DEF HistoryInv
  <2>3. offset <= p - 1
    BY <1>2, <2>2
  <2>4. ~(p <= offset + len)
    <3> SUFFICES ASSUME p <= offset + len PROVE FALSE
      OBVIOUS
    <3>1. p - offset \in 1..len /\ offset + (p - offset) = p
      BY <1>8, <2>3
    <3>2. page[p - offset] = d
      BY <1>9, <1>10, <2>1, <3>1
    <3>3. d \in shown
      BY <1>6, <1>9, <1>10, <3>1, <3>2
    <3> QED
      BY <3>3
  <2>5. offset + limit <= n
    BY <1>8, <1>9, <1>10, <2>4
  <2>6. len = limit
    BY <1>9, <1>10, <2>5
  <2> QED
    BY <1>8, <2>2, <2>4, <2>5, <2>6
<1>12. StoreTypeOK' /\ TableFinite' /\ NoTies(transfers)'
  BY <1>2 DEF NextPage, HistoryInv, storeVars, StoreTypeOK, TableFinite, NoTies, Row
<1>13. /\ Of(address)' = Of(address)
       /\ \A d : Ahead(d, address, order)' = Ahead(d, address, order)
  BY DEF NextPage, storeVars, Ahead, Of, Sorted
<1>14. ReaderTypeOK'
  BY <1>7, <1>10 DEF ReaderTypeOK, Reader
<1>15. reader'.pc = "ended" => reader'.due = {}
  <2> SUFFICES ASSUME Len(page) < limit PROVE due \ shown = {}
    BY <1>7
  <2>1. ~(offset + limit <= n)
    BY <1>9
  <2> QED
    BY <1>11, <2>1
<1>16. ReadsOn'
  <2> SUFFICES ASSUME reader'.pc = "reading"
               PROVE  /\ due \ shown \subseteq Of(address)
                      /\ offset + len <= n
                      /\ \A d \in due \ shown :
                           offset + len <= Cardinality(Ahead(d, address, order))
    BY <1>5, <1>7, <1>10, <1>12, <1>13 DEF ReadsOn
  <2>1. ASSUME NEW d \in due \ shown
        PROVE  offset + len <= Cardinality(Ahead(d, address, order))
    BY <1>9, <1>10, <1>11
  <2> QED
    BY <1>2, <1>10, <2>1
<1> QED
  BY <1>12, <1>14, <1>15, <1>16 DEF HistoryInv, HistoryComplete

(* A statement keeps the creation time of a row. *)
LEMMA WriteKeepsTimes ==
  ASSUME StoreTypeOK, TableFinite, WriteTransfers
  PROVE  /\ TableFinite'
         /\ \A i \in DOMAIN transfers \cap DOMAIN transfers' :
              transfers'[i].created_at = transfers[i].created_at
<1>1. CASE Updates
  BY <1>1 DEF Updates, RowStep, TableFinite
<1>2. ASSUME NEW id, NEW row, Adds(id, row)
      PROVE  TableFinite' /\ \A i \in DOMAIN transfers : transfers'[i] = transfers[i]
  BY <1>2, FS_AddElement DEF Adds, TableFinite
<1>3. CASE DedupeByPacketHash
  BY <1>3, DedupeKeeps, FS_Subset DEF Keeps, TableFinite
<1> QED
  BY <1>1, <1>2, <1>3, WriteShapes

LEMMA WriteKeeps ==
  ASSUME HistoryInv, Write
  PROVE  HistoryInv'
<1>1. StoreTypeOK' /\ TableFinite'
  BY StoreStepTyped, WriteKeepsTimes DEF Write, StoreNext, HistoryInv
<1>2. CASE reader' = Idle
  BY <1>1, <1>2, IdleOK DEF HistoryInv
<1>3. CASE /\ DOMAIN transfers \subseteq DOMAIN transfers' /\ NoTies(transfers')
           /\ reader' = reader
  <2>1. ReaderTypeOK' /\ HistoryComplete'
    BY <1>3 DEF HistoryInv, ReaderTypeOK, HistoryComplete
  <2>2. \A i \in DOMAIN transfers : transfers'[i].created_at = transfers[i].created_at
    BY <1>3, WriteKeepsTimes DEF Write, HistoryInv
  <2>3. ReadsOn'
    <3> SUFFICES ASSUME reader.pc = "reading"
                 PROVE  ReadsOn'
      BY <1>3 DEF ReadsOn
    <3>1. PICK address, order, offset, due :
            /\ reader.address = address /\ reader.order = order
            /\ reader.offset = offset /\ reader.due = due
      OBVIOUS
    <3>0. offset \in Nat
      BY <3>1 DEF HistoryInv, ReaderTypeOK, Reader
    <3>2. /\ due \subseteq Of(address) /\ offset <= Cardinality(Of(address))
          /\ \A d \in due : offset <= Cardinality(Ahead(d, address, order))
      BY <3>1 DEF HistoryInv, ReadsOn
    <3>3. Of(address) \subseteq Of(address)' /\ Of(address) \subseteq DOMAIN transfers
      BY <1>3 DEF Of
    <3>4. ASSUME NEW d \in Of(address)
          PROVE  Ahead(d, address, order) \subseteq Ahead(d, address, order)'
      BY <2>2, <3>3 DEF Ahead, Sorted
    <3>5. \A S \in SUBSET Of(address)' : \A T \in SUBSET S :
            /\ Cardinality(S) \in Nat /\ Cardinality(T) \in Nat
            /\ Cardinality(T) <= Cardinality(S)
      <4>1. IsFiniteSet(Of(address)')
        BY <1>1, FS_Subset DEF TableFinite, Of
      <4> SUFFICES ASSUME NEW S \in SUBSET Of(address)', NEW T \in SUBSET S
                   PROVE  /\ Cardinality(S) \in Nat /\ Cardinality(T) \in Nat
                          /\ Cardinality(T) <= Cardinality(S)
        OBVIOUS
      <4>2. IsFiniteSet(S)
        BY <4>1, FS_Subset
      <4> QED
        BY <4>2, FS_Subset, FS_CardinalityType
    <3>6. offset <= Cardinality(Of(address)')
      BY <3>0, <3>2, <3>3, <3>5
    <3>7. ASSUME NEW d \in due
          PROVE  offset <= Cardinality(Ahead(d, address, order)')
      <4>1. Ahead(d, address, order)' \subseteq Of(address)'
        BY DEF Ahead
      <4>2. Ahead(d, address, order) \subseteq Ahead(d, address, order)'
        BY <3>2, <3>4
      <4>3. /\ Cardinality(Ahead(d, address, order)') \in Nat
            /\ Cardinality(Ahead(d, address, order)) \in Nat
            /\ Cardinality(Ahead(d, address, order))
                 <= Cardinality(Ahead(d, address, order)')
        BY <3>5, <4>1, <4>2
      <4> QED
        BY <3>0, <3>2, <4>3
    <3> QED
      BY <1>3, <3>1, <3>2, <3>3, <3>6, <3>7 DEF ReadsOn
  <2> QED
    BY <1>1, <2>1, <2>3 DEF HistoryInv
<1> QED
  BY <1>2, <1>3 DEF Write

LEMMA HistoryHolds == ApiSpec => []HistoryInv
<1>1. ApiInit => HistoryInv
  <2> SUFFICES ASSUME ApiInit PROVE HistoryInv
    OBVIOUS
  <2>1. StoreTypeOK
    BY StoreAssumption DEF ApiInit, StoreInit, StoreTypeOK, CursorNames
  <2>2. TableFinite
    BY ReaderAssumption DEF ApiInit, StoreInit, TableFinite
  <2>3. ReaderTypeOK /\ ReadsOn /\ HistoryComplete
    BY ReaderAssumption
    DEF ApiInit, Idle, ReaderTypeOK, Reader, Orders, ReadsOn, HistoryComplete
  <2> QED
    BY <2>1, <2>2, <2>3 DEF HistoryInv
<1>2. HistoryInv /\ UNCHANGED apiVars => HistoryInv'
  BY DEF HistoryInv, apiVars, StoreTypeOK, TableFinite, ReaderTypeOK, ReadsOn,
         HistoryComplete, NoTies, Of, Ahead, Sorted, Row
<1>3. HistoryInv /\ [ApiNext]_apiVars => HistoryInv'
  BY <1>2, BeginKeeps, NextPageKeeps, WriteKeeps DEF ApiNext
<1> QED
  BY <1>1, <1>3, PTL DEF ApiSpec

(* What a reader remembers is what handler.go:47-65 and bridge.go:332-370    *)
(* work with: a limit that is never 0, an offset, rows of the table.         *)
THEOREM ReaderTypeCorrect == ApiSpec => []ReaderTypeOK
BY HistoryHolds, PTL DEF HistoryInv

(* For any number of rows, writes and pages: a client that pages through a   *)
(* listing misses no row that was there when it began, as long as none is    *)
(* deleted and none share a creation time (bridge.go:332-370).               *)
THEOREM NothingIsMissed == ApiSpec => []HistoryComplete
BY HistoryHolds, PTL DEF HistoryInv

-----------------------------------------------------------------------------
(* The recent summary and the first page *)

(* What sorts before a row sorts before all rows behind it. *)
LEMMA AheadGrows ==
  ASSUME StoreTypeOK, TableFinite, NoTies(transfers), NEW address, NEW order \in Orders,
         NEW i \in Of(address), NEW j \in Of(address), i # j, Sorted(i, j, order)
  PROVE  Cardinality(Ahead(i, address, order)) < Cardinality(Ahead(j, address, order))
<1> DEFINE A == Ahead(i, address, order)
           B == Ahead(j, address, order)
<1>1. Of(address) \subseteq DOMAIN transfers
  BY DEF Of
<1>2. ASSUME NEW k \in A
      PROVE  k \in B
  <2>1. k \in Of(address) /\ k # i /\ Sorted(k, i, order)
    BY DEF Ahead
  <2>2. k # j
    BY <1>1, <2>1, SortedOneWay
  <2>3. Sorted(k, j, order)
    BY <1>1, <2>1, SortedTransitive
  <2> QED
    BY <2>1, <2>2, <2>3 DEF Ahead
<1>3. i \in B /\ i \notin A
  BY DEF Ahead
<1>4. A \in SUBSET Of(address) /\ B \in SUBSET Of(address)
  BY DEF Ahead
<1> HIDE DEF A, B
<1>5. /\ IsFiniteSet(B) /\ Cardinality(A) \in Nat /\ Cardinality(B) \in Nat
  BY <1>4, OfFinite
<1>6. A \in SUBSET B
  BY <1>2
<1>7. Cardinality(A) <= Cardinality(B) /\ (Cardinality(B) = Cardinality(A) => B = A)
  BY <1>5, <1>6, FS_Subset
<1>8. Cardinality(A) < Cardinality(B)
  BY <1>3, <1>5, <1>7
<1> QED
  BY <1>8 DEF A, B

(* A table without ties can be listed: a row's place is given by the number  *)
(* of those before it.                                                       *)
LEMMA ListingExists ==
  ASSUME StoreTypeOK, TableFinite, NoTies(transfers), NEW address, NEW order \in Orders
  PROVE  \E l : l \in Listings(address, order)
<1> DEFINE rows == Of(address)
           n == Cardinality(rows)
           rank == [i \in rows |-> Cardinality(Ahead(i, address, order)) + 1]
           l == [p \in 1..n |-> CHOOSE i \in rows : rank[i] = p]
<1>1. IsFiniteSet(rows) /\ n \in Nat /\ rows \subseteq DOMAIN transfers
  BY OfFinite DEF Of
<1>2. ASSUME NEW i \in rows
      PROVE  rank[i] \in 1..n
  <2>1. Ahead(i, address, order) \in SUBSET (rows \ {i})
    BY DEF Ahead
  <2>2. IsFiniteSet(rows \ {i}) /\ Cardinality(rows \ {i}) = n - 1
    BY <1>1, FS_RemoveElement
  <2>3. Cardinality(Ahead(i, address, order)) <= n - 1
    BY <2>1, <2>2, FS_Subset
  <2>4. Cardinality(Ahead(i, address, order)) \in Nat
    BY <2>1, <2>2, FS_Subset, FS_CardinalityType
  <2> QED
    BY <1>1, <2>3, <2>4
<1>3. ASSUME NEW i \in rows, NEW j \in rows, i # j, Sorted(i, j, order)
      PROVE  rank[i] < rank[j]
  <2>1. Cardinality(Ahead(i, address, order)) < Cardinality(Ahead(j, address, order))
    BY <1>3, AheadGrows
  <2>2. /\ Ahead(i, address, order) \in SUBSET rows
        /\ Ahead(j, address, order) \in SUBSET rows
    BY DEF Ahead
  <2>3. /\ Cardinality(Ahead(i, address, order)) \in Nat
        /\ Cardinality(Ahead(j, address, order)) \in Nat
    BY <2>2, OfFinite
  <2> QED
    BY <2>1, <2>3
<1>4. \A i, j \in rows : i # j => Sorted(i, j, order) \/ Sorted(j, i, order)
  BY <1>1, SortedOneWay
<1>5. rank \in [rows -> 1..n]
  BY <1>2
<1> HIDE DEF rank
<1>6. \A i, j \in rows : rank[i] = rank[j] => i = j
  <2> SUFFICES ASSUME NEW i \in rows, NEW j \in rows, rank[i] = rank[j], i # j
               PROVE  FALSE
    OBVIOUS
  <2>1. rank[i] \in Nat /\ rank[j] \in Nat
    BY <1>5
  <2> QED
    BY <1>3, <1>4, <2>1
<1>7. rank \in Injection(rows, 1..n)
  BY <1>5, <1>6 DEF Injection, IsInjective
<1>8. IsFiniteSet(1..n) /\ Cardinality(1..n) = n
  BY <1>1, FS_Interval
<1>9. rank \in Surjection(rows, 1..n)
  BY <1>7, <1>8, FS_Injection
<1>10. \A p \in 1..n : l[p] \in rows /\ rank[l[p]] = p
  <2> SUFFICES ASSUME NEW p \in 1..n
               PROVE  l[p] \in rows /\ rank[l[p]] = p
    OBVIOUS
  <2>1. \E i \in rows : rank[i] = p
    BY <1>9 DEF Surjection
  <2> QED
    BY <2>1
<1>11. l \in [1..n -> rows]
  BY <1>10
<1>12. ASSUME NEW a \in 1..n, NEW b \in 1..n, a < b
       PROVE  l[a] # l[b] /\ Sorted(l[a], l[b], order)
  <2>1. /\ l[a] \in rows /\ l[b] \in rows
        /\ rank[l[a]] = a /\ rank[l[b]] = b
    BY <1>10
  <2> HIDE DEF l
  <2>2. a \in Nat /\ b \in Nat /\ a # b /\ ~(b < a)
    BY <1>1, <1>12
  <2>3. l[a] # l[b]
    BY <2>1, <2>2
  <2>4. ~Sorted(l[b], l[a], order)
    BY <1>3, <2>1, <2>2, <2>3
  <2> QED
    BY <1>4, <2>1, <2>3, <2>4
<1> HIDE DEF l
<1>13. l \in Listings(address, order)
  BY <1>11, <1>12 DEF Listings
<1> QED
  BY <1>13

(* The recent rows are one set. *)
LEMMA RecentIsOne ==
  ASSUME StoreTypeOK, TableFinite, NoTies(transfers),
         NEW limit, NEW S \in Recent(limit), NEW T \in Recent(limit)
  PROVE  S = T
<1>1. /\ S \in SUBSET DOMAIN transfers /\ T \in SUBSET DOMAIN transfers
      /\ Cardinality(S) = Cardinality(T)
  BY DEF Recent
<1>2. IsFiniteSet(S) /\ IsFiniteSet(T)
  BY <1>1, FS_Subset DEF TableFinite
<1>3. S \subseteq T => S = T
  BY <1>1, <1>2, FS_Subset
<1>4. T \subseteq S => S = T
  BY <1>1, <1>2, FS_Subset
<1>5. ASSUME NEW i \in S \ T, NEW j \in T \ S
      PROVE  FALSE
  <2>1. /\ transfers[i].created_at >= transfers[j].created_at
        /\ transfers[j].created_at >= transfers[i].created_at
    BY <1>1 DEF Recent
  <2>2. transfers[i].created_at \in Int /\ transfers[j].created_at \in Int
    BY <1>1, ReaderAssumption DEF StoreTypeOK, Row
  <2>3. transfers[i].created_at = transfers[j].created_at
    BY <2>1, <2>2
  <2> QED
    BY <1>1, <2>3 DEF NoTies
<1> QED
  BY <1>3, <1>4, <1>5

Shown(page) == {page[k] : k \in DOMAIN page}

CountOf(ids) == [s \in Status |-> Cardinality({i \in ids : transfers[i].status = s})]

CountOnPage(page) ==
  [s \in Status |-> Cardinality({k \in DOMAIN page : transfers[page[k]].status = s})]

(* Counting places and counting rows is the same on a page without repeats. *)
LEMMA CountsAgree ==
  ASSUME NEW page, IsFiniteSet(DOMAIN page),
         \A a, b \in DOMAIN page : page[a] = page[b] => a = b
  PROVE  /\ CountOf(Shown(page)) = CountOnPage(page)
         /\ Cardinality(Shown(page)) = Cardinality(DOMAIN page)
<1>1. ASSUME NEW P \in SUBSET DOMAIN page, NEW S, S = {page[k] : k \in P}
      PROVE  Cardinality(S) = Cardinality(P)
  <2> DEFINE f == [k \in P |-> page[k]]
  <2>1. f \in [P -> S] /\ \A k \in P : f[k] = page[k]
    BY <1>1
  <2> HIDE DEF f
  <2>2. f \in Injection(P, S)
    BY <2>1 DEF Injection, IsInjective
  <2>3. f \in Surjection(P, S)
    BY <1>1, <2>1 DEF Surjection
  <2>4. ExistsBijection(P, S)
    BY <2>2, <2>3 DEF ExistsBijection, Bijection
  <2>5. IsFiniteSet(P)
    BY FS_Subset
  <2> QED
    BY <2>4, <2>5, FS_Bijection
<1>2. ASSUME NEW s \in Status
      PROVE  Cardinality({i \in Shown(page) : transfers[i].status = s})
               = Cardinality({k \in DOMAIN page : transfers[page[k]].status = s})
  <2> DEFINE P == {k \in DOMAIN page : transfers[page[k]].status = s}
             S == {i \in Shown(page) : transfers[i].status = s}
  <2>1. S = {page[k] : k \in P}
    BY DEF Shown
  <2>2. P \in SUBSET DOMAIN page
    OBVIOUS
  <2> HIDE DEF P, S
  <2>3. Cardinality(S) = Cardinality(P)
    BY <1>1, <2>1, <2>2
  <2> QED
    BY <2>3 DEF P, S
<1>3. CountOf(Shown(page)) = CountOnPage(page)
  BY <1>2 DEF CountOf, CountOnPage
<1>4. Cardinality(Shown(page)) = Cardinality(DOMAIN page)
  BY <1>1 DEF Shown
<1> QED
  BY <1>3, <1>4

(* The first page of the newest rows shows the recent ones. *)
LEMMA FirstPageIsRecent ==
  ASSUME StoreTypeOK, TableFinite, NoTies(transfers), NEW limit \in Nat,
         NEW page \in List(Everyone, "desc", limit, 0)
  PROVE  Shown(page) \in Recent(limit) /\ CountOf(Shown(page)) = CountOnPage(page)
<1>1. PICK l \in Listings(Everyone, "desc") :
        page = SubSeq(l, 0 + 1, Min({0 + limit, Len(l)}))
  BY DEF List
<1>2. PICK n : n = Cardinality(Of(Everyone))
  OBVIOUS
<1>3. Of(Everyone) = DOMAIN transfers
  BY DEF Of
<1>4. /\ n \in Nat /\ l \in [1..n -> DOMAIN transfers]
      /\ \A p, q \in 1..n : p < q => l[p] # l[q] /\ Sorted(l[p], l[q], "desc")
      /\ \A p, q \in 1..n : l[p] = l[q] => p = q
      /\ \A d \in DOMAIN transfers : \E p \in 1..n : l[p] = d
  BY <1>2, <1>3, ListingHasAll
<1>5. IsPageOf(page, l, n, limit, 0)
  BY <1>1, <1>2, PageOfListing
<1>6. PICK len : len = Len(page)
  OBVIOUS
<1>7. /\ len = IF limit <= n THEN limit ELSE n
      /\ DOMAIN page = 1..len
      /\ \A k \in 1..len : page[k] = l[k] /\ k \in 1..n
  <2>1. /\ len = IF 0 + limit <= n THEN limit ELSE IF 0 <= n THEN n - 0 ELSE 0
        /\ DOMAIN page = 1..len
        /\ \A k \in 1..len : page[k] = l[0 + k] /\ 0 + k \in 1..n
    BY <1>5, <1>6 DEF IsPageOf
  <2>2. \A k \in 1..len : 0 + k = k
    OBVIOUS
  <2>3. len = IF limit <= n THEN limit ELSE n
    BY <1>4, <2>1
  <2> QED
    BY <2>1, <2>2, <2>3
<1>8. len \in Nat /\ IsFiniteSet(DOMAIN page) /\ Cardinality(DOMAIN page) = len
  <2>1. len \in Nat
    BY <1>4, <1>7
  <2>2. IsFiniteSet(1..len) /\ Cardinality(1..len) = len
    BY <2>1, FS_Interval
  <2> QED
    BY <1>7, <2>1, <2>2
<1>9. \A a, b \in DOMAIN page : page[a] = page[b] => a = b
  BY <1>4, <1>7
<1>10. CountOf(Shown(page)) = CountOnPage(page) /\ Cardinality(Shown(page)) = len
  BY <1>8, <1>9, CountsAgree
<1>11. Cardinality(Shown(page)) = Min({limit, Cardinality(DOMAIN transfers)})
  <2>1. Min({limit, n}) = IF limit <= n THEN limit ELSE n
    BY <1>4, MinOfTwo
  <2> QED
    BY <1>2, <1>3, <1>7, <1>10, <2>1
<1>12. Shown(page) \in SUBSET DOMAIN transfers
  BY <1>4, <1>7 DEF Shown
<1>13. ASSUME NEW i \in Shown(page), NEW j \in DOMAIN transfers \ Shown(page)
       PROVE  transfers[i].created_at >= transfers[j].created_at
  <2>1. PICK p \in 1..len : i = l[p] /\ p \in 1..n
    BY <1>7 DEF Shown
  <2>2. PICK q \in 1..n : l[q] = j
    BY <1>4
  <2>3. q \notin 1..len
    BY <1>7, <2>2 DEF Shown
  <2>4. p < q
    BY <1>4, <1>8, <2>1, <2>2, <2>3
  <2>5. Sorted(i, j, "desc")
    BY <1>4, <2>1, <2>2, <2>4
  <2> QED
    BY <2>5 DEF Sorted
<1> QED
  BY <1>10, <1>11, <1>12, <1>13 DEF Recent

(* The recent summary and the first page of the history agree on every       *)
(* table without ties (bridge.go:399-417, 341-352).                          *)
THEOREM SummaryIsFirstPage == ApiSpec => []RecentIsFirstPage
<1>1. ASSUME StoreTypeOK, TableFinite, NoTies(transfers), NEW n \in Nat
      PROVE  CountRecentByStatus(n) =
               {CountOnPage(page) : page \in List(Everyone, "desc", n, 0)}
  <2>1. PICK l : l \in Listings(Everyone, "desc")
    BY <1>1, ListingExists DEF Orders
  <2>2. PICK first : first \in List(Everyone, "desc", n, 0)
    BY <2>1 DEF List
  <2>3. \A page \in List(Everyone, "desc", n, 0) :
          Shown(page) \in Recent(n) /\ CountOf(Shown(page)) = CountOnPage(page)
    BY <1>1, FirstPageIsRecent
  <2>4. \A ids \in Recent(n) : ids = Shown(first)
    BY <1>1, <2>2, <2>3, RecentIsOne
  <2>5. CountRecentByStatus(n) = {CountOf(ids) : ids \in Recent(n)}
    BY DEF CountRecentByStatus, CountOf
  <2> QED
    BY <2>2, <2>3, <2>4, <2>5
<1>2. HistoryInv => RecentIsFirstPage
  <2> SUFFICES ASSUME HistoryInv, NoTies(transfers),
                      NEW n \in 1..(Cardinality(DOMAIN transfers) + 1)
               PROVE  CountRecentByStatus(n) =
                        {CountOnPage(page) : page \in List(Everyone, "desc", n, 0)}
    BY DEF RecentIsFirstPage, CountOnPage
  <2>1. Cardinality(DOMAIN transfers) \in Nat
    BY FS_CardinalityType DEF HistoryInv, TableFinite
  <2> QED
    BY <1>1, <2>1 DEF HistoryInv
<1> QED
  BY <1>2, HistoryHolds, PTL

=============================================================================
