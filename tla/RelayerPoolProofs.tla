-------------------------- MODULE RelayerPoolProofs --------------------------
(***************************************************************************)
(* A pool of four connections, or of any larger number, never deadlocks.   *)
(* The three listeners may each keep a connection while they wait for      *)
(* another; the inductive invariant PoolInv says why a fourth goroutine    *)
(* never does, and that nobody loses a connection or its place in turn.    *)
(***************************************************************************)
EXTENDS RelayerPool, SequenceTheorems, TLAPS

(* Who waits is in the queue once, and only those who wait. *)
QueueOK ==
  /\ \A i \in 1..Len(queue) : pc[queue[i]] \in Wants
  /\ \A i, j \in 1..Len(queue) : queue[i] = queue[j] => i = j

(* Main climbs only before there are listeners, and listens never. *)
MainOK ==
  /\ boot < Poll => \A g \in Listener : pc[g] = "unborn"
  /\ pc["main"] \in {"parent", "climb"} => boot = 3
  /\ pc["main"] \in {"catchup", "rows", "scan", "parent", "climb", "sleep", "ended"}

PoolInv == PoolTypeOK /\ QueueOK /\ MainOK

-----------------------------------------------------------------------------
(* The queue *)

LEMMA RemoveAtFacts ==
  ASSUME NEW S, NEW s \in Seq(S), NEW i \in 1..Len(s)
  PROVE  /\ RemoveAt(s, i) \in Seq(S)
         /\ Len(RemoveAt(s, i)) = Len(s) - 1
         /\ \A j \in 1..(Len(s) - 1) :
              RemoveAt(s, i)[j] = IF j < i THEN s[j] ELSE s[j + 1]
<1> DEFINE l == SubSeq(s, 1, i - 1)
           r == SubSeq(s, i + 1, Len(s))
<1>1. Len(s) \in Nat /\ i \in Nat /\ 1 <= i /\ i <= Len(s)
  OBVIOUS
<1>2. l \in Seq(S) /\ Len(l) = i - 1 /\ \A j \in 1..(i - 1) : l[j] = s[j]
  OBVIOUS
<1>3. r \in Seq(S) /\ Len(r) = Len(s) - i /\ \A j \in 1..(Len(s) - i) : r[j] = s[i + j]
  OBVIOUS
<1> HIDE DEF l, r
<1>4. /\ l \o r \in Seq(S) /\ Len(l \o r) = Len(l) + Len(r)
      /\ \A j \in 1..(Len(l) + Len(r)) : (l \o r)[j] = IF j <= Len(l) THEN l[j] ELSE r[j - Len(l)]
  BY <1>2, <1>3, ConcatProperties
<1>5. Len(l) + Len(r) = Len(s) - 1
  BY <1>1, <1>2, <1>3
<1>6. ASSUME NEW j \in 1..(Len(s) - 1)
      PROVE  (l \o r)[j] = IF j < i THEN s[j] ELSE s[j + 1]
  <2>1. (l \o r)[j] = IF j <= i - 1 THEN l[j] ELSE r[j - (i - 1)]
    BY <1>2, <1>4, <1>5
  <2>2. CASE j < i
    BY <1>1, <1>2, <2>1, <2>2
  <2>3. CASE ~(j < i)
    <3>1. j - (i - 1) \in 1..(Len(s) - i) /\ i + (j - (i - 1)) = j + 1
      BY <1>1, <2>3
    <3>2. r[j - (i - 1)] = s[j + 1]
      BY <1>3, <3>1
    <3> QED
      BY <1>1, <2>1, <2>3, <3>2
  <2> QED
    BY <2>2, <2>3
<1>7. Len(l \o r) = Len(s) - 1
  BY <1>4, <1>5
<1>8. RemoveAt(s, i) = l \o r
  BY DEF RemoveAt, l, r
<1> QED
  BY <1>4, <1>6, <1>7, <1>8

(* A goroutine that does not wait goes to the end of the queue. *)
LEMMA AskKeepsQueue ==
  ASSUME PoolTypeOK, QueueOK, NEW g \in Goroutine, NEW place \in Wants,
         pc[g] \notin Wants, Ask(g, place)
  PROVE  QueueOK' /\ queue' \in Seq(Goroutine)
<1>1. pc' = [pc EXCEPT ![g] = place] /\ queue' = Append(queue, g)
  BY DEF Ask, Goto
<1>2. queue \in Seq(Goroutine) /\ pc \in [Goroutine -> Places]
  BY DEF PoolTypeOK
<1>3. /\ queue' \in Seq(Goroutine) /\ Len(queue') = Len(queue) + 1
      /\ \A i \in 1..Len(queue) : queue'[i] = queue[i] /\ queue[i] \in Goroutine
      /\ queue'[Len(queue) + 1] = g
  BY <1>1, <1>2
<1>4. \A i \in 1..Len(queue) : queue[i] # g
  BY DEF QueueOK
<1>5. Len(queue) \in Nat /\ \A i \in 1..Len(queue') : i \in 1..Len(queue) \/ i = Len(queue) + 1
  BY <1>2, <1>3
<1>6. \A i \in 1..Len(queue') : pc'[queue'[i]] \in Wants
  BY <1>1, <1>2, <1>3, <1>4, <1>5 DEF QueueOK
<1>7. \A i, j \in 1..Len(queue') : queue'[i] = queue'[j] => i = j
  BY <1>3, <1>4, <1>5 DEF QueueOK
<1> QED
  BY <1>3, <1>6, <1>7 DEF QueueOK

(* A goroutine in the queue leaves it. *)
LEMMA LeaveKeepsQueue ==
  ASSUME PoolTypeOK, QueueOK, NEW i \in 1..Len(queue), NEW place,
         Goto(queue[i], place), queue' = RemoveAt(queue, i)
  PROVE  QueueOK' /\ queue' \in Seq(Goroutine)
<1>1. queue \in Seq(Goroutine) /\ pc \in [Goroutine -> Places] /\ Len(queue) \in Nat
  BY DEF PoolTypeOK
<1>2. /\ queue' \in Seq(Goroutine) /\ Len(queue') = Len(queue) - 1
      /\ \A j \in 1..Len(queue') : queue'[j] = IF j < i THEN queue[j] ELSE queue[j + 1]
  BY <1>1, RemoveAtFacts
<1>3. \A j \in 1..Len(queue') :
        \E k \in 1..Len(queue) : k # i /\ queue'[j] = queue[k] /\ k = (IF j < i THEN j ELSE j + 1)
  BY <1>1, <1>2
<1>4. pc' = [pc EXCEPT ![queue[i]] = place]
  BY DEF Goto
<1>5. \A k \in 1..Len(queue) : k # i => queue[k] # queue[i] /\ queue[k] \in Goroutine
  BY <1>1 DEF QueueOK
<1>6. \A j \in 1..Len(queue') : pc'[queue'[j]] \in Wants
  BY <1>1, <1>3, <1>4, <1>5 DEF QueueOK
<1>7. \A j, k \in 1..Len(queue') : queue'[j] = queue'[k] => j = k
  BY <1>1, <1>2, <1>3 DEF QueueOK
<1> QED
  BY <1>2, <1>6, <1>7 DEF QueueOK

(* A goroutine outside the queue moves to a place outside it. *)
LEMMA MoveKeepsQueue ==
  ASSUME PoolTypeOK, QueueOK, NEW g \in Goroutine, NEW place,
         pc[g] \notin Wants, Goto(g, place), queue' = queue
  PROVE  QueueOK'
<1>1. queue \in Seq(Goroutine) /\ pc \in [Goroutine -> Places]
  BY DEF PoolTypeOK
<1>2. \A i \in 1..Len(queue) : queue[i] # g /\ queue[i] \in Goroutine
  BY <1>1 DEF QueueOK
<1> QED
  BY <1>1, <1>2 DEF QueueOK, Goto

-----------------------------------------------------------------------------
(* The steps *)

(* One goroutine moves, and holds what it needs where it goes. *)
Moves(g, place) ==
  /\ Goto(g, place)
  /\ held' \in [Goroutine -> Nat]
  /\ held'[g] = Needs(place)
  /\ \A h \in Goroutine \ {g} : held'[h] = held[h]

Total(h) == h["main"] + h["queue"] + h["done"] + h["failed"]

(* When one goroutine's share changes, so does the sum. *)
LEMMA TotalMoves ==
  ASSUME NEW h \in [Goroutine -> Nat], NEW k \in [Goroutine -> Nat], NEW g \in Goroutine,
         \A i \in Goroutine \ {g} : k[i] = h[i]
  PROVE  /\ Total(h) \in Int /\ Total(k) \in Int /\ Total(k) = Total(h) + k[g] - h[g]
         /\ h[g] \in Int /\ k[g] \in Int
<1>1. "main" \in Goroutine /\ "queue" \in Goroutine /\ "done" \in Goroutine /\ "failed" \in Goroutine
  BY DEF Goroutine, Listener
<1>2. \A i \in Goroutine : h[i] \in Int /\ k[i] \in Int
  OBVIOUS
<1>3. CASE g = "main"
  <2>1. k["queue"] = h["queue"] /\ k["done"] = h["done"] /\ k["failed"] = h["failed"]
    BY <1>1, <1>3
  <2> QED
    BY <1>1, <1>2, <1>3, <2>1 DEF Total
<1>4. CASE g = "queue"
  <2>1. k["main"] = h["main"] /\ k["done"] = h["done"] /\ k["failed"] = h["failed"]
    BY <1>1, <1>4
  <2> QED
    BY <1>1, <1>2, <1>4, <2>1 DEF Total
<1>5. CASE g = "done"
  <2>1. k["main"] = h["main"] /\ k["queue"] = h["queue"] /\ k["failed"] = h["failed"]
    BY <1>1, <1>5
  <2> QED
    BY <1>1, <1>2, <1>5, <2>1 DEF Total
<1>6. CASE g = "failed"
  <2>1. k["main"] = h["main"] /\ k["queue"] = h["queue"] /\ k["done"] = h["done"]
    BY <1>1, <1>6
  <2> QED
    BY <1>1, <1>2, <1>6, <2>1 DEF Total
<1> QED
  BY <1>3, <1>4, <1>5, <1>6 DEF Goroutine, Listener

LEMMA MovesKeeps ==
  ASSUME PoolInv, NEW g \in Goroutine, NEW place \in Places, Moves(g, place),
         QueueOK', queue' \in Seq(Goroutine),
         boot' = boot, climbs' \in [Goroutine -> 0..MaxClimbs], stopping' = stopping,
         \/ held'[g] <= held[g]
         \/ InUse < MaxConns /\ held'[g] = held[g] + 1,
         pc[g] # "unborn",
         g = "main" => /\ place \in {"parent", "climb"} => boot = 3
                       /\ place \in {"catchup", "rows", "scan", "parent", "climb", "sleep", "ended"}
  PROVE  PoolInv'
<1>1. pc \in [Goroutine -> Places] /\ held \in [Goroutine -> Nat] /\ boot \in 1..Poll
  BY DEF PoolInv, PoolTypeOK
<1>2. /\ pc' \in [Goroutine -> Places] /\ pc'[g] = place
      /\ \A h \in Goroutine \ {g} : pc'[h] = pc[h]
  BY <1>1 DEF Moves, Goto
<1>3. \A h \in Goroutine : held'[h] = Needs(pc'[h])
  BY <1>2 DEF Moves, PoolInv, PoolTypeOK
<1>4. InUse' <= MaxConns
  <2>1. /\ InUse \in Int /\ InUse' \in Int /\ InUse' = InUse + held'[g] - held[g]
        /\ held'[g] \in Int /\ held[g] \in Int
    BY <1>1, TotalMoves DEF InUse, Total, Moves
  <2>3. InUse <= MaxConns
    BY DEF PoolInv, PoolTypeOK
  <2> QED
    BY <2>1, <2>3, PoolAssumption
<1>5. PoolTypeOK'
  BY <1>1, <1>2, <1>3, <1>4 DEF Moves, PoolInv, PoolTypeOK
<1>6. MainOK'
  BY <1>1, <1>2 DEF PoolInv, MainOK, Listener, Goroutine
<1> QED
  BY <1>5, <1>6 DEF PoolInv

(* A goroutine asks for a connection and keeps those it has. *)
LEMMA AskKeeps ==
  ASSUME PoolInv, NEW g \in Goroutine, NEW place \in Wants, Ask(g, place),
         pc[g] \notin Wants, pc[g] # "unborn", held[g] = Needs(place),
         climbs' \in [Goroutine -> 0..MaxClimbs], UNCHANGED <<held, boot, stopping>>,
         g = "main" => place = "rows" \/ (place = "parent" /\ boot = 3)
  PROVE  PoolInv'
<1>1. QueueOK' /\ queue' \in Seq(Goroutine)
  BY AskKeepsQueue DEF PoolInv
<1>2. Moves(g, place)
  BY DEF Moves, Ask, PoolInv, PoolTypeOK
<1>3. place \in Places /\ held'[g] <= held[g]
  BY DEF Places, PoolInv, PoolTypeOK
<1>4. g = "main" => /\ place \in {"parent", "climb"} => boot = 3
                    /\ place \in {"catchup", "rows", "scan", "parent", "climb", "sleep", "ended"}
  OBVIOUS
<1>5. boot' = boot /\ stopping' = stopping
  OBVIOUS
<1> QED
  BY <1>1, <1>2, <1>3, <1>4, <1>5, MovesKeeps

(* A goroutine goes on, with the connections it needs there. *)
LEMMA GoKeeps ==
  ASSUME PoolInv, NEW g \in Goroutine, NEW place \in Places, Goto(g, place),
         pc[g] \notin Wants, pc[g] # "unborn",
         \/ held' = held /\ held[g] = Needs(place)
         \/ Release(g) /\ held[g] = Needs(place) + 1,
         climbs' \in [Goroutine -> 0..MaxClimbs], UNCHANGED <<queue, boot, stopping>>,
         g = "main" => place \in {"catchup", "scan", "sleep", "ended"}
  PROVE  PoolInv'
<1>1. QueueOK' /\ queue' \in Seq(Goroutine)
  BY MoveKeepsQueue DEF PoolInv, PoolTypeOK
<1>2. held \in [Goroutine -> Nat] /\ Needs(place) \in 0..2
  BY DEF PoolInv, PoolTypeOK, Needs
<1>3. Moves(g, place) /\ held'[g] <= held[g]
  BY <1>2 DEF Moves, Release
<1>4. g = "main" => /\ place \in {"parent", "climb"} => boot = 3
                    /\ place \in {"catchup", "rows", "scan", "parent", "climb", "sleep", "ended"}
  OBVIOUS
<1>5. boot' = boot /\ stopping' = stopping
  OBVIOUS
<1> QED
  BY <1>1, <1>3, <1>4, <1>5, MovesKeeps

LEMMA GrantKeeps == PoolInv /\ Grant => PoolInv'
<1> SUFFICES ASSUME PoolInv, Grant PROVE PoolInv'
  OBVIOUS
<1> DEFINE g == Head(queue)
<1>1. queue \in Seq(Goroutine) /\ Len(queue) \in Nat /\ 1 \in 1..Len(queue)
  BY DEF PoolInv, PoolTypeOK, Grant
<1>2. g = queue[1] /\ g \in Goroutine /\ pc[g] \in Wants
  BY <1>1 DEF PoolInv, QueueOK
<1>3. queue' = RemoveAt(queue, 1)
  BY <1>1 DEF Grant, RemoveAt
<1>4. QueueOK' /\ queue' \in Seq(Goroutine)
  BY <1>1, <1>2, <1>3, LeaveKeepsQueue DEF Grant, PoolInv
<1> HIDE DEF g
<1>5. /\ Goto(g, With(pc[g])) /\ held' = [held EXCEPT ![g] = @ + 1]
      /\ UNCHANGED <<boot, climbs, stopping>> /\ InUse < MaxConns
  BY DEF Grant, g
<1>6. held[g] = Needs(pc[g]) /\ held \in [Goroutine -> Nat]
  BY <1>2 DEF PoolInv, PoolTypeOK
<1>7. Needs(With(pc[g])) = Needs(pc[g]) + 1 /\ With(pc[g]) \in Places
  BY <1>2 DEF Needs, With, Wants, Places
<1>8. Moves(g, With(pc[g])) /\ held'[g] = held[g] + 1
  BY <1>2, <1>5, <1>6, <1>7 DEF Moves
<1>9. g = "main" => /\ With(pc[g]) \in {"parent", "climb"} => boot = 3
                    /\ With(pc[g]) \in {"scan", "climb"}
  BY <1>2 DEF PoolInv, MainOK, With, Wants
<1>10. climbs' \in [Goroutine -> 0..MaxClimbs] /\ pc[g] # "unborn"
  BY <1>2, <1>5 DEF PoolInv, PoolTypeOK, Wants
<1> QED
  BY <1>2, <1>4, <1>5, <1>7, <1>8, <1>9, <1>10, MovesKeeps

LEMMA GiveUpKeeps ==
  ASSUME PoolInv, NEW g \in Goroutine, GiveUp(g) PROVE PoolInv'
<1>1. PICK i \in 1..Len(queue) : queue[i] = g /\ queue' = RemoveAt(queue, i)
  BY DEF GiveUp
<1>2. QueueOK' /\ queue' \in Seq(Goroutine)
  BY <1>1, LeaveKeepsQueue DEF GiveUp, PoolInv
<1>3. held[g] = Needs(pc[g]) /\ held \in [Goroutine -> Nat] /\ pc[g] \in Wants
  BY DEF PoolInv, PoolTypeOK, GiveUp
<1>4. Needs(Without(pc[g])) = Needs(pc[g]) /\ Without(pc[g]) \in Places
  BY <1>3 DEF Needs, Without, Wants, Places
<1>5. Moves(g, Without(pc[g])) /\ held'[g] <= held[g]
  BY <1>3, <1>4 DEF Moves, GiveUp
<1>6. g = "main" => Without(pc[g]) \in {"sleep", "scan"}
  BY <1>3 DEF PoolInv, MainOK, Without, Wants
<1>7. boot' = boot /\ stopping' = stopping /\ pc[g] # "unborn"
  BY <1>3 DEF GiveUp, Wants
<1>8. climbs' \in [Goroutine -> 0..MaxClimbs]
  BY DEF GiveUp, PoolInv, PoolTypeOK
<1>9. g = "main" =>
        /\ Without(pc[g]) \in {"parent", "climb"} => boot = 3
        /\ Without(pc[g]) \in {"catchup", "rows", "scan", "parent", "climb", "sleep", "ended"}
  BY <1>6
<1> QED
  BY <1>2, <1>4, <1>5, <1>7, <1>8, <1>9, MovesKeeps

(* Main goes to the next catch-up, and after the last one starts the listeners. *)
LEMMA MainBootsKeeps == PoolInv /\ MainBoots => PoolInv'
<1> SUFFICES ASSUME PoolInv, MainBoots PROVE PoolInv'
  OBVIOUS
<1>1. /\ pc \in [Goroutine -> Places] /\ boot \in 1..Poll /\ boot < Poll
      /\ UNCHANGED <<held, queue, climbs, stopping>> /\ boot' = boot + 1
      /\ \A g \in Goroutine : held[g] = Needs(pc[g])
  BY DEF PoolInv, PoolTypeOK, MainBoots
<1>2. pc["main"] = "sleep" /\ \A g \in Listener : pc[g] = "unborn"
  BY <1>1 DEF PoolInv, MainOK, MainBoots
<1>3. /\ pc' \in [Goroutine -> Places]
      /\ pc'["main"] = IF boot < 3 THEN "catchup" ELSE "sleep"
      /\ \A g \in Listener : pc'[g] = IF boot < 3 THEN pc[g] ELSE "loop"
  BY <1>1 DEF MainBoots, Goroutine, Listener, Places
<1>4. \A g \in Goroutine : pc[g] \notin Wants /\ pc'[g] \notin Wants /\ Needs(pc'[g]) = Needs(pc[g])
  BY <1>2, <1>3 DEF Goroutine, Listener, Wants, Needs
<1>5. PoolTypeOK'
  BY <1>1, <1>3, <1>4 DEF PoolInv, PoolTypeOK, InUse, Poll
<1>6. QueueOK'
  BY <1>1, <1>4 DEF PoolInv, PoolTypeOK, QueueOK
<1>7. MainOK'
  BY <1>1, <1>2, <1>3 DEF MainOK, Poll, Listener
<1> QED
  BY <1>5, <1>6, <1>7 DEF PoolInv

(* What a goroutine does by itself. *)
LEMMA ProceedKeeps ==
  ASSUME PoolInv, NEW g \in Goroutine,
         Loop(g) \/ ReadRow(g) \/ Cancelled(g) \/ Lost(g) \/ Notified(g) \/ Prepare(g)
         \/ ClimbUp(g) \/ ReadParents(g) \/ EndScan(g) \/ Reconnect(g)
  PROVE  PoolInv'
<1>1. /\ held[g] = Needs(pc[g]) /\ pc \in [Goroutine -> Places]
      /\ climbs \in [Goroutine -> 0..MaxClimbs]
      /\ g = "main" => pc[g] \in {"catchup", "rows", "scan", "parent", "climb", "sleep", "ended"}
  BY DEF PoolInv, PoolTypeOK, MainOK
<1>2. g \in Listener => g # "main"
  BY DEF Listener
<1>3. CASE Loop(g)
  BY <1>1, <1>2, <1>3, AskKeeps, GoKeeps DEF Loop, Needs, Places, Wants
<1>4. CASE ReadRow(g)
  BY <1>1, <1>4, GoKeeps DEF ReadRow, Needs, Places, Wants
<1>5. CASE Cancelled(g)
  BY <1>1, <1>5, GoKeeps DEF Cancelled, Needs, Places, Wants
<1>6. CASE Lost(g)
  BY <1>1, <1>6, GoKeeps DEF Lost, Needs, Places, Wants
<1>7. CASE Notified(g)
  BY <1>1, <1>7, AskKeeps DEF Notified, Needs, Wants
<1>8. CASE Prepare(g)
  <2>1. climbs' \in [Goroutine -> 0..MaxClimbs]
    BY <1>1, <1>8, PoolAssumption DEF Prepare
  <2> QED
    BY <1>1, <1>8, <2>1, AskKeeps, GoKeeps DEF Prepare, Needs, Places, Wants
<1>9. CASE ClimbUp(g)
  <2>1. climbs' \in [Goroutine -> 0..MaxClimbs]
    BY <1>1, <1>9, PoolAssumption DEF ClimbUp
  <2>2. g = "main" => boot = 3
    BY <1>9 DEF ClimbUp, CatchesUpFailed
  <2> QED
    BY <1>1, <1>9, <2>1, <2>2, AskKeeps DEF ClimbUp, Needs, Wants
<1>10. CASE ReadParents(g)
  BY <1>1, <1>10, GoKeeps DEF ReadParents, Needs, Places, Wants
<1>11. CASE EndScan(g)
  BY <1>1, <1>11, GoKeeps DEF EndScan, Needs, Places, Wants
<1>12. CASE Reconnect(g)
  BY <1>1, <1>2, <1>12, GoKeeps DEF Reconnect, Needs, Places, Wants
<1> QED
  BY <1>3, <1>4, <1>5, <1>6, <1>7, <1>8, <1>9, <1>10, <1>11, <1>12

LEMMA PoolInvHolds == Spec => []PoolInv
<1>1. Init => PoolInv
  <2> SUFFICES ASSUME Init PROVE PoolInv
    OBVIOUS
  <2>1. PoolTypeOK
    <3>1. pc \in [Goroutine -> Places] /\ held \in [Goroutine -> Nat] /\ queue \in Seq(Goroutine)
      BY DEF Init, Places
    <3>2. boot \in 1..Poll
      BY DEF Init, Poll
    <3>3. stopping \in BOOLEAN
      BY DEF Init
    <3>4. climbs \in [Goroutine -> 0..MaxClimbs]
      BY PoolAssumption DEF Init
    <3>5. \A g \in Goroutine : held[g] = Needs(pc[g])
      BY DEF Init, Needs
    <3>6. InUse <= MaxConns
      BY PoolAssumption DEF Init, InUse, Goroutine, Listener
    <3> QED
      BY <3>1, <3>2, <3>3, <3>4, <3>5, <3>6 DEF PoolTypeOK
  <2>2. QueueOK /\ MainOK
    BY DEF Init, QueueOK, MainOK, Goroutine, Listener
  <2> QED
    BY <2>1, <2>2 DEF PoolInv
<1>2. PoolInv /\ [Next]_vars => PoolInv'
  <2> SUFFICES ASSUME PoolInv, [Next]_vars PROVE PoolInv'
    OBVIOUS
  <2>1. CASE UNCHANGED vars
    BY <2>1 DEF vars, PoolInv, PoolTypeOK, QueueOK, MainOK, InUse
  <2>2. CASE Signal
    BY <2>2 DEF Signal, PoolInv, PoolTypeOK, QueueOK, MainOK, InUse
  <2>3. CASE MainPolls \/ MainStops
    <3>1. "main" \in Goroutine /\ held["main"] = Needs(pc["main"])
          /\ climbs \in [Goroutine -> 0..MaxClimbs]
      BY DEF PoolInv, PoolTypeOK, Goroutine
    <3> QED
      BY <2>3, <3>1, GoKeeps DEF MainPolls, MainStops, Needs, Places, Wants
  <2>4. ASSUME NEW g \in Goroutine, Proceed(g) \/ GiveUp(g) \/ Notified(g) \/ Lost(g) \/ ClimbUp(g)
        PROVE  PoolInv'
    BY <2>4, ProceedKeeps, GiveUpKeeps DEF Proceed
  <2> QED
    BY <2>1, <2>2, <2>3, <2>4, GrantKeeps, MainBootsKeeps DEF Next
<1> QED
  BY <1>1, <1>2, PTL DEF Spec

-----------------------------------------------------------------------------
(* Theorems *)

(* Whatever fails, breaks or is cancelled, every goroutine holds exactly the *)
(* connections of the calls it is in, and the pool is never overdrawn        *)
(* (listener.go:35, sync.go:27).                                             *)
THEOREM PoolTypeCorrect == Spec => []PoolTypeOK
<1>1. PoolInv => PoolTypeOK
  BY DEF PoolInv
<1> QED
  BY <1>1, PoolInvHolds, PTL

(* A pool of four connections or more is never exhausted by goroutines that  *)
(* all wait: only the three listeners keep a connection while they wait, for *)
(* main climbs before they exist (listener.go:31,59, sync.go:159,233).       *)
THEOREM PoolNeverDeadlocks == Spec => []SomeoneReleases
<1>1. PoolInv => SomeoneReleases
  <2> SUFFICES ASSUME PoolInv, \A g \in Goroutine : ~AboutToRelease(g) PROVE InUse # MaxConns
    BY DEF SomeoneReleases
  <2>1. \A g \in Goroutine : held[g] \in {0, 1}
    BY DEF AboutToRelease, PoolInv, PoolTypeOK, Needs
  <2>2. CASE pc["main"] = "parent"
    <3>1. \A g \in Listener : held[g] = 0
      BY <2>2 DEF PoolInv, PoolTypeOK, MainOK, Needs, Goroutine, Listener, Poll
    <3> QED
      BY <2>1, <3>1, PoolAssumption DEF InUse, Goroutine, Listener
  <2>3. CASE pc["main"] # "parent"
    <3>1. held["main"] = 0
      BY <2>3 DEF AboutToRelease, PoolInv, PoolTypeOK, MainOK, Needs, Goroutine
    <3> QED
      BY <2>1, <3>1, PoolAssumption DEF InUse, Goroutine, Listener
  <2> QED
    BY <2>2, <2>3
<1> QED
  BY <1>1, PoolInvHolds, PTL

=============================================================================
