----------------------------- MODULE RelayerPool -----------------------------
(***************************************************************************)
(* Who holds and who waits for connections of the pool to the relayer's    *)
(* database: the goroutine that runs Run and the three listeners           *)
(* (internal/indexer).  A listener keeps the connection it LISTENs on and  *)
(* takes a second one for every row it is notified of; a catch-up keeps    *)
(* the connection of its rows while it climbs to an ancestor on another.   *)
(*                                                                         *)
(* The pool is pgxpool with the defaults of DSN: waiters are served in     *)
(* turn, and a connection that broke frees its place when it is released.  *)
(***************************************************************************)
EXTENDS Integers, SequencesExt

CONSTANTS
  MaxConns,  \* size of the pool; pgxpool's default is 4 or the number of CPUs if larger
  MaxClimbs  \* bound: reads of done in one catch-up of failed

ASSUME PoolAssumption ==
  /\ MaxConns \in Nat /\ MaxConns >= 4
  /\ MaxClimbs \in Nat

VARIABLES
  pc,       \* goroutine -> where it is
  held,     \* goroutine -> how many connections it has
  queue,    \* the goroutines that wait for a connection, first come first
  boot,     \* the catch-up main runs: 1 queue, 2 done, 3 failed; 4 is the poll
  climbs,   \* goroutine -> reads of done left to its catch-up
  stopping  \* the context is cancelled by a signal

vars == <<pc, held, queue, boot, climbs, stopping>>

Listener  == {"queue", "done", "failed"}
Goroutine == Listener \cup {"main"}
Poll      == 4

(* Where a goroutine waits for a connection, and where it goes on with one.  *)
Wants == {"acquire", "row", "rows", "parent"}
With(place) ==
  CASE place = "acquire" -> "wait" [] place = "row" -> "read"
    [] place = "rows" -> "scan" [] place = "parent" -> "climb"

(* Where it is when the pool, or a statement, answers with an error. *)
Without(place) ==
  CASE place = "acquire" -> "catchup" [] place = "row" -> "wait"
    [] place = "rows" -> "sleep" [] place = "parent" -> "scan"

InUse == held["main"] + held["queue"] + held["done"] + held["failed"]

Init ==
  /\ pc = [g \in Goroutine |-> IF g = "main" THEN "catchup" ELSE "unborn"]
  /\ held = [g \in Goroutine |-> 0]
  /\ queue = <<>>
  /\ boot = 1
  /\ climbs = [g \in Goroutine |-> 0]
  /\ stopping = FALSE

-----------------------------------------------------------------------------
(* The pool *)

Goto(g, place) == pc' = [pc EXCEPT ![g] = place]

(* A call that needs a connection waits for its turn. *)
Ask(g, place) == Goto(g, place) /\ queue' = Append(queue, g)

Release(g) == held' = [held EXCEPT ![g] = @ - 1]

(* The first waiter gets a connection. *)
Grant ==
  /\ queue # <<>> /\ InUse < MaxConns
  /\ LET g == Head(queue)
     IN  Goto(g, With(pc[g])) /\ held' = [held EXCEPT ![g] = @ + 1]
  /\ queue' = Tail(queue)
  /\ UNCHANGED <<boot, climbs, stopping>>

(* A waiter gives up: its context is cancelled, or no connection can be made. *)
GiveUp(g) ==
  /\ pc[g] \in Wants
  /\ \E i \in 1..Len(queue) : queue[i] = g /\ queue' = RemoveAt(queue, i)
  /\ Goto(g, Without(pc[g]))
  /\ UNCHANGED <<held, boot, climbs, stopping>>

-----------------------------------------------------------------------------
(* A listener *)

(* The loop of listenQueue, listenDone and listenFailed. *)
Loop(g) ==
  /\ g \in Listener /\ pc[g] = "loop"
  /\ IF stopping THEN Goto(g, "ended") /\ queue' = queue ELSE Ask(g, "acquire")
  /\ UNCHANGED <<held, boot, climbs, stopping>>

(* A notification arrives: its row is read on another connection. *)
Notified(g) ==
  /\ pc[g] = "wait" /\ ~stopping
  /\ Ask(g, "row")
  /\ UNCHANGED <<held, boot, climbs, stopping>>

ReadRow(g) ==
  /\ pc[g] = "read"
  /\ Goto(g, "wait")
  /\ Release(g)
  /\ UNCHANGED <<queue, boot, climbs, stopping>>

(* Mutant: the catch-up runs before the deferred Release. *)
LostHolding(g) ==
  /\ pc[g] = "wait"
  /\ Goto(g, "catchup")
  /\ UNCHANGED <<held, queue, boot, climbs, stopping>>

(* LISTEN fails or the connection breaks: it is released, then caught up. *)
Lost(g) ==
  /\ pc[g] = "wait"
  /\ Goto(g, "catchup")
  /\ Release(g)
  /\ UNCHANGED <<queue, boot, climbs, stopping>>

(* Mutant: WaitForNotification without the context of the process. *)
CancelledNever(g) == FALSE

(* WaitForNotification ends with the context. *)
Cancelled(g) ==
  /\ pc[g] = "wait" /\ stopping
  /\ Goto(g, "loop")
  /\ Release(g)
  /\ UNCHANGED <<queue, boot, climbs, stopping>>

-----------------------------------------------------------------------------
(* A catch-up or the poll *)

CatchesUpFailed(g) == g = "failed" \/ (g = "main" /\ boot = 3)

(* The read of the cursor, of the rows in flight or of the detected ids: it  *)
(* fails, or finds that there is nothing to look for, or leads to the query. *)
Prepare(g) ==
  /\ pc[g] = "catchup"
  /\ \/ ~stopping /\ Ask(g, "rows")
     \/ Goto(g, "sleep") /\ queue' = queue
  /\ climbs' = [climbs EXCEPT ![g] = IF CatchesUpFailed(g) THEN MaxClimbs ELSE 0]
  /\ UNCHANGED <<held, boot, stopping>>

(* A row of failed has parents: each is looked up in done. *)
ClimbUp(g) ==
  /\ pc[g] = "scan" /\ ~stopping /\ CatchesUpFailed(g) /\ climbs[g] > 0
  /\ Ask(g, "parent")
  /\ climbs' = [climbs EXCEPT ![g] = @ - 1]
  /\ UNCHANGED <<held, boot, stopping>>

ReadParents(g) ==
  /\ pc[g] = "climb"
  /\ Goto(g, "scan")
  /\ Release(g)
  /\ UNCHANGED <<queue, boot, climbs, stopping>>

(* Mutant: a catch-up that returns early may leave its rows open. *)
EndScanOpen(g) ==
  /\ pc[g] = "scan"
  /\ Goto(g, "sleep")
  /\ held' = held \/ Release(g)
  /\ UNCHANGED <<queue, boot, climbs, stopping>>

(* The last row, an error or a break: the rows are closed. *)
EndScan(g) ==
  /\ pc[g] = "scan"
  /\ Goto(g, "sleep")
  /\ Release(g)
  /\ UNCHANGED <<queue, boot, climbs, stopping>>

(* Main goes from one catch-up to the next, and starts the listeners. *)
MainBoots ==
  /\ pc["main"] = "sleep" /\ boot < Poll
  /\ boot' = boot + 1
  /\ pc' = [g \in Goroutine |->
              CASE g = "main" -> IF boot < 3 THEN "catchup" ELSE "sleep"
                [] OTHER      -> IF boot < 3 THEN pc[g] ELSE "loop"]
  /\ UNCHANGED <<held, queue, climbs, stopping>>

(* The ticker of Run. *)
MainPolls ==
  /\ pc["main"] = "sleep" /\ boot = Poll
  /\ Goto("main", "catchup")
  /\ UNCHANGED <<held, queue, boot, climbs, stopping>>

(* The select of Run finds the context done. *)
MainStops ==
  /\ pc["main"] = "sleep" /\ boot = Poll /\ stopping
  /\ Goto("main", "ended")
  /\ UNCHANGED <<held, queue, boot, climbs, stopping>>

(* A listener goes on after five seconds, or ends. *)
Reconnect(g) ==
  /\ g \in Listener /\ pc[g] = "sleep"
  /\ Goto(g, IF stopping THEN "ended" ELSE "loop")
  /\ UNCHANGED <<held, queue, boot, climbs, stopping>>

(* The process gets SIGINT or SIGTERM. *)
Signal ==
  /\ ~stopping
  /\ stopping' = TRUE
  /\ UNCHANGED <<pc, held, queue, boot, climbs>>

-----------------------------------------------------------------------------
(* What a goroutine does as soon as it can. *)
Proceed(g) ==
  \/ Loop(g) \/ ReadRow(g) \/ Cancelled(g) \/ Prepare(g) \/ ReadParents(g)
  \/ EndScan(g) \/ Reconnect(g)
  \/ stopping /\ GiveUp(g)

Next ==
  \/ Grant
  \/ Signal
  \/ MainBoots \/ MainPolls \/ MainStops
  \/ \E g \in Goroutine : Proceed(g) \/ GiveUp(g) \/ Notified(g) \/ Lost(g) \/ ClimbUp(g)

Spec == Init /\ [][Next]_vars

(* Statements end, the scheduler is fair, timers fire, and a select with two *)
(* cases ready takes either in the end (Go chooses at random).  Nothing is   *)
(* assumed of notifications, of broken connections or of the signal.         *)
FairSpec ==
  /\ Spec
  /\ WF_vars(Grant) /\ WF_vars(MainBoots) /\ SF_vars(MainStops)
  /\ \A g \in Goroutine : WF_vars(Proceed(g))

-----------------------------------------------------------------------------
(* Properties *)

Places == Wants \cup {"unborn", "loop", "wait", "read", "catchup", "scan", "climb",
                      "sleep", "ended"}

(* The connections a goroutine needs where it is. *)
Needs(place) ==
  CASE place \in {"read", "climb"} -> 2
    [] place \in {"wait", "row", "scan", "parent"} -> 1
    [] OTHER -> 0

(* Type correctness; a goroutine holds exactly the connections of the calls  *)
(* it is in, so none is lost on any way out of them (listener.go:35,         *)
(* sync.go:27), and the pool is never overdrawn.                             *)
PoolTypeOK ==
  /\ pc \in [Goroutine -> Places]
  /\ held \in [Goroutine -> Nat]
  /\ queue \in Seq(Goroutine)
  /\ boot \in 1..Poll
  /\ climbs \in [Goroutine -> 0..MaxClimbs]
  /\ stopping \in BOOLEAN
  /\ \A g \in Goroutine : held[g] = Needs(pc[g])
  /\ InUse <= MaxConns

(* A connection of a statement that ends by itself. *)
AboutToRelease(g) == pc[g] \in {"read", "climb", "scan"}

(* No deadlock of the pool: when it is exhausted and someone waits, not all  *)
(* connections are with goroutines that wait for another one or for a        *)
(* notification (listener.go:31 and 59, sync.go:159 and 233).                *)
SomeoneReleases ==
  queue # <<>> /\ InUse = MaxConns => \E g \in Goroutine : AboutToRelease(g)

(* Whoever waits for a connection gets one, or an error, whatever arrives or *)
(* breaks meanwhile (pool.go:11).                                            *)
EveryoneServed ==
  \A g \in Goroutine : pc[g] \in Wants ~> pc[g] \notin Wants

(* After the signal every goroutine of the indexer ends, wherever it was,    *)
(* and gives its connections back (indexer.go:80, listener.go:13,45,22).     *)
StopsOnSignal ==
  stopping ~> \A g \in Goroutine : pc[g] = "ended" /\ held[g] = 0

=============================================================================
