---------------------------- MODULE SummaryCache ----------------------------
(***************************************************************************)
(* The cache of GET /summary/recent: ttlCache.getOrLoad of                 *)
(* internal/server/ttlcache.go as StatsHandler.RecentSummary calls it.     *)
(* One goroutine per HTTP request; entries is guarded by a mutex, so a get *)
(* or a set is atomic, and singleflight lets one goroutine per key load    *)
(* while the others that missed wait for its result.                       *)
(*                                                                         *)
(* The transfers change all the time, so a summary is told by the moment   *)
(* it was counted at.                                                      *)
(***************************************************************************)
EXTENDS Integers

CONSTANTS
  Caller,        \* HTTP requests that may be under way at once
  Asked,         \* values of the query parameter limit; 0 for one that is no number
  MaxRecent,     \* maxRecentLimit
  DefaultRecent, \* defaultRecentLimit
  TTL,           \* recentCacheTTL
  Lag,           \* bound: the time a count, or a result, takes to be handed on
  MaxTime,       \* bound: where the clock stops
  None,          \* no count, no answer, nobody
  Error          \* an error, answered as 500

VARIABLES
  now,     \* time.Now
  entries, \* ttlCache.entries: key -> count and expiry, for the keys loaded once
  flight,  \* singleflight: key -> the caller that leads the load, or None
  calls,   \* caller -> where its getOrLoad is
  answer   \* caller -> the last answer it got

vars == <<now, entries, flight, calls, answer>>

Time == 0..MaxTime

(* parseRecentLimit: what the cache is keyed by. *)
ParseRecentLimit(asked) ==
  IF asked <= 0 \/ asked > MaxRecent THEN DefaultRecent ELSE asked

Key == 1..MaxRecent

ASSUME CacheAssumption ==
  /\ Asked \subseteq Int
  /\ MaxRecent \in Nat /\ DefaultRecent \in Key
  /\ TTL \in Nat /\ Lag \in Nat /\ MaxTime \in Nat
  /\ None \notin Int /\ None \notin Caller /\ Error \notin Int /\ Error # None

(* Where a call stands: before sf.Do, waiting for another's load, before the *)
(* leader's second get, before its query, with a count to store, and with a  *)
(* result to return.                                                         *)
Busy  == {"enter", "wait", "check", "query", "store", "finish"}
Leads == {"check", "query", "store", "finish"}

Idle == [pc |-> "idle", key |-> None, value |-> None, since |-> 0]

Init ==
  /\ now = 0
  /\ entries = [k \in {} |-> None]
  /\ flight = [k \in Key |-> None]
  /\ calls = [c \in Caller |-> Idle]
  /\ answer = [c \in Caller |-> None]

-----------------------------------------------------------------------------
(* The entries *)

(* Mutant: an entry is never too old. *)
LiveForEver(k) == k \in DOMAIN entries

(* get finds the key and the clock is not after its expiry. *)
Live(k) == k \in DOMAIN entries /\ now <= entries[k].expiresAt

(* set *)
SetEntry(k, value) ==
  entries' = [j \in DOMAIN entries \cup {k} |->
                IF j = k THEN [value |-> value, expiresAt |-> now + TTL]
                         ELSE entries[j]]

-----------------------------------------------------------------------------
(* getOrLoad *)

(* A request comes in.  A live entry answers it at once. *)
Request(c, asked) ==
  LET k == ParseRecentLimit(asked)
  IN  /\ calls[c].pc = "idle"
      /\ IF Live(k)
           THEN /\ answer' = [answer EXCEPT ![c] = entries[k].value]
                /\ calls' = calls
           ELSE /\ answer' = [answer EXCEPT ![c] = None]
                /\ calls' = [calls EXCEPT ![c] = [Idle EXCEPT !.pc = "enter", !.key = k]]
      /\ UNCHANGED <<now, entries, flight>>

(* Mutant: every miss loads on its own. *)
EnterAlone(c) ==
  /\ calls[c].pc = "enter"
  /\ calls' = [calls EXCEPT ![c].pc = "check"]
  /\ flight' = [flight EXCEPT ![calls[c].key] = c]
  /\ UNCHANGED <<now, entries, answer>>

(* sf.Do: lead the load of the key, or wait for the one under way. *)
Enter(c) ==
  LET k == calls[c].key
  IN  /\ calls[c].pc = "enter"
      /\ IF flight[k] = None
           THEN /\ flight' = [flight EXCEPT ![k] = c]
                /\ calls' = [calls EXCEPT ![c].pc = "check"]
           ELSE /\ calls' = [calls EXCEPT ![c].pc = "wait"]
                /\ flight' = flight
      /\ UNCHANGED <<now, entries, answer>>

Leader(c, pc) == calls[c].pc = pc

(* The leader goes on with a count, or an error, that it has as of now. *)
Carry(c, pc, value) ==
  calls' = [calls EXCEPT ![c] = [pc |-> pc, key |-> @.key, value |-> value, since |-> now]]

(* It has a result for all who wait. *)
HasResult(c, value) == Carry(c, "finish", value)

(* Mutant: the leader does not look again. *)
CheckNothing(c) ==
  /\ Leader(c, "check")
  /\ calls' = [calls EXCEPT ![c].pc = "query"]
  /\ UNCHANGED <<now, entries, flight, answer>>

(* The leader's second get: another may have loaded since its first. *)
Check(c) ==
  /\ Leader(c, "check")
  /\ IF Live(calls[c].key)
       THEN HasResult(c, entries[calls[c].key].value)
       ELSE calls' = [calls EXCEPT ![c].pc = "query"]
  /\ UNCHANGED <<now, entries, flight, answer>>

(* CountRecentByStatus sees the table as it is now. *)
Query(c) ==
  /\ Leader(c, "query")
  /\ Carry(c, "store", now)
  /\ UNCHANGED <<now, entries, flight, answer>>

(* The database fails, or the leader's client has left: the query runs under *)
(* the context of the leader's request, whoever waits for it.                *)
QueryFails(c) ==
  /\ Leader(c, "query")
  /\ HasResult(c, Error)
  /\ UNCHANGED <<now, entries, flight, answer>>

(* The count is cached, to live for TTL from now on. *)
Store(c) ==
  /\ Leader(c, "store")
  /\ SetEntry(calls[c].key, calls[c].value)
  /\ HasResult(c, calls[c].value)
  /\ UNCHANGED <<now, flight, answer>>

(* Those who get the leader's result. *)
Waiting(c) ==
  {c} \cup {d \in Caller : calls[d].pc = "wait" /\ calls[d].key = calls[c].key}

(* Mutant: the waiting are answered with a count, not with an error. *)
FinishUnlessError(c) ==
  LET called == IF calls[c].value = Error THEN {c} ELSE Waiting(c)
  IN  /\ Leader(c, "finish")
      /\ flight' = [flight EXCEPT ![calls[c].key] = None]
      /\ answer' = [d \in Caller |-> IF d \in called THEN calls[c].value ELSE answer[d]]
      /\ calls' = [d \in Caller |-> IF d \in called THEN Idle ELSE calls[d]]
      /\ UNCHANGED <<now, entries>>

(* sf.Do returns: the key is free again, and all are answered. *)
Finish(c) ==
  LET called == Waiting(c)
  IN  /\ Leader(c, "finish")
      /\ flight' = [flight EXCEPT ![calls[c].key] = None]
      /\ answer' = [d \in Caller |-> IF d \in called THEN calls[c].value ELSE answer[d]]
      /\ calls' = [d \in Caller |-> IF d \in called THEN Idle ELSE calls[d]]
      /\ UNCHANGED <<now, entries>>

(* The clock moves on, unless a count or a result has been under way for Lag. *)
Tick ==
  /\ now < MaxTime
  /\ \A c \in Caller : calls[c].pc \in {"store", "finish"} => now - calls[c].since < Lag
  /\ now' = now + 1
  /\ UNCHANGED <<entries, flight, calls, answer>>

Step(c) ==
  Enter(c) \/ Check(c) \/ Query(c) \/ QueryFails(c) \/ Store(c) \/ Finish(c)

Next ==
  \/ Tick
  \/ \E c \in Caller : Step(c) \/ \E asked \in Asked : Request(c, asked)

Spec == Init /\ [][Next]_vars

(* Every goroutine is scheduled, and a query returns or fails. *)
FairSpec == Spec /\ \A c \in Caller : WF_vars(Step(c))

-----------------------------------------------------------------------------
(* Properties *)

Call == [pc    : Busy \cup {"idle"},
         key   : Key \cup {None},
         value : Time \cup {None, Error},
         since : Time]

(* Type correctness: of the cache, of the loads and of the calls under way.  *)
(* A caller leads exactly the load that is registered under its key, and one *)
(* with a count to store has counted (ttlcache.go:42-56).                    *)
SummaryTypeOK ==
  /\ now \in Time
  /\ DOMAIN entries \subseteq Key
  /\ entries \in [DOMAIN entries -> [value : Time, expiresAt : 0..(MaxTime + TTL)]]
  /\ flight \in [Key -> Caller \cup {None}]
  /\ calls \in [Caller -> Call]
  /\ answer \in [Caller -> Time \cup {None, Error}]
  /\ \A c \in Caller :
       /\ calls[c].pc \in Busy => calls[c].key \in Key
       /\ calls[c].pc \in Leads => flight[calls[c].key] = c
       /\ calls[c].pc = "store" => calls[c].value \in Time

(* A summary is counted only when no live entry could have answered: the     *)
(* second get of ttlcache.go:43 catches the load that ended between a miss   *)
(* and sf.Do, and nobody else can store while the leader counts.             *)
NoNeedlessLoad ==
  \A c \in Caller : calls[c].pc \in {"query", "store"} => ~Live(calls[c].key)

(* The cache never goes back: a slow load does not overwrite the summary of  *)
(* a later one (ttlcache.go:42-51), so no request is answered with an older  *)
(* summary than a request that was answered before it.                       *)
NeverGoesBack ==
  [][\A k \in DOMAIN entries :
       k \in DOMAIN entries' /\ entries'[k].value >= entries[k].value]_vars

(* What is cached is published, expired or not: nobody else can replace it.  *)
Published == [k \in Key |-> IF k \in DOMAIN entries THEN entries[k].value ELSE None]

Asking == [c \in Caller |-> calls[c].key]

(* A count is cached up to Lag after it was taken, lives for TTL, and may be *)
(* handed on Lag later.                                                      *)
Service == INSTANCE SummaryService WITH
  Staleness <- TTL + 2 * Lag, published <- Published, asking <- Asking

(* The cache keeps the promise of the handler (handler.go:99-113): every     *)
(* answer is the published count of the caller's own limit at the moment the *)
(* call is answered and no older than TTL + 2 Lag, or an error.              *)
ServesPublished == Service!Spec

(* Every request is answered, those that wait for another's load included,   *)
(* whether that load succeeds or fails (ttlcache.go:42-56).                  *)
EveryCallAnswered ==
  \A c \in Caller : calls[c].pc # "idle" ~> calls[c].pc = "idle"

=============================================================================
